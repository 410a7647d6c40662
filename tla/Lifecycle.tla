------------------------------- MODULE Lifecycle -------------------------------
(***************************************************************************)
(* The life of the process: main and run of cmd and internal/cli with      *)
(* initialize, the goroutine that shuts the server down, the purge worker  *)
(* of StartPurging, and the requests in flight.  The process ends when     *)
(* main does, whatever its goroutines are doing.                           *)
(***************************************************************************)
EXTENDS Config

CONSTANTS
  Configurations, \* the command lines the process may be started with
  TokenOf,      \* the token Microsoft issues to an application
  NoParams,     \* before loadParams
  Requests,     \* the requests that may come
  PurgeRetries, \* attempts of one purge
  MaxFaults     \* bound on the purges that fail

ASSUME LifecycleAssumption == PurgeRetries \in Nat \ {0} /\ MaxFaults \in Nat

VARIABLES
  params,    \* what loadParams made of the command line
  main,      \* where main is
  code,      \* exit code of the process
  signalled, \* SIGINT or SIGTERM came: the context of run is cancelled
  warm,      \* which of the Intune caches initialize() has filled
  store,     \* the certificate store
  shutdown,  \* where the shutdown goroutine is
  expired,   \* the 10 seconds granted to Shutdown are over
  request,   \* per request, its state
  broken,    \* requests that found the store closed
  purger,    \* where the purge worker is
  tries,     \* attempts made by the current purge
  garbage,   \* is there a row to purge?
  faults     \* purges that failed

goVars == <<shutdown, expired>>
reqVars == <<request, broken>>
purgeVars == <<purger, tries, garbage, faults>>
vars == <<params, main, code, signalled, warm, store, shutdown, expired, request, broken,
          purger, tries, garbage, faults>>

Startup == {"params", "endpoint", "token", "step", "store", "routes", "purging", "listen"}
Alive == main # "exited"
ShuttingDown == shutdown \in {"draining", "closing", "done"}

Init ==
  /\ params = NoParams
  /\ main = "params"
  /\ code = 0
  /\ signalled = FALSE
  /\ warm = {}
  /\ store = "none"
  /\ shutdown = "none"
  /\ expired = FALSE
  /\ request = [r \in Requests |-> "none"]
  /\ broken = {}
  /\ purger = "none"
  /\ tries = 0
  /\ garbage = FALSE
  /\ faults = 0

Exit(c) == main' = "exited" /\ code' = c
Continue(l) == main' = l /\ UNCHANGED code

-----------------------------------------------------------------------------
(* Startup.  An error ends the process with code 1, or with code 0 if it   *)
(* is the cancellation of the context.                                     *)

StartupFails == Exit(1) \/ (signalled /\ main # "params" /\ Exit(0))

ValidParams == {Params(f) : f \in {g \in Configurations : Valid(g)}}

LoadParams ==
  /\ main = "params"
  /\ \/ \E p \in ValidParams : Continue("endpoint") /\ params' = p
     \/ ~(\A f \in Configurations : Valid(f)) /\ StartupFails /\ UNCHANGED params
  /\ UNCHANGED <<signalled, warm, store, goVars, reqVars, purgeVars>>

\* Microsoft answers an application that shows its secret.
PopulateEndpoint ==
  /\ main = "endpoint"
  /\ \/ params.secret = "right" /\ Continue("token") /\ warm' = warm \cup {"endpoint"}
     \/ StartupFails /\ UNCHANGED warm
  /\ UNCHANGED <<params, signalled, store, goVars, reqVars, purgeVars>>

\* Mutant of WarmToken: a token that cannot be had is only logged.
WarmTokenLogged ==
  /\ main = "token"
  /\ Continue("step")
  /\ warm' = warm \cup {"token"} \/ UNCHANGED warm
  /\ UNCHANGED <<params, signalled, store, goVars, reqVars, purgeVars>>

WarmToken ==
  /\ main = "token"
  /\ \/ TokenHasRole(TokenOf[params.clientID], ScepRole) /\ Continue("step") /\ warm' = warm \cup {"token"}
     \/ StartupFails /\ UNCHANGED warm
  /\ UNCHANGED <<params, signalled, store, goVars, reqVars, purgeVars>>

NewStepClient ==
  /\ main = "step"
  /\ \/ UrlValid(params.stepApiUrl) /\ Continue("store")
     \/ Exit(1)
  /\ UNCHANGED <<params, signalled, warm, store, goVars, reqVars, purgeVars>>

OpenStore ==
  /\ main = "store"
  /\ \/ Continue("routes") /\ store' = "open"
     \/ StartupFails /\ UNCHANGED store
  /\ UNCHANGED <<params, signalled, warm, goVars, reqVars, purgeVars>>

\* chi panics when it mounts a path twice; otherwise the shutdown goroutine starts.
PathsCollide ==
  \E i, j \in DOMAIN params.paths : i < j /\ Collide(params.paths[i], params.paths[j])
Routes ==
  /\ main = "routes"
  /\ \/ ~PathsCollide /\ Continue("purging") /\ shutdown' = "waiting"
     \/ PathsCollide /\ Exit(2) /\ UNCHANGED shutdown
  /\ UNCHANGED <<params, signalled, warm, store, expired, reqVars, purgeVars>>

StartPurging ==
  /\ main = "purging"
  /\ Continue("listen")
  /\ purger' = "wait"
  /\ UNCHANGED <<params, signalled, warm, store, goVars, reqVars, tries, garbage, faults>>

\* Mutant of Listen: every error of ListenAndServe counts as a shutdown.
ListenErrorIgnored ==
  /\ main = "listen"
  /\ IF ShuttingDown THEN Exit(0) ELSE Continue("serving") \/ Exit(0)
  /\ UNCHANGED <<params, signalled, warm, store, goVars, reqVars, purgeVars>>

\* ListenAndServe returns at once if Shutdown came first or the port is taken.
Listen ==
  /\ main = "listen"
  /\ IF ShuttingDown THEN Exit(0) ELSE Continue("serving") \/ Exit(1)
  /\ UNCHANGED <<params, signalled, warm, store, goVars, reqVars, purgeVars>>

\* Mutant of ServeReturns: run returns on the signal itself.
ServeReturnsOnSignal ==
  /\ main = "serving"
  /\ signalled
  /\ Exit(0)
  /\ UNCHANGED <<params, signalled, warm, store, goVars, reqVars, purgeVars>>

\* Once Shutdown has begun, ListenAndServe returns ErrServerClosed, run
\* returns nil and main ends.
ServeReturns ==
  /\ main = "serving"
  /\ ShuttingDown
  /\ Exit(0)
  /\ UNCHANGED <<params, signalled, warm, store, goVars, reqVars, purgeVars>>

\* Before that, an Accept that fails for good makes ListenAndServe return an
\* error of another kind, which ends main without Shutdown and store.Close.
ServeFails ==
  /\ main = "serving"
  /\ ~ShuttingDown
  /\ Exit(1)
  /\ UNCHANGED <<params, signalled, warm, store, goVars, reqVars, purgeVars>>

-----------------------------------------------------------------------------
(* The shutdown goroutine. *)

Signal ==
  /\ Alive
  /\ signalled' = TRUE
  /\ UNCHANGED <<params, main, code, warm, store, goVars, reqVars, purgeVars>>

\* Mutant of BeginShutdown: the goroutine waits for the wrong context.
BeginShutdownNever == FALSE /\ UNCHANGED vars

BeginShutdown ==
  /\ Alive
  /\ shutdown = "waiting"
  /\ signalled
  /\ shutdown' = "draining"
  /\ UNCHANGED <<params, main, code, signalled, warm, store, expired, reqVars, purgeVars>>

\* Mutant of Drained: Shutdown returns without waiting.
DrainedAtOnce ==
  /\ Alive
  /\ shutdown = "draining"
  /\ shutdown' = "closing"
  /\ UNCHANGED <<params, main, code, signalled, warm, store, expired, reqVars, purgeVars>>

\* Shutdown returns: no request is in flight, or the 10 seconds are over.
Drained ==
  /\ Alive
  /\ shutdown = "draining"
  /\ \A r \in Requests : request[r] # "active"
  /\ shutdown' = "closing"
  /\ UNCHANGED <<params, main, code, signalled, warm, store, expired, reqVars, purgeVars>>
GraceExpires ==
  /\ Alive
  /\ shutdown = "draining"
  /\ shutdown' = "closing"
  /\ expired' = TRUE
  /\ UNCHANGED <<params, main, code, signalled, warm, store, reqVars, purgeVars>>

CloseStore ==
  /\ Alive
  /\ shutdown = "closing"
  /\ shutdown' = "done"
  /\ store' = "closed"
  /\ UNCHANGED <<params, main, code, signalled, warm, expired, reqVars, purgeVars>>

-----------------------------------------------------------------------------
(* Requests. *)

Accept(r) ==
  /\ main = "serving"
  /\ ~ShuttingDown
  /\ request[r] = "none"
  /\ request' = [request EXCEPT ![r] = "active"]
  /\ UNCHANGED <<params, main, code, signalled, warm, store, goVars, broken, purgeVars>>

UseStore(r) ==
  /\ Alive
  /\ request[r] = "active"
  /\ broken' = IF store = "open" THEN broken ELSE broken \cup {r}
  /\ UNCHANGED <<params, main, code, signalled, warm, store, goVars, request, purgeVars>>

Finish(r) ==
  /\ Alive
  /\ request[r] = "active"
  /\ request' = [request EXCEPT ![r] = "done"]
  /\ UNCHANGED <<params, main, code, signalled, warm, store, goVars, broken, purgeVars>>

-----------------------------------------------------------------------------
(* The purge worker. *)

\* The grace period of a certificate in the store ends.
RowExpires ==
  /\ store = "open"
  /\ garbage' = TRUE
  /\ UNCHANGED <<params, main, code, signalled, warm, store, goVars, reqVars, purger, tries, faults>>

Ticker ==
  /\ Alive
  /\ purger = "wait"
  /\ purger' = "attempt"
  /\ tries' = 0
  /\ UNCHANGED <<params, main, code, signalled, warm, store, goVars, reqVars, garbage, faults>>

\* PurgeExpired fails once the context is cancelled or the store closed; it
\* may also find the database busy or fail for another reason.
PurgeFails ==
  /\ UNCHANGED garbage
  /\ \/ (signalled \/ store # "open") /\ UNCHANGED faults
     \/ faults < MaxFaults /\ faults' = faults + 1

AfterAttempt(l) ==
  /\ tries' = tries + 1
  /\ purger' = IF l = "attempt" /\ tries + 1 = PurgeRetries THEN "wait" ELSE l

\* Mutants of PurgeAttempt: an error ends the worker; the attempts are not counted.
PurgeAttemptGivesUp ==
  /\ Alive
  /\ purger = "attempt"
  /\ \/ store = "open" /\ garbage' = FALSE /\ AfterAttempt("wait") /\ UNCHANGED faults
     \/ PurgeFails /\ AfterAttempt("stopped")
  /\ UNCHANGED <<params, main, code, signalled, warm, store, goVars, reqVars>>
PurgeAttemptEndless ==
  /\ Alive
  /\ purger = "attempt"
  /\ PurgeFails
  /\ tries' = tries + 1
  /\ purger' = "attempt"
  /\ UNCHANGED <<params, main, code, signalled, warm, store, goVars, reqVars>>

\* Success ends the purge, a busy database is waited for, and after any
\* other error the next attempt is made at once.
PurgeAttempt ==
  /\ Alive
  /\ purger = "attempt"
  /\ \/ store = "open" /\ garbage' = FALSE /\ AfterAttempt("wait") /\ UNCHANGED faults
     \/ PurgeFails /\ \E l \in {"sleep", "attempt"} : AfterAttempt(l)
  /\ UNCHANGED <<params, main, code, signalled, warm, store, goVars, reqVars>>

PurgeBackoff ==
  /\ Alive
  /\ purger = "sleep"
  /\ purger' = IF tries = PurgeRetries THEN "wait" ELSE "attempt"
  /\ UNCHANGED <<params, main, code, signalled, warm, store, goVars, reqVars, tries, garbage, faults>>

StopPurging ==
  /\ Alive
  /\ purger = "wait"
  /\ signalled
  /\ purger' = "stopped"
  /\ UNCHANGED <<params, main, code, signalled, warm, store, goVars, reqVars, tries, garbage, faults>>

-----------------------------------------------------------------------------
Exited == ~Alive /\ UNCHANGED vars

Main ==
  \/ LoadParams \/ PopulateEndpoint \/ WarmToken \/ NewStepClient \/ OpenStore
  \/ Routes \/ StartPurging \/ Listen \/ ServeReturns
Goroutine == BeginShutdown \/ Drained \/ GraceExpires \/ CloseStore
Purger == Ticker \/ PurgeAttempt \/ PurgeBackoff \/ StopPurging

Next ==
  \/ Main \/ Goroutine \/ Purger
  \/ ServeFails \/ Signal \/ RowExpires \/ Exited
  \/ \E r \in Requests : Accept(r) \/ UseStore(r) \/ Finish(r)

Spec == Init /\ [][Next]_vars

(* Goroutines are scheduled, timers fire and startup calls return.  No     *)
(* Accept need ever fail.                                                  *)
FairSpec == Spec /\ WF_vars(Main) /\ WF_vars(Goroutine) /\ WF_vars(Purger)

-----------------------------------------------------------------------------
TypeOK ==
  /\ params \in {NoParams} \cup ValidParams
  /\ main \in Startup \cup {"serving", "exited"}
  /\ code \in {0, 1, 2}
  /\ signalled \in BOOLEAN
  /\ warm \subseteq {"endpoint", "token"}
  /\ store \in {"none", "open", "closed"}
  /\ shutdown \in {"none", "waiting", "draining", "closing", "done"}
  /\ expired \in BOOLEAN
  /\ request \in [Requests -> {"none", "active", "done"}]
  /\ broken \subseteq Requests
  /\ purger \in {"none", "wait", "attempt", "sleep", "stopped"}
  /\ tries \in 0..PurgeRetries
  /\ garbage \in BOOLEAN
  /\ faults \in 0..MaxFaults

(***************************************************************************)
(* Properties.                                                             *)
(***************************************************************************)

\* "This confirms that the credentials are valid ... before accepting any
\* client connections" (README): what is served, is served with both Intune
\* caches filled once, the store opened and the purge worker started.
ServesOnlyWhenReady ==
  \A r \in Requests : request[r] # "none" =>
    warm = {"endpoint", "token"} /\ store # "none" /\ purger # "none"

\* Of all that can be wrong with a command line, start-up overlooks one thing
\* alone, the kind of the JWK (README.md:45 would have it fail fast there too):
\* whoever serves a request has a sound configuration, or one that is sound but
\* for that key.  The other checks are spread over loadParams, initialize and
\* run, and some only hold together.
OnlyKeyKindUnchecked ==
  (\E r \in Requests : request[r] # "none") =>
    \/ SoundParams(params, TokenOf[params.clientID])
    \/ SoundButForKey(params, TokenOf[params.clientID])

\* A request in flight finds the store open, unless it outlived the 10
\* seconds that Shutdown waits (run closes the store after Shutdown).
StoreOpenForRequests == broken # {} => expired

\* Exit code 0 tells the supervisor of a requested stop, never of a failed
\* start, a taken port, a listener that broke or a panic (main, run).
ZeroMeansSignalled == main = "exited" /\ code = 0 => signalled

\* "waits up to 10 seconds for in-flight requests to finish" (README): a
\* process that stops because it was asked to does not exit on one before that.
InFlightRequestsFinish ==
  main = "exited" /\ code = 0 => expired \/ \A r \in Requests : request[r] # "active"

\* The process as its supervisor and its clients see it.
Phase ==
  IF ~Alive THEN "over" ELSE IF ShuttingDown THEN "stopping"
  ELSE IF main = "serving" THEN "serving" ELSE "starting"
Verdict ==
  IF Alive THEN "none" ELSE CASE code = 0 -> "stopped" [] code = 1 -> "failed" [] OTHER -> "panicked"
Fit ==
  /\ warm = {"endpoint", "token"}
  /\ \/ SoundParams(params, TokenOf[params.clientID])
     \/ SoundButForKey(params, TokenOf[params.clientID])

Contract == INSTANCE Service WITH phase <- Phase, verdict <- Verdict, fit <- Fit

\* The process keeps the contract of Service: it serves only after all its
\* checks, stops only when asked, goes from service straight to its end only
\* with the exit code of a failure, closes the store behind its requests or
\* the grace period, and its exit code tells a requested stop from a failure
\* and a panic.
ImplementsService == Contract!Spec

\* A signal ends the process, at whatever point of startup or service it comes.
SignalEndsProcess == signalled ~> main = "exited"

\* An expired row is purged in the end, however often attempts have failed:
\* a failure never stops the worker, and only the end of the process does.
ExpiredRowsPurged == garbage /\ purger # "none" ~> ~garbage \/ signalled \/ ~Alive
==============================================================================
