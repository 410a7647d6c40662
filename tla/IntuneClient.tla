------------------------------ MODULE IntuneClient ------------------------------
(***************************************************************************)
(* MSClient of internal/ms: VerifyCSR, NotifySuccess and NotifyFailure as  *)
(* called by concurrent handlers.  A call takes the access token and then  *)
(* the SCEP endpoint from two caches, each in two critical sections of the *)
(* cache's mutex (populate, then read), and posts the request with up to   *)
(* MaxRetries retries.                                                     *)
(*                                                                         *)
(* A populate that has to fetch keeps the mutex during the fetch; every    *)
(* other critical section is one action.                                   *)
(***************************************************************************)
EXTENDS Naturals, FiniteSets

CONSTANTS
  Callers,      \* handlers
  TokenLife,    \* validity of a fetched token, in ticks
  Slack,        \* a token this close to its expiry is not used (5 minutes)
  EndpointLife, \* expirationInterval (30 minutes)
  CallTime,     \* bound on the time from the token check to the last attempt
  MaxRetries,   \* maxRetries
  NoToken,      \* the nil *azcore.AccessToken
  NoEndpoint,   \* the empty endpoint URI
  MaxTime,      \* bound on the clock
  MaxCalls      \* bound on the number of calls

Token == [n : Nat, expiresOn : Nat]
Endpoint == [n : Nat, lastFetch : Nat]

ASSUME IntuneClientAssumption ==
  /\ {TokenLife, Slack, EndpointLife, CallTime, MaxRetries, MaxTime, MaxCalls} \subseteq Nat
  /\ CallTime <= Slack /\ Slack <= TokenLife
  /\ NoToken \notin Token
  /\ NoEndpoint \notin Endpoint

VARIABLES
  pc,          \* per caller, where it is
  op,          \* per caller, which of the three operations it runs
  attempt,     \* per caller, the attempt it is at
  bearer,      \* per caller, the token it presents
  url,         \* per caller, the endpoint it posts to
  since,       \* per caller, when it last found or fetched a usable token
  cancelled,   \* callers whose context is cancelled
  intuneToken, \* the cached token
  endpoint,    \* the cached endpoint
  now,         \* the clock
  tokens,      \* every token fetched so far
  endpoints,   \* every endpoint fetched so far
  accepted,    \* callers whose request Intune has accepted
  calls        \* how many calls were made

localVars == <<op, attempt, bearer, url, since>>
cacheVars == <<intuneToken, endpoint, tokens, endpoints>>
vars == <<pc, op, attempt, bearer, url, since, cancelled, intuneToken, endpoint,
          now, tokens, endpoints, accepted, calls>>

Ops == {"verify", "notify"}  \* the two notifications treat answers alike
Ended == {"none", "ok", "error", "panic"}
Busy == {"token", "fetchToken", "readToken", "endpoint", "fetchEndpoint",
         "readEndpoint", "post", "backoff"}

\* Mutants of MuToken: no mutex; one that the error path does not unlock.
NoMutex == {}
MuTokenLeaked == {p \in Callers : pc[p] \in {"fetchToken", "error"}}

\* The mutexes: a caller that is fetching holds the one of its cache.
MuToken == {p \in Callers : pc[p] = "fetchToken"}
MuEndpointScep == {p \in Callers : pc[p] = "fetchEndpoint"}

(* initialize() fills both caches before the server starts. *)
Init ==
  /\ pc = [p \in Callers |-> "none"]
  /\ op = [p \in Callers |-> "verify"]
  /\ attempt = [p \in Callers |-> 0]
  /\ bearer = [p \in Callers |-> NoToken]
  /\ url = [p \in Callers |-> NoEndpoint]
  /\ since = [p \in Callers |-> 0]
  /\ cancelled = {}
  /\ intuneToken = [n |-> 0, expiresOn |-> TokenLife]
  /\ endpoint = [n |-> 0, lastFetch |-> 0]
  /\ now = 0
  /\ tokens = {[n |-> 0, expiresOn |-> TokenLife]}
  /\ endpoints = {[n |-> 0, lastFetch |-> 0]}
  /\ accepted = {}
  /\ calls = 0

Goto(p, l) == pc' = [pc EXCEPT ![p] = l]

Call(p) ==
  /\ pc[p] \in Ended
  /\ calls < MaxCalls
  /\ calls' = calls + 1
  /\ Goto(p, "token")
  /\ \E o \in Ops : op' = [op EXCEPT ![p] = o]
  /\ attempt' = [attempt EXCEPT ![p] = 0]
  /\ bearer' = [bearer EXCEPT ![p] = NoToken]
  /\ url' = [url EXCEPT ![p] = NoEndpoint]
  /\ since' = [since EXCEPT ![p] = now]
  /\ cancelled' = cancelled \ {p}
  /\ accepted' = accepted \ {p}
  /\ UNCHANGED <<cacheVars, now>>

(* The context of the request is cancelled. *)
Cancel(p) ==
  /\ pc[p] \in Busy
  /\ cancelled' = cancelled \cup {p}
  /\ UNCHANGED <<pc, localVars, cacheVars, now, accepted, calls>>

-----------------------------------------------------------------------------
(* GetIntuneToken: populateIntuneToken, and the read that follows it. *)

\* Mutant of IsIntuneTokenValid: no slack before the expiry.
ValidWithoutSlack(tok) == tok # NoToken /\ tok.expiresOn >= now

\* isIntuneTokenValid
IsIntuneTokenValid(tok) == tok # NoToken /\ tok.expiresOn >= now + Slack

CheckToken(p) ==
  /\ pc[p] = "token"
  /\ MuToken = {}
  /\ IF IsIntuneTokenValid(intuneToken)
       THEN /\ Goto(p, "readToken")
            /\ since' = [since EXCEPT ![p] = now]
            /\ UNCHANGED intuneToken
       ELSE Goto(p, "fetchToken") /\ intuneToken' = NoToken /\ UNCHANGED since
  /\ UNCHANGED <<op, attempt, bearer, url, cancelled, endpoint, now, tokens,
                 endpoints, accepted, calls>>

\* The fetch fails, or brings a token without the role, or a usable one.
FetchToken(p) ==
  /\ pc[p] = "fetchToken"
  /\ \/ Goto(p, "error") /\ UNCHANGED <<intuneToken, tokens, since>>
     \/ /\ p \notin cancelled
        /\ LET tok == [n |-> Cardinality(tokens), expiresOn |-> now + TokenLife]
           IN  intuneToken' = tok /\ tokens' = tokens \cup {tok}
        /\ Goto(p, "readToken")
        /\ since' = [since EXCEPT ![p] = now]
  /\ UNCHANGED <<op, attempt, bearer, url, cancelled, endpoint, now,
                 endpoints, accepted, calls>>

\* c.intuneToken.Token: panics if another caller has reset the cache.
ReadToken(p) ==
  /\ pc[p] = "readToken"
  /\ MuToken = {}
  /\ bearer' = [bearer EXCEPT ![p] = intuneToken]
  /\ Goto(p, IF intuneToken = NoToken THEN "panic" ELSE "endpoint")
  /\ UNCHANGED <<op, attempt, url, since, cancelled, cacheVars, now, accepted, calls>>

-----------------------------------------------------------------------------
(* GetScepEndpoint: PopulateScepEndpoint, and the read that follows it. *)

EndpointFresh(e) == e # NoEndpoint /\ now < e.lastFetch + EndpointLife

CheckEndpoint(p) ==
  /\ pc[p] = "endpoint"
  /\ MuEndpointScep = {}
  /\ Goto(p, IF EndpointFresh(endpoint) THEN "readEndpoint" ELSE "fetchEndpoint")
  /\ UNCHANGED <<localVars, cancelled, cacheVars, now, accepted, calls>>

\* A fetch that fails empties the cache.
FetchEndpoint(p) ==
  /\ pc[p] = "fetchEndpoint"
  /\ \/ Goto(p, "error") /\ endpoint' = NoEndpoint /\ UNCHANGED endpoints
     \/ /\ p \notin cancelled
        /\ LET e == [n |-> Cardinality(endpoints), lastFetch |-> now]
           IN  endpoint' = e /\ endpoints' = endpoints \cup {e}
        /\ Goto(p, "readEndpoint")
  /\ UNCHANGED <<localVars, cancelled, intuneToken, tokens, now, accepted, calls>>

ReadEndpoint(p) ==
  /\ pc[p] = "readEndpoint"
  /\ MuEndpointScep = {}
  /\ url' = [url EXCEPT ![p] = endpoint]
  /\ Goto(p, "post")
  /\ UNCHANGED <<op, attempt, bearer, since, cancelled, cacheVars, now, accepted, calls>>

-----------------------------------------------------------------------------
(* postJsonWithRetry: one PostJson per attempt. *)

\* The answers PostJson can bring back: 2xx with a body it can decode, 2xx
\* with one it cannot, a status worth a retry or no answer at all, and an
\* authoritative refusal.
Answers == {"ok", "garbled", "transient", "refused"}

\* Intune accepts the request when it answers 2xx, and may have accepted it
\* when its answer is lost.  An empty URL or a cancelled context reaches nobody.
Exchange(p, answer, took) ==
  IF url[p] = NoEndpoint \/ p \in cancelled
    THEN answer = "transient" /\ ~took
    ELSE /\ answer \in {"ok", "garbled"} => took
         /\ answer = "refused" => ~took

\* Mutant of Result: the error of a notification is only logged.
ResultLogged(o, answer) == IF answer = "ok" \/ o = "notify" THEN "ok" ELSE "error"

\* NotifySuccess and NotifyFailure look at the status only, VerifyCSR at the
\* error too.
Result(o, answer) ==
  IF answer = "ok" \/ (answer = "garbled" /\ o = "notify") THEN "ok" ELSE "error"

\* Mutant of Post: the bound on the attempts is off by one.
PostOnceMore(p) ==
  /\ pc[p] = "post"
  /\ \E answer \in Answers, took \in BOOLEAN :
       /\ Exchange(p, answer, took)
       /\ accepted' = IF took THEN accepted \cup {p} ELSE accepted
       /\ Goto(p, IF answer = "transient" /\ attempt[p] <= MaxRetries
                    THEN "backoff" ELSE Result(op[p], answer))
  /\ UNCHANGED <<localVars, cancelled, cacheVars, now, calls>>

Post(p) ==
  /\ pc[p] = "post"
  /\ \E answer \in Answers, took \in BOOLEAN :
       /\ Exchange(p, answer, took)
       /\ accepted' = IF took THEN accepted \cup {p} ELSE accepted
       /\ Goto(p, IF answer = "transient" /\ attempt[p] < MaxRetries
                    THEN "backoff" ELSE Result(op[p], answer))
  /\ UNCHANGED <<localVars, cancelled, cacheVars, now, calls>>

\* Mutant of Backoff: a retry starts over with the token.
BackoffStartsOver(p) ==
  /\ pc[p] = "backoff"
  /\ IF p \in cancelled
       THEN Goto(p, "error") /\ UNCHANGED attempt
       ELSE Goto(p, "token") /\ attempt' = [attempt EXCEPT ![p] = @ + 1]
  /\ UNCHANGED <<op, bearer, url, since, cancelled, cacheVars, now, accepted, calls>>

\* The wait before the next attempt, cut short by a cancellation.
Backoff(p) ==
  /\ pc[p] = "backoff"
  /\ IF p \in cancelled
       THEN Goto(p, "error") /\ UNCHANGED attempt
       ELSE Goto(p, "post") /\ attempt' = [attempt EXCEPT ![p] = @ + 1]
  /\ UNCHANGED <<op, bearer, url, since, cancelled, cacheVars, now, accepted, calls>>

-----------------------------------------------------------------------------
(* Time passes, but no call takes longer than CallTime. *)
Tick ==
  /\ now < MaxTime
  /\ \A p \in Callers : pc[p] \in Busy => now < since[p] + CallTime
  /\ now' = now + 1
  /\ UNCHANGED <<pc, localVars, cancelled, cacheVars, accepted, calls>>

Step(p) ==
  \/ CheckToken(p) \/ FetchToken(p) \/ ReadToken(p)
  \/ CheckEndpoint(p) \/ FetchEndpoint(p) \/ ReadEndpoint(p)
  \/ Post(p) \/ Backoff(p)

\* No call is in progress.
Quiet == (\A p \in Callers : pc[p] \in Ended) /\ UNCHANGED vars

Next == Tick \/ Quiet \/ \E p \in Callers : Call(p) \/ Cancel(p) \/ Step(p)

Spec == Init /\ [][Next]_vars

(* Fetches, posts and waits end, and a mutex goes to whoever waits for it  *)
(* (sync.Mutex does not starve a waiter).                                  *)
FairSpec == Spec /\ \A p \in Callers : SF_vars(Step(p))

-----------------------------------------------------------------------------
TypeOK ==
  /\ pc \in [Callers -> Ended \cup Busy]
  /\ op \in [Callers -> Ops]
  /\ attempt \in [Callers -> 0..MaxRetries]
  /\ bearer \in [Callers -> Token \cup {NoToken}]
  /\ url \in [Callers -> Endpoint \cup {NoEndpoint}]
  /\ since \in [Callers -> Nat]
  /\ cancelled \subseteq Callers
  /\ intuneToken \in Token \cup {NoToken}
  /\ endpoint \in Endpoint \cup {NoEndpoint}
  /\ now \in Nat
  /\ tokens \subseteq Token
  /\ endpoints \subseteq Endpoint
  /\ accepted \subseteq Callers
  /\ calls \in Nat

(***************************************************************************)
(* Properties.                                                             *)
(***************************************************************************)

\* "Both caches are protected by their own mutexes so concurrent requests
\* don't trigger redundant API calls" (README): nothing is fetched while
\* something fetched before is still good, whoever fetched it.
NoRedundantFetch ==
  /\ \A s, t \in tokens : IsIntuneTokenValid(s) /\ IsIntuneTokenValid(t) => s = t
  /\ \A s, t \in endpoints : EndpointFresh(s) /\ EndpointFresh(t) => s = t

\* The token of every attempt, the last retry included, is still valid:
\* the slack in isIntuneTokenValid covers the rest of the call, even if the
\* token read is not the one that was checked.
PresentedTokenUnexpired ==
  \A p \in Callers : pc[p] = "post" => now <= bearer[p].expiresOn

\* Each cache is read as its populate left it: no caller whose populate
\* succeeded finds the token nil or the endpoint empty.
PopulatedCacheIsRead ==
  \A p \in Callers : /\ pc[p] # "panic"
                     /\ pc[p] = "post" => url[p] # NoEndpoint

\* Every call ends: no mutex stays locked, no loop of attempts is unbounded.
CallsEnd == \A p \in Callers : pc[p] \in Busy ~> pc[p] \in Ended

\* How many steps of its own a call can still make.
Ahead ==
  [backoff |-> 0, post |-> 1, readEndpoint |-> 2, fetchEndpoint |-> 3, endpoint |-> 4,
   readToken |-> 5, fetchToken |-> 6, token |-> 7]
Remaining(l, a) == IF l \in Busy THEN 2 * (MaxRetries - a) + Ahead[l] ELSE 0
StepsLeft(p) == Remaining(pc[p], attempt[p])

\* A call gets nearer its end with every step it makes, whatever the others do
\* to the caches meanwhile and however its attempts go: no error starts it
\* over, and the attempts run out.
CallsRunDown ==
  [][\A p \in Callers : pc[p] \in Busy /\ pc'[p] # pc[p] =>
       StepsLeft(p)' \in 0..(StepsLeft(p) - 1)]_vars

(***************************************************************************)
(* The inductive invariant behind the safety properties.                   *)
(***************************************************************************)

\* What the types rest on: finitely many fetches, and a wait only before an
\* attempt that remains.
CountsInv ==
  /\ IsFiniteSet(tokens) /\ IsFiniteSet(endpoints)
  /\ \A p \in Callers : pc[p] = "backoff" => attempt[p] < MaxRetries

\* One caller at a time fetches, and while it does its cache is not usable;
\* whatever was fetched and is still good is in the cache.
CachesInv ==
  /\ \A p, q \in MuToken : p = q
  /\ \A p, q \in MuEndpointScep : p = q
  /\ MuToken # {} => intuneToken = NoToken
  /\ MuEndpointScep # {} => ~EndpointFresh(endpoint)
  /\ \A t \in tokens : IsIntuneTokenValid(t) => intuneToken = t
  /\ \A e \in endpoints : EndpointFresh(e) => endpoint = e

\* A call is never older than CallTime, counted from its check of the token,
\* and the token it reads, if any, lasts that long.
Bearing == {"endpoint", "fetchEndpoint", "readEndpoint", "post", "backoff"}
TokensLast ==
  \A p \in Callers :
    /\ since[p] <= now
    /\ pc[p] \in Busy => now <= since[p] + CallTime
    /\ pc[p] = "readToken" =>
         intuneToken = NoToken \/ since[p] + Slack <= intuneToken.expiresOn
    /\ pc[p] \in Bearing =>
         bearer[p] \in Token /\ since[p] + Slack <= bearer[p].expiresOn

SafetyInv == TypeOK /\ CountsInv /\ CachesInv /\ TokensLast

(* A call keeps the contract that module Enrollment builds on: an outcome  *)
(* Runs, Loses or Fails there is an ok with, an error with or an error     *)
(* without acceptance here.                                                *)
Remote == INSTANCE RemoteCall WITH
  result <- [p \in Callers |-> IF pc[p] \in Busy THEN "pending" ELSE pc[p]]
ImplementsRemoteCall == Remote!Init /\ [][Remote!Next]_(Remote!vars)
==============================================================================
