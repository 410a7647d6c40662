----------------------------- MODULE LifecycleProofs -----------------------------
(***************************************************************************)
(* Proofs about the life of the process: what startup has established by   *)
(* the time a request is served, what a request in flight can rely on and  *)
(* what the exit code says.                                                *)
(***************************************************************************)
EXTENDS Lifecycle, TLAPS

AfterEndpoint == {"token", "step", "store", "routes", "purging", "listen", "serving"}
AfterToken == AfterEndpoint \ {"token"}
AfterStep == AfterToken \ {"step"}
AfterStore == AfterStep \ {"store"}
AfterRoutes == AfterStore \ {"routes"}
AfterPurging == {"listen", "serving"}

\* TypeOK in three parts: where everything is, the flags, the counters.
Places ==
  /\ params \in {NoParams} \cup ValidParams
  /\ main \in Startup \cup {"serving", "exited"}
  /\ code \in {0, 1, 2}
  /\ warm \subseteq {"endpoint", "token"}
  /\ store \in {"none", "open", "closed"}
  /\ shutdown \in {"none", "waiting", "draining", "closing", "done"}
  /\ request \in [Requests -> {"none", "active", "done"}]
  /\ broken \subseteq Requests
  /\ purger \in {"none", "wait", "attempt", "sleep", "stopped"}
Flags == signalled \in BOOLEAN /\ expired \in BOOLEAN /\ garbage \in BOOLEAN

\* An attempt is only started while one is left.
Counters ==
  /\ tries \in 0..PurgeRetries
  /\ faults \in 0..MaxFaults
  /\ purger = "attempt" => tries < PurgeRetries

\* Each step of startup leaves behind what it checked or made.
ReadyInv ==
  /\ main \in Startup => \A r \in Requests : request[r] = "none"
  /\ main \in AfterEndpoint => "endpoint" \in warm
  /\ main \in AfterToken => "token" \in warm
  /\ main \in AfterStore => store # "none"
  /\ main \in AfterPurging => purger # "none"
  /\ ServesOnlyWhenReady

\* The configurations that come through each check.
Admitted == {p \in ValidParams : p.secret = "right"}
Allowed == {p \in Admitted : TokenHasRole(TokenOf[p.clientID], ScepRole)}
Reaching == {p \in Allowed : UrlValid(p.stepApiUrl)}
Routed ==
  {p \in Reaching : ~\E i, j \in DOMAIN p.paths : i < j /\ Collide(p.paths[i], p.paths[j])}

\* The configuration has come through the checks main has come by.
ConfigInv ==
  /\ main \notin {"params", "exited"} => params \in ValidParams
  /\ main \in AfterEndpoint => params \in Admitted
  /\ main \in AfterToken => params \in Allowed
  /\ main \in AfterStep => params \in Reaching
  /\ main \in AfterRoutes => params \in Routed
  /\ \A r \in Requests : request[r] # "none" => params \in Routed

\* The store is closed after Shutdown has returned, and Shutdown returns with
\* no request in flight or out of time.
DrainInv ==
  /\ main \in {"params", "endpoint", "token", "step", "store", "routes"} => shutdown = "none"
  /\ shutdown \in {"closing", "done"} => expired \/ \A r \in Requests : request[r] # "active"
  /\ store = "closed" => shutdown = "done"
  /\ StoreOpenForRequests

\* The server is only shut down on a signal.
SignalInv ==
  /\ ShuttingDown => signalled
  /\ ZeroMeansSignalled

-----------------------------------------------------------------------------
\* Whatever a step does, it is one of these (Next).
LEMMA StepCases ==
  [Next]_vars =>
    \/ LoadParams \/ PopulateEndpoint \/ WarmToken \/ NewStepClient \/ OpenStore
    \/ Routes \/ StartPurging \/ Listen \/ ServeReturns \/ ServeFails
    \/ Goroutine
    \/ Ticker \/ PurgeAttempt \/ PurgeBackoff \/ StopPurging
    \/ Signal \/ RowExpires
    \/ \E r \in Requests : Accept(r) \/ UseStore(r) \/ Finish(r)
    \/ Exited \/ UNCHANGED vars
BY Zenon DEF Next, Main, Purger

\* Every step leaves everything in a place it can be in.
LEMMA PlacesStep == Places /\ [Next]_vars => Places'
<1> SUFFICES ASSUME Places, [Next]_vars PROVE Places'
  OBVIOUS
<1> USE DEF Places, Startup, goVars, reqVars, purgeVars, Exit, Continue, StartupFails
<1>1. CASE LoadParams \/ PopulateEndpoint
  <2>1. UNCHANGED <<store, shutdown, request, broken, purger>>
    BY <1>1 DEF LoadParams, PopulateEndpoint
  <2>2. params' \in {NoParams} \cup ValidParams /\ warm' \subseteq {"endpoint", "token"}
    BY <1>1 DEF LoadParams, PopulateEndpoint
  <2>3. main' \in Startup \cup {"serving", "exited"} /\ code' \in {0, 1, 2}
    BY <1>1 DEF LoadParams, PopulateEndpoint
  <2> QED BY <2>1, <2>2, <2>3
<1>2. CASE WarmToken \/ NewStepClient
  BY <1>2 DEF WarmToken, NewStepClient
<1>3. CASE OpenStore \/ Routes \/ StartPurging
  BY <1>3 DEF OpenStore, Routes, StartPurging
<1>4. CASE Listen \/ ServeReturns \/ ServeFails
  BY <1>4 DEF Listen, ServeReturns, ServeFails
<1>5. CASE Goroutine
  <2>1. UNCHANGED <<params, main, code, warm, request, broken, purger>>
    BY <1>5 DEF Goroutine, BeginShutdown, Drained, GraceExpires, CloseStore
  <2>2. /\ store' \in {"none", "open", "closed"}
        /\ shutdown' \in {"none", "waiting", "draining", "closing", "done"}
    BY <1>5 DEF Goroutine, BeginShutdown, Drained, GraceExpires, CloseStore
  <2> QED BY <2>1, <2>2
<1>6. CASE Ticker \/ PurgeBackoff \/ StopPurging
  <2>1. UNCHANGED <<params, main, code, warm, store, shutdown, request, broken>>
    BY <1>6 DEF Ticker, PurgeBackoff, StopPurging
  <2>2. purger' \in {"none", "wait", "attempt", "sleep", "stopped"}
    BY <1>6 DEF Ticker, PurgeBackoff, StopPurging
  <2> QED BY <2>1, <2>2
<1>7. CASE PurgeAttempt
  BY <1>7 DEF PurgeAttempt, PurgeFails, AfterAttempt
<1>8. CASE Signal \/ RowExpires
  <2>1. UNCHANGED <<params, main, code, warm, store, shutdown, request, broken, purger>>
    BY <1>8 DEF Signal, RowExpires
  <2> QED BY <2>1
<1>9. CASE \E r \in Requests : Accept(r) \/ UseStore(r) \/ Finish(r)
  <2>1. PICK r \in Requests : Accept(r) \/ UseStore(r) \/ Finish(r)
    BY <1>9
  <2>2. broken' \subseteq Requests
    BY <2>1 DEF Accept, UseStore, Finish
  <2>3. request' \in [Requests -> {"none", "active", "done"}]
    BY <2>1 DEF Accept, UseStore, Finish
  <2>4. UNCHANGED <<params, main, code, warm, store, shutdown, purger>>
    BY <2>1 DEF Accept, UseStore, Finish
  <2> QED BY <2>2, <2>3, <2>4
<1>10. CASE Exited \/ UNCHANGED vars
  <2>1. UNCHANGED <<params, main, code, warm, store, shutdown, request, broken, purger>>
    BY <1>10 DEF Exited, vars
  <2> QED BY <2>1
<1> HIDE DEF Places
<1> QED
  BY <1>1, <1>2, <1>3, <1>4, <1>5, <1>6, <1>7, <1>8, <1>9, <1>10, StepCases, Zenon

\* Every step keeps the flags.
LEMMA FlagsStep == Flags /\ [Next]_vars => Flags'
<1> SUFFICES ASSUME Flags, [Next]_vars PROVE Flags'
  OBVIOUS
<1> USE DEF Flags, goVars, reqVars, purgeVars
<1>1. CASE LoadParams \/ PopulateEndpoint
  BY <1>1 DEF LoadParams, PopulateEndpoint
<1>2. CASE WarmToken \/ NewStepClient
  BY <1>2 DEF WarmToken, NewStepClient
<1>3. CASE OpenStore \/ Routes \/ StartPurging
  BY <1>3 DEF OpenStore, Routes, StartPurging
<1>4. CASE Listen \/ ServeReturns \/ ServeFails
  BY <1>4 DEF Listen, ServeReturns, ServeFails
<1>5. CASE Goroutine
  BY <1>5 DEF Goroutine, BeginShutdown, Drained, GraceExpires, CloseStore
<1>6. CASE Ticker \/ PurgeBackoff \/ StopPurging
  BY <1>6 DEF Ticker, PurgeBackoff, StopPurging
<1>7. CASE PurgeAttempt
  BY <1>7 DEF PurgeAttempt, PurgeFails, AfterAttempt
<1>8. CASE Signal \/ RowExpires
  BY <1>8 DEF Signal, RowExpires
<1>9. CASE \E r \in Requests : Accept(r) \/ UseStore(r) \/ Finish(r)
  BY <1>9 DEF Accept, UseStore, Finish
<1>10. CASE Exited \/ UNCHANGED vars
  BY <1>10 DEF Exited, vars
<1> HIDE DEF Flags
<1> QED
  BY <1>1, <1>2, <1>3, <1>4, <1>5, <1>6, <1>7, <1>8, <1>9, <1>10, StepCases, Zenon

\* Every step keeps the counters in their bounds: PurgeAttempt goes back to
\* waiting once it has used its last attempt up (server.go, StartPurging).
LEMMA CountersStep == Counters /\ [Next]_vars => Counters'
<1> SUFFICES ASSUME Counters, [Next]_vars PROVE Counters'
  OBVIOUS
<1> USE LifecycleAssumption DEF Counters, goVars, reqVars, purgeVars
<1>1. CASE LoadParams \/ PopulateEndpoint
  BY <1>1 DEF LoadParams, PopulateEndpoint
<1>2. CASE WarmToken \/ NewStepClient
  BY <1>2 DEF WarmToken, NewStepClient
<1>3. CASE OpenStore \/ Routes \/ StartPurging
  BY <1>3 DEF OpenStore, Routes, StartPurging
<1>4. CASE Listen \/ ServeReturns \/ ServeFails
  BY <1>4 DEF Listen, ServeReturns, ServeFails
<1>5. CASE Goroutine
  BY <1>5 DEF Goroutine, BeginShutdown, Drained, GraceExpires, CloseStore
<1>6. CASE Ticker \/ PurgeBackoff \/ StopPurging
  BY <1>6 DEF Ticker, PurgeBackoff, StopPurging
<1>7. CASE PurgeAttempt
  BY <1>7 DEF PurgeAttempt, PurgeFails, AfterAttempt
<1>8. CASE Signal \/ RowExpires
  BY <1>8 DEF Signal, RowExpires
<1>9. CASE \E r \in Requests : Accept(r) \/ UseStore(r) \/ Finish(r)
  BY <1>9 DEF Accept, UseStore, Finish
<1>10. CASE Exited \/ UNCHANGED vars
  BY <1>10 DEF Exited, vars
<1> HIDE DEF Counters
<1> QED
  BY <1>1, <1>2, <1>3, <1>4, <1>5, <1>6, <1>7, <1>8, <1>9, <1>10, StepCases, Zenon

\* LoadParams yields the parameters of a valid command line, and no other
\* step touches them: types hold in every state (Lifecycle.tla, all of it).
THEOREM LifecycleTypes == Spec => []TypeOK
<1>1. Init => Places
  BY DEF Init, Places, Startup
<1>2. Init => Flags
  BY DEF Init, Flags
<1>3. Init => Counters
  BY LifecycleAssumption DEF Init, Counters
<1>4. Places /\ Flags /\ Counters => TypeOK
  <2> SUFFICES ASSUME Places, Flags, Counters PROVE TypeOK
    OBVIOUS
  <2> QED BY Zenon DEF Places, Flags, Counters, TypeOK
<1> QED
  BY <1>1, <1>2, <1>3, <1>4, PlacesStep, FlagsStep, CountersStep, PTL DEF Spec

-----------------------------------------------------------------------------
(* What startup has done by the time a request is served. *)

\* Every step of startup is made in its turn, and none is undone.
LEMMA ReadyStep == Places /\ ReadyInv /\ [Next]_vars => ReadyInv'
<1> SUFFICES ASSUME Places, ReadyInv, [Next]_vars PROVE ReadyInv'
  OBVIOUS
<1> USE DEF Places, ReadyInv, ServesOnlyWhenReady,
    Startup, AfterEndpoint, AfterToken, AfterStep, AfterStore, AfterRoutes, AfterPurging,
    goVars, reqVars, purgeVars, Exit, Continue, StartupFails
<1>1. CASE LoadParams \/ PopulateEndpoint
  BY <1>1 DEF LoadParams, PopulateEndpoint
<1>2. CASE WarmToken \/ NewStepClient
  BY <1>2 DEF WarmToken, NewStepClient
<1>3. CASE OpenStore \/ Routes \/ StartPurging
  BY <1>3 DEF OpenStore, Routes, StartPurging
<1>4. CASE Listen \/ ServeReturns \/ ServeFails
  BY <1>4 DEF Listen, ServeReturns, ServeFails
<1>5. CASE Goroutine
  BY <1>5 DEF Goroutine, BeginShutdown, Drained, GraceExpires, CloseStore
<1>6. CASE Ticker \/ PurgeBackoff \/ StopPurging
  BY <1>6 DEF Ticker, PurgeBackoff, StopPurging
<1>7. CASE PurgeAttempt
  BY <1>7 DEF PurgeAttempt, PurgeFails, AfterAttempt
<1>8. CASE Signal \/ RowExpires
  BY <1>8 DEF Signal, RowExpires
<1>9. CASE \E r \in Requests : Accept(r) \/ UseStore(r) \/ Finish(r)
  <2>1. PICK r \in Requests : Accept(r) \/ UseStore(r) \/ Finish(r)
    BY <1>9
  <2>2. UNCHANGED <<main, warm, store, purger>>
    BY <2>1 DEF Accept, UseStore, Finish
  <2>3. CASE Accept(r)
    <3>1. main = "serving"
      BY <2>3 DEF Accept
    <3>2. \A q \in Requests : warm = {"endpoint", "token"} /\ store # "none" /\ purger # "none"
      BY <3>1
    <3> QED BY <2>2, <3>1, <3>2
  <2>4. CASE UseStore(r) \/ Finish(r)
    <3>1. request[r] # "none"
      BY <2>4 DEF UseStore, Finish
    <3>2. \A q \in Requests : request'[q] # "none" => request[q] # "none"
      BY <2>4, <3>1 DEF UseStore, Finish
    <3> QED BY <2>2, <3>1, <3>2
  <2> QED BY <2>1, <2>3, <2>4
<1>10. CASE Exited \/ UNCHANGED vars
  BY <1>10 DEF Exited, vars
<1> HIDE DEF Places, ReadyInv
<1> QED
  BY <1>1, <1>2, <1>3, <1>4, <1>5, <1>6, <1>7, <1>8, <1>9, <1>10, StepCases, Zenon

\* "Before accepting any client connections" (README): in every state a
\* request has come in, both caches have been filled, the store opened and
\* the purge worker started (initialize, run).
THEOREM ServesWhenReady == Spec => []ServesOnlyWhenReady
<1>1. Init => ReadyInv
  BY DEF Init, ReadyInv, ServesOnlyWhenReady,
    Startup, AfterEndpoint, AfterToken, AfterStep, AfterStore, AfterRoutes, AfterPurging
<1>2. Init => Places
  BY DEF Init, Places, Startup
<1>3. ReadyInv => ServesOnlyWhenReady
  BY DEF ReadyInv
<1> QED
  BY <1>1, <1>2, <1>3, PlacesStep, ReadyStep, PTL DEF Spec

-----------------------------------------------------------------------------
(* The exit code. *)

\* The server is shut down and the process ends with 0 on a signal only.
LEMMA SignalStep == SignalInv /\ [Next]_vars => SignalInv'
<1> SUFFICES ASSUME SignalInv, [Next]_vars PROVE SignalInv'
  OBVIOUS
<1> USE DEF SignalInv, ShuttingDown, ZeroMeansSignalled, Alive,
  goVars, reqVars, purgeVars, Exit, Continue, StartupFails
<1>1. CASE LoadParams \/ PopulateEndpoint
  BY <1>1 DEF LoadParams, PopulateEndpoint
<1>2. CASE WarmToken \/ NewStepClient
  BY <1>2 DEF WarmToken, NewStepClient
<1>3. CASE OpenStore \/ Routes \/ StartPurging
  BY <1>3 DEF OpenStore, Routes, StartPurging
<1>4. CASE Listen \/ ServeReturns \/ ServeFails
  BY <1>4 DEF Listen, ServeReturns, ServeFails
<1>5. CASE Goroutine
  BY <1>5 DEF Goroutine, BeginShutdown, Drained, GraceExpires, CloseStore
<1>6. CASE Ticker \/ PurgeBackoff \/ StopPurging
  BY <1>6 DEF Ticker, PurgeBackoff, StopPurging
<1>7. CASE PurgeAttempt
  BY <1>7 DEF PurgeAttempt, PurgeFails, AfterAttempt
<1>8. CASE Signal \/ RowExpires
  BY <1>8 DEF Signal, RowExpires
<1>9. CASE \E r \in Requests : Accept(r) \/ UseStore(r) \/ Finish(r)
  BY <1>9 DEF Accept, UseStore, Finish
<1>10. CASE Exited \/ UNCHANGED vars
  BY <1>10 DEF Exited, vars
<1> HIDE DEF SignalInv
<1> QED
  BY <1>1, <1>2, <1>3, <1>4, <1>5, <1>6, <1>7, <1>8, <1>9, <1>10, StepCases, Zenon

\* Exit code 0 means a requested stop: a failed start, a taken port, a broken
\* listener and a panic all show in the code (main, run).
THEOREM ZeroOnlyIfSignalled == Spec => []ZeroMeansSignalled
<1>1. Init => SignalInv
  BY DEF Init, SignalInv, ShuttingDown, ZeroMeansSignalled
<1>2. SignalInv => ZeroMeansSignalled
  BY DEF SignalInv
<1> QED
  BY <1>1, <1>2, SignalStep, PTL DEF Spec

-----------------------------------------------------------------------------
(* The configuration requests are served with. *)

\* The checks of loadParams, initialize and run add up to a sound configuration
\* but for the kind of the JWK, of which they only make sure that it is private.
LEMMA ChecksAddUp ==
  ASSUME NEW p \in Routed
  PROVE  /\ p.stepJWK \in Jwks \ {"public"}
         /\ SoundParams([p EXCEPT !.stepJWK = "P-256"], TokenOf[p.clientID])
         /\ p.stepJWK = "P-256" => SoundParams(p, TokenOf[p.clientID])
<1> DEFINE token == TokenOf[p.clientID]
<1>0. /\ p \in ValidParams /\ p.secret = "right" /\ TokenHasRole(token, ScepRole)
      /\ UrlValid(p.stepApiUrl)
      /\ ~\E i, j \in DOMAIN p.paths : i < j /\ Collide(p.paths[i], p.paths[j])
  BY DEF Routed, Reaching, Allowed, Admitted
<1> HIDE DEF token
<1>1. PICK f \in Configurations : Valid(f) /\ p = Params(f)
  BY <1>0 DEF ValidParams
<1>2. p.raKey = p.raCrt /\ p.raKey \in RsaKeys
  BY <1>1 DEF Valid, RaValid, CheckCrtKeyMatch, Params
<1>3. Len(p.caChain) > 0 /\ \A i \in 1..Len(p.caChain) : p.caChain[i] \in {"issuing", "root"}
  BY <1>1 DEF Valid, ChainValid, Params
<1>4. p.stepJWK \in Jwks \ {"public"}
  BY <1>1 DEF Valid, StepValid, ParseJWK, Params
<1>5. ScepRole \in {role.folded : role \in token.roles}
  BY <1>0 DEF TokenHasRole
<1>6. \A i, j \in 1..3 : p.paths[i].name = p.paths[j].name => i = j
  <2>1. DOMAIN p.paths = 1..3
    BY <1>1 DEF Params
  <2> SUFFICES ASSUME NEW i \in 1..3, NEW j \in 1..3, p.paths[i].name = p.paths[j].name, i # j
               PROVE  FALSE
    OBVIOUS
  <2>2. i < j \/ j < i
    OBVIOUS
  <2> QED BY <1>0, <2>1, <2>2 DEF Collide
<1>7. p.stepJWK = "P-256" => SoundParams(p, token)
  BY <1>0, <1>2, <1>3, <1>5, <1>6 DEF SoundParams
<1>8. SoundParams([p EXCEPT !.stepJWK = "P-256"], token)
  <2> DEFINE q == [p EXCEPT !.stepJWK = "P-256"]
  <2>1. /\ q.stepJWK = "P-256" /\ q.raKey = p.raKey /\ q.raCrt = p.raCrt
        /\ q.caChain = p.caChain /\ q.secret = p.secret
        /\ q.stepApiUrl = p.stepApiUrl /\ q.paths = p.paths
    BY <1>1 DEF Params
  <2> HIDE DEF q
  <2>2. SoundParams(q, token)
    BY <1>0, <1>2, <1>3, <1>5, <1>6, <2>1 DEF SoundParams
  <2> QED BY <2>2 DEF q
<1> QED BY <1>4, <1>7, <1>8 DEF token

\* Who has come through all checks has a sound configuration, or one that is
\* sound but for the kind of the key.
LEMMA KeyKindEscapes ==
  ASSUME NEW p \in Routed
  PROVE  SoundParams(p, TokenOf[p.clientID]) \/ SoundButForKey(p, TokenOf[p.clientID])
<1>1. CASE p.stepJWK = "P-256"
  BY <1>1, ChecksAddUp
<1>2. CASE p.stepJWK # "P-256"
  <2>1. p.stepJWK \in {"P-384", "RSA", "secret"}
    BY <1>2, ChecksAddUp DEF Jwks
  <2> QED BY <2>1, ChecksAddUp DEF SoundButForKey
<1> QED BY <1>1, <1>2

\* Each check passed stays passed, since nothing changes params after loadParams.
LEMMA ConfigStep == Places /\ ReadyInv /\ ConfigInv /\ [Next]_vars => ConfigInv'
<1> SUFFICES ASSUME Places, ReadyInv, ConfigInv, [Next]_vars PROVE ConfigInv'
  OBVIOUS
<1> USE DEF ReadyInv, ConfigInv,
    Startup, AfterEndpoint, AfterToken, AfterStep, AfterStore, AfterRoutes, AfterPurging,
    goVars, reqVars, purgeVars, Exit, Continue, StartupFails
<1>1. CASE LoadParams \/ PopulateEndpoint
  BY <1>1 DEF LoadParams, PopulateEndpoint, Admitted
<1>2. CASE WarmToken \/ NewStepClient
  BY <1>2 DEF WarmToken, NewStepClient, Allowed, Reaching
<1>3. CASE OpenStore \/ Routes \/ StartPurging
  BY <1>3 DEF OpenStore, Routes, StartPurging, PathsCollide, Routed
<1>4. CASE Listen \/ ServeReturns \/ ServeFails
  BY <1>4 DEF Listen, ServeReturns, ServeFails
<1>5. CASE Goroutine
  BY <1>5 DEF Goroutine, BeginShutdown, Drained, GraceExpires, CloseStore
<1>6. CASE Ticker \/ PurgeBackoff \/ StopPurging
  BY <1>6 DEF Ticker, PurgeBackoff, StopPurging
<1>7. CASE PurgeAttempt
  BY <1>7 DEF PurgeAttempt, PurgeFails, AfterAttempt
<1>8. CASE Signal \/ RowExpires
  BY <1>8 DEF Signal, RowExpires
<1>9. CASE \E r \in Requests : Accept(r) \/ UseStore(r) \/ Finish(r)
  BY <1>9 DEF Accept, UseStore, Finish
<1>10. CASE Exited \/ UNCHANGED vars
  BY <1>10 DEF Exited, vars
<1> HIDE DEF ReadyInv, ConfigInv
<1> QED
  BY <1>1, <1>2, <1>3, <1>4, <1>5, <1>6, <1>7, <1>8, <1>9, <1>10, StepCases, Zenon

\* The configuration of whoever is served has come through all the checks.
LEMMA RoutedAlways ==
  Spec => []((\E r \in Requests : request[r] # "none") => params \in Routed)
<1>1. Init => ConfigInv
  BY DEF Init, ConfigInv,
    Startup, AfterEndpoint, AfterToken, AfterStep, AfterStore, AfterRoutes, AfterPurging
<1>2. Init => ReadyInv
  BY DEF Init, ReadyInv, ServesOnlyWhenReady,
    Startup, AfterEndpoint, AfterToken, AfterStep, AfterStore, AfterRoutes, AfterPurging
<1>3. Init => Places
  BY DEF Init, Places, Startup
<1>4. ConfigInv => ((\E r \in Requests : request[r] # "none") => params \in Routed)
  BY DEF ConfigInv
<1> QED
  BY <1>1, <1>2, <1>3, <1>4, PlacesStep, ReadyStep, ConfigStep, PTL DEF Spec

\* Whatever the command line and the application's token, the kind of the JWK
\* is all that can be wrong when a request is served (loadParams, initialize,
\* populateIntuneToken, run): README.md:45's "fail fast" fails in that alone.
THEOREM KeyKindAloneEscapes == Spec => []OnlyKeyKindUnchecked
<1>1. ((\E r \in Requests : request[r] # "none") => params \in Routed) => OnlyKeyKindUnchecked
  BY KeyKindEscapes DEF OnlyKeyKindUnchecked
<1> QED BY <1>1, RoutedAlways, PTL

\* What README.md:45 promises, the kind of the key included.
ServesOnlySoundConfig ==
  (\E r \in Requests : request[r] # "none") => SoundParams(params, TokenOf[params.clientID])

\* The promise holds for operators whose JWKs are all P-256 keys, the one
\* condition that start-up would have to check (NewStepClient, step.go:69).
THEOREM ServesSoundConfigIfKeysSign ==
  (\A p \in ValidParams : p.stepJWK = "P-256") /\ Spec => []ServesOnlySoundConfig
<1> SUFFICES ASSUME \A p \in ValidParams : p.stepJWK = "P-256"
             PROVE  Spec => []ServesOnlySoundConfig
  OBVIOUS
<1>1. ((\E r \in Requests : request[r] # "none") => params \in Routed) => ServesOnlySoundConfig
  <2>1. Routed \subseteq ValidParams
    BY DEF Routed, Reaching, Allowed, Admitted
  <2> QED BY <2>1, ChecksAddUp DEF ServesOnlySoundConfig
<1> QED BY <1>1, RoutedAlways, PTL

-----------------------------------------------------------------------------
(* The store under a request. *)

\* The store is closed behind the last request, or behind the 10 seconds.
LEMMA DrainStep == Places /\ ReadyInv /\ DrainInv /\ [Next]_vars => DrainInv'
<1> SUFFICES ASSUME Places, ReadyInv, DrainInv, [Next]_vars PROVE DrainInv'
  OBVIOUS
<1> USE DEF Places, ReadyInv, ServesOnlyWhenReady, DrainInv,
  StoreOpenForRequests, ShuttingDown, Startup, AfterStore,
  goVars, reqVars, purgeVars, Exit, Continue, StartupFails
<1>1. CASE LoadParams \/ PopulateEndpoint
  BY <1>1 DEF LoadParams, PopulateEndpoint
<1>2. CASE WarmToken \/ NewStepClient
  BY <1>2 DEF WarmToken, NewStepClient
<1>3. CASE OpenStore \/ Routes \/ StartPurging
  BY <1>3 DEF OpenStore, Routes, StartPurging
<1>4. CASE Listen \/ ServeReturns \/ ServeFails
  BY <1>4 DEF Listen, ServeReturns, ServeFails
<1>5. CASE Goroutine
  BY <1>5 DEF Goroutine, BeginShutdown, Drained, GraceExpires, CloseStore
<1>6. CASE Ticker \/ PurgeBackoff \/ StopPurging
  BY <1>6 DEF Ticker, PurgeBackoff, StopPurging
<1>7. CASE PurgeAttempt
  BY <1>7 DEF PurgeAttempt, PurgeFails, AfterAttempt
<1>8. CASE Signal \/ RowExpires
  BY <1>8 DEF Signal, RowExpires
<1>9. CASE \E r \in Requests : Accept(r) \/ UseStore(r) \/ Finish(r)
  <2>1. PICK r \in Requests : Accept(r) \/ UseStore(r) \/ Finish(r)
    BY <1>9
  <2>2. UNCHANGED <<main, store, shutdown, expired>>
    BY <2>1 DEF Accept, UseStore, Finish
  <2>3. CASE Accept(r)
    <3>1. shutdown \notin {"closing", "done"} /\ UNCHANGED broken
      BY <2>3 DEF Accept
    <3> QED BY <2>2, <3>1
  <2>4. CASE UseStore(r)
    <3>1. request[r] = "active" /\ UNCHANGED request
      BY <2>4 DEF UseStore
    <3>2. store # "open" => expired
      BY <3>1
    <3>3. broken' # {} => expired
      BY <2>4, <3>2 DEF UseStore
    <3> QED BY <2>2, <3>1, <3>3
  <2>5. CASE Finish(r)
    <3>1. UNCHANGED broken /\ \A q \in Requests : request'[q] = "active" => request[q] = "active"
      BY <2>5 DEF Finish
    <3> QED BY <2>2, <3>1
  <2> QED BY <2>1, <2>3, <2>4, <2>5
<1>10. CASE Exited \/ UNCHANGED vars
  BY <1>10 DEF Exited, vars
<1> HIDE DEF Places, ReadyInv, DrainInv
<1> QED
  BY <1>1, <1>2, <1>3, <1>4, <1>5, <1>6, <1>7, <1>8, <1>9, <1>10, StepCases, Zenon

\* A request finds the store open as long as Shutdown waits for it: run
\* closes it after Shutdown has returned.
THEOREM StoreOpenWhileServing == Spec => []StoreOpenForRequests
<1>1. Init => DrainInv
  BY DEF Init, DrainInv, StoreOpenForRequests
<1>2. Init => ReadyInv
  BY DEF Init, ReadyInv, ServesOnlyWhenReady,
    Startup, AfterEndpoint, AfterToken, AfterStep, AfterStore, AfterRoutes, AfterPurging
<1>3. Init => Places
  BY DEF Init, Places, Startup
<1>4. DrainInv => StoreOpenForRequests
  BY DEF DrainInv
<1> QED
  BY <1>1, <1>2, <1>3, <1>4, PlacesStep, ReadyStep, DrainStep, PTL DEF Spec
-----------------------------------------------------------------------------
(* The requests in flight when the process ends (run lifecycle_shutdown).  *)

\* main does not leave service with exit code 0 before the shutdown goroutine
\* has come back from Shutdown.  run does not see to that.
WaitsForShutdown ==
  main = "serving" /\ main' = "exited" /\ code' = 0 => shutdown \in {"closing", "done"}

\* Then the requests in flight are over, or out of time, when the process is.
LEMMA FinishStep ==
  Places /\ ReadyInv /\ DrainInv /\ InFlightRequestsFinish /\ [Next]_vars /\ [WaitsForShutdown]_vars
    => InFlightRequestsFinish'
<1> SUFFICES ASSUME Places, ReadyInv, DrainInv, InFlightRequestsFinish, [Next]_vars,
                    [WaitsForShutdown]_vars, main' = "exited", code' = 0
             PROVE  expired' \/ \A r \in Requests : request'[r] # "active"
  BY DEF InFlightRequestsFinish
<1>1. CASE ~Alive
  <2>1. UNCHANGED <<code, expired, request>>
    BY <1>1, StepCases DEF Alive, Exited, vars, LoadParams, PopulateEndpoint, WarmToken,
      NewStepClient, OpenStore, Routes, StartPurging, Listen, ServeReturns, ServeFails, Goroutine,
      BeginShutdown, Drained, GraceExpires, CloseStore, Ticker, PurgeAttempt, PurgeBackoff,
      StopPurging, Signal, RowExpires, Accept, UseStore, Finish, goVars, reqVars
  <2> QED BY <1>1, <2>1 DEF Alive, InFlightRequestsFinish
<1>2. CASE Alive
  <2>1. UNCHANGED <<expired, request>>
    BY <1>2, StepCases DEF Alive, Exited, vars, LoadParams, PopulateEndpoint, WarmToken,
      NewStepClient, OpenStore, Routes, StartPurging, Listen, ServeReturns, ServeFails, Goroutine,
      BeginShutdown, Drained, GraceExpires, CloseStore, Ticker, PurgeAttempt, PurgeBackoff,
      StopPurging, Signal, RowExpires, Accept, UseStore, Finish, goVars, reqVars
  <2>2. CASE main \in Startup
    BY <2>1, <2>2 DEF ReadyInv
  <2>3. CASE main = "serving"
    <3>1. shutdown \in {"closing", "done"}
      BY <2>3 DEF WaitsForShutdown, vars
    <3> QED BY <2>1, <3>1 DEF DrainInv
  <2> QED BY <1>2, <2>2, <2>3 DEF Places, Alive
<1> QED BY <1>1, <1>2

\* Waiting for the shutdown goroutine is all that run leaves undone: with it,
\* the README's ten seconds for requests in flight would hold, for any number
\* of them and wherever the signal comes.
THEOREM WaitingWouldFinishRequests ==
  Spec /\ [][WaitsForShutdown]_vars => []InFlightRequestsFinish
<1>1. Init => Places /\ ReadyInv /\ DrainInv /\ InFlightRequestsFinish
  BY DEF Init, Places, ReadyInv, DrainInv, StoreOpenForRequests, InFlightRequestsFinish,
    ServesOnlyWhenReady, Startup, AfterEndpoint, AfterToken, AfterStep, AfterStore,
    AfterRoutes, AfterPurging
<1> QED
  BY <1>1, PlacesStep, ReadyStep, DrainStep, FinishStep, PTL DEF Spec

-----------------------------------------------------------------------------
(* The process keeps the contract of Service. *)

\* The store is opened once.
OpenInv == main \in {"params", "endpoint", "token", "step", "store"} => store = "none"

\* Only OpenStore and CloseStore touch it.
LEMMA OpenStep == DrainInv /\ OpenInv /\ [Next]_vars => OpenInv'
<1> SUFFICES ASSUME DrainInv, OpenInv, [Next]_vars PROVE OpenInv'
  OBVIOUS
<1> USE DEF DrainInv, OpenInv, goVars, reqVars, purgeVars, Exit, Continue, StartupFails
<1>1. CASE LoadParams \/ PopulateEndpoint
  BY <1>1 DEF LoadParams, PopulateEndpoint
<1>2. CASE WarmToken \/ NewStepClient
  BY <1>2 DEF WarmToken, NewStepClient
<1>3. CASE OpenStore \/ Routes \/ StartPurging
  BY <1>3 DEF OpenStore, Routes, StartPurging
<1>4. CASE Listen \/ ServeReturns \/ ServeFails
  BY <1>4 DEF Listen, ServeReturns, ServeFails
<1>5. CASE Goroutine
  BY <1>5 DEF Goroutine, BeginShutdown, Drained, GraceExpires, CloseStore
<1>6. CASE Ticker \/ PurgeAttempt \/ PurgeBackoff \/ StopPurging
  BY <1>6 DEF Ticker, PurgeAttempt, PurgeBackoff, StopPurging
<1>7. CASE Signal \/ RowExpires
  BY <1>7 DEF Signal, RowExpires
<1>8. CASE \E r \in Requests : Accept(r) \/ UseStore(r) \/ Finish(r)
  BY <1>8 DEF Accept, UseStore, Finish
<1>9. CASE Exited \/ UNCHANGED vars
  BY <1>9 DEF Exited, vars
<1> HIDE DEF DrainInv, OpenInv
<1> QED
  BY <1>1, <1>2, <1>3, <1>4, <1>5, <1>6, <1>7, <1>8, <1>9, StepCases, Zenon

\* A step of startup that neither opens the store nor ends is preparation.
LEMMA PrepareMaps ==
  ASSUME main \in Startup, main' \in Startup, shutdown = "none",
         UNCHANGED <<signalled, store, goVars, reqVars>>
  PROVE  Contract!Prepare
<1>1. Phase = "starting" /\ Phase' = "starting" /\ Verdict = "none" /\ Verdict' = "none"
  BY DEF Phase, Verdict, Alive, ShuttingDown, Startup, goVars
<1>2. Fit' \in BOOLEAN
  BY Zenon DEF Fit
<1> QED BY <1>1, <1>2 DEF Contract!Prepare, goVars, reqVars

\* The process ends with the code that its phase calls for.
LEMMA EndMaps ==
  ASSUME Alive, main' = "exited",
         UNCHANGED <<params, warm, signalled, store, expired, reqVars>>,
         \/ Phase = "starting" /\ code' \in {1, 2}
         \/ Phase = "starting" /\ signalled /\ code' = 0
         \/ Phase = "serving" /\ code' = 1
         \/ Phase = "stopping" /\ code' = 0
  PROVE  Contract!End
<1>1. Phase' = "over" /\ Fit' = Fit
  BY DEF Phase, Alive, Fit
<1>2. \/ Phase = "starting" /\ Verdict' \in {"failed", "panicked"}
      \/ Phase = "starting" /\ signalled /\ Verdict' = "stopped"
      \/ Phase = "serving" /\ Verdict' = "failed"
      \/ Phase = "stopping" /\ Verdict' = "stopped"
  <2>1. CASE code' \in {1, 2}
    BY <2>1 DEF Verdict, Alive, Phase
  <2>2. CASE code' = 0
    BY <2>2 DEF Verdict, Alive, Phase
  <2> QED BY <2>1, <2>2
<1> QED BY <1>1, <1>2 DEF Contract!End, reqVars

\* A step that moves nothing the contract tells apart is none to it.
LEMMA StutterMaps ==
  ASSUME UNCHANGED <<params, warm, code, signalled, store, expired, reqVars>>,
         Alive' <=> Alive, ShuttingDown' <=> ShuttingDown,
         (main' = "serving") <=> (main = "serving")
  PROVE  UNCHANGED Contract!vars
BY DEF Contract!vars, Phase, Verdict, Fit, reqVars

\* The steps of startup.
LEMMA StartupMaps ==
  ASSUME Places, ReadyInv, ConfigInv, DrainInv, OpenInv,
         \/ LoadParams \/ PopulateEndpoint \/ WarmToken \/ NewStepClient \/ OpenStore
         \/ Routes \/ StartPurging \/ Listen
  PROVE  [Contract!Next]_(Contract!vars)
<1> USE DEF goVars, reqVars, Startup
<1>1. CASE LoadParams \/ PopulateEndpoint \/ WarmToken \/ NewStepClient
  <2>1. /\ main \in Startup /\ Alive /\ shutdown = "none" /\ Phase = "starting"
        /\ UNCHANGED <<signalled, store, goVars, reqVars>>
    BY <1>1 DEF LoadParams, PopulateEndpoint, WarmToken, NewStepClient, DrainInv,
                Phase, Alive, ShuttingDown
  <2>2. \/ main' \in Startup
        \/ /\ UNCHANGED <<params, warm>> /\ main' = "exited"
           /\ code' = 1 \/ (signalled /\ code' = 0)
    BY <1>1 DEF LoadParams, PopulateEndpoint, WarmToken, NewStepClient,
                StartupFails, Exit, Continue
  <2>3. CASE main' \in Startup
    BY <2>1, <2>3, PrepareMaps DEF Contract!Next
  <2>4. CASE main' = "exited" /\ UNCHANGED <<params, warm>>
             /\ (code' = 1 \/ (signalled /\ code' = 0))
    BY <2>1, <2>4, EndMaps DEF Contract!Next
  <2> QED BY <2>2, <2>3, <2>4
<1>2. CASE OpenStore
  <2>1. Alive /\ Phase = "starting" /\ store = "none" /\ UNCHANGED <<params, warm>>
    BY <1>2 DEF OpenStore, DrainInv, OpenInv, Phase, Alive, ShuttingDown
  <2>2. CASE main' = "routes" /\ store' = "open"
    <3>1. Phase' = "starting" /\ Verdict = "none" /\ Verdict' = "none" /\ Fit' = Fit
      BY <1>2, <2>1, <2>2 DEF OpenStore, DrainInv, Phase, Verdict, Alive, ShuttingDown, Fit
    <3> QED BY <1>2, <2>1, <2>2, <3>1 DEF OpenStore, Contract!Next, Contract!Open
  <2>3. CASE StartupFails /\ UNCHANGED store
    <3>1. main' = "exited" /\ (code' = 1 \/ (signalled /\ code' = 0))
      BY <2>3 DEF StartupFails, Exit
    <3> QED BY <1>2, <2>1, <2>3, <3>1, EndMaps DEF OpenStore, Contract!Next
  <2> QED BY <1>2, <2>2, <2>3 DEF OpenStore, Continue
<1>3. CASE Routes
  <2>1. Alive /\ Phase = "starting"
    BY <1>3 DEF Routes, DrainInv, Phase, Alive, ShuttingDown
  <2>2. CASE Exit(2)
    BY <1>3, <2>1, <2>2, EndMaps DEF Routes, Exit, Contract!Next
  <2>3. CASE Continue("purging") /\ shutdown' = "waiting"
    <3>1. ~ShuttingDown /\ ~ShuttingDown' /\ Alive' /\ main # "serving" /\ main' # "serving"
      BY <1>3, <2>3 DEF Routes, DrainInv, Alive, ShuttingDown, Continue
    <3> QED BY <1>3, <2>1, <2>3, <3>1, StutterMaps DEF Routes, Continue
  <2> QED BY <1>3, <2>2, <2>3 DEF Routes
<1>4. CASE StartPurging
  <2>1. Alive /\ Alive' /\ (ShuttingDown' <=> ShuttingDown)
        /\ main # "serving" /\ main' # "serving"
    BY <1>4 DEF StartPurging, Continue, Alive, ShuttingDown
  <2> QED BY <1>4, <2>1, StutterMaps DEF StartPurging, Continue
<1>5. CASE Listen
  <2>1. Alive /\ UNCHANGED <<params, warm, signalled, store, expired, reqVars, shutdown>>
    BY <1>5 DEF Listen, Alive
  <2>2. CASE ShuttingDown
    <3>1. Phase = "stopping" /\ Exit(0)
      BY <1>5, <2>1, <2>2 DEF Listen, Phase
    <3> QED BY <2>1, <3>1, EndMaps DEF Exit, Contract!Next
  <2>3. CASE ~ShuttingDown /\ Exit(1)
    <3>1. Phase = "starting"
      BY <1>5, <2>1, <2>3 DEF Listen, Phase
    <3> QED BY <2>1, <2>3, <3>1, EndMaps DEF Exit, Contract!Next
  <2>4. CASE ~ShuttingDown /\ Continue("serving")
    <3>1. Phase = "starting" /\ Phase' = "serving" /\ Verdict = "none" /\ Verdict' = "none"
      BY <1>5, <2>1, <2>4 DEF Listen, Continue, Phase, Verdict, Alive, ShuttingDown
    <3>2. store = "open"
      BY <1>5, <2>4 DEF Listen, Places, ReadyInv, AfterStore, AfterStep, AfterToken,
                        AfterEndpoint, DrainInv, ShuttingDown
    <3>3. warm = {"endpoint", "token"}
      BY <1>5 DEF Listen, Places, ReadyInv, AfterToken, AfterEndpoint
    <3>4. params \in Routed
      BY <1>5 DEF Listen, ConfigInv, AfterRoutes, AfterStore, AfterStep, AfterToken, AfterEndpoint
    <3>5. Fit /\ Fit' = Fit
      BY <2>1, <3>3, <3>4, KeyKindEscapes DEF Fit
    <3> QED BY <2>1, <3>1, <3>2, <3>5 DEF Contract!Next, Contract!Serve
  <2> QED BY <1>5, <2>2, <2>3, <2>4 DEF Listen
<1> QED BY <1>1, <1>2, <1>3, <1>4, <1>5

\* The steps of service and of shutdown.
LEMMA ServiceMaps ==
  ASSUME Places, ReadyInv, DrainInv,
         \/ ServeReturns \/ ServeFails \/ Goroutine \/ Signal
         \/ \E r \in Requests : Accept(r) \/ UseStore(r) \/ Finish(r)
  PROVE  [Contract!Next]_(Contract!vars)
<1> USE DEF goVars, reqVars
<1>1. CASE ServeReturns
  <2>1. Alive /\ Phase = "stopping" /\ Exit(0)
    BY <1>1 DEF ServeReturns, Phase, Alive
  <2> QED BY <1>1, <2>1, EndMaps DEF ServeReturns, Exit, Contract!Next
<1>2. ASSUME Goroutine
      PROVE  /\ Alive /\ Alive' /\ store = "open"
             /\ Verdict = "none" /\ Verdict' = "none" /\ Fit' = Fit
  <2>1. /\ Alive /\ shutdown \in {"waiting", "draining", "closing"}
        /\ UNCHANGED <<params, warm, main>>
    BY <1>2 DEF Goroutine, BeginShutdown, Drained, GraceExpires, CloseStore
  <2>2. main \in AfterStore
    BY <2>1 DEF Places, DrainInv, Alive, Startup, AfterStore, AfterStep, AfterToken, AfterEndpoint
  <2>3. store = "open"
    BY <2>1, <2>2 DEF Places, ReadyInv, DrainInv
  <2> QED BY <2>1, <2>3 DEF Verdict, Alive, Fit
<1>3. CASE BeginShutdown
  <2>1. Phase \in {"starting", "serving"} /\ Phase' = "stopping"
    BY <1>3 DEF BeginShutdown, Phase, Alive, ShuttingDown
  <2> QED BY <1>2, <1>3, <2>1 DEF Goroutine, BeginShutdown, Contract!Next, Contract!Stop
<1>4. ASSUME Drained \/ GraceExpires \/ CloseStore
      PROVE  Phase = "stopping" /\ Phase' = "stopping"
  BY <1>4 DEF Drained, GraceExpires, CloseStore, Phase, Alive, ShuttingDown
<1>5. CASE Drained
  BY <1>2, <1>4, <1>5 DEF Goroutine, Drained, Contract!vars
<1>6. CASE GraceExpires
  BY <1>2, <1>4, <1>6 DEF Goroutine, GraceExpires, Contract!Next, Contract!Expire
<1>7. CASE CloseStore
  <2>1. expired \/ \A r \in Requests : request[r] # "active"
    BY <1>7 DEF CloseStore, DrainInv
  <2> QED BY <1>2, <1>4, <1>7, <2>1 DEF Goroutine, CloseStore, Contract!Next, Contract!Close
<1>8. ASSUME UNCHANGED <<params, warm, main, code, shutdown>>
      PROVE  Phase' = Phase /\ Verdict' = Verdict /\ Fit' = Fit
  BY <1>8 DEF Phase, Verdict, Fit, Alive, ShuttingDown
<1>9. CASE Signal
  <2>1. Phase # "over"
    BY <1>9 DEF Signal, Phase
  <2> QED BY <1>8, <1>9, <2>1 DEF Signal, Contract!Next, Contract!Ask
<1>10. ASSUME NEW r \in Requests, Accept(r) PROVE [Contract!Next]_(Contract!vars)
  <2>1. Phase = "serving"
    BY <1>10 DEF Accept, Phase, Alive
  <2>2. Contract!Accept(r)
    BY <1>8, <1>10, <2>1 DEF Accept, Contract!Accept
  <2> QED BY <2>2 DEF Contract!Next
<1>11. ASSUME NEW r \in Requests, UseStore(r) PROVE [Contract!Next]_(Contract!vars)
  <2>1. CASE store = "open"
    BY <1>8, <1>11, <2>1 DEF UseStore, Contract!vars
  <2>2. CASE store # "open"
    <3>1. store = "closed" /\ Phase = "stopping"
      BY <1>11, <2>2 DEF UseStore, Places, ReadyInv, ServesOnlyWhenReady, DrainInv,
                         Phase, ShuttingDown
    <3>2. Contract!Break(r)
      BY <1>8, <1>11, <2>2, <3>1 DEF UseStore, Contract!Break
    <3> QED BY <3>2 DEF Contract!Next
  <2> QED BY <2>1, <2>2
<1>12. ASSUME NEW r \in Requests, Finish(r) PROVE [Contract!Next]_(Contract!vars)
  <2>1. Phase # "over"
    BY <1>12 DEF Finish, Phase
  <2>2. Contract!Finish(r)
    BY <1>8, <1>12, <2>1 DEF Finish, Contract!Finish
  <2> QED BY <2>2 DEF Contract!Next
<1>13. CASE ServeFails
  <2>1. Alive /\ Phase = "serving" /\ Exit(1)
    BY <1>13 DEF ServeFails, Phase, Alive
  <2> QED BY <1>13, <2>1, EndMaps DEF ServeFails, Exit, Contract!Next
<1> QED
  BY <1>1, <1>3, <1>5, <1>6, <1>7, <1>9, <1>10, <1>11, <1>12, <1>13 DEF Goroutine

\* Every step of the process is one of the contract, or none to it.
LEMMA ContractStep ==
  Places /\ ReadyInv /\ ConfigInv /\ DrainInv /\ OpenInv /\ [Next]_vars
    => [Contract!Next]_(Contract!vars)
<1> SUFFICES ASSUME Places, ReadyInv, ConfigInv, DrainInv, OpenInv, [Next]_vars
             PROVE  [Contract!Next]_(Contract!vars)
  OBVIOUS
<1>1. CASE \/ LoadParams \/ PopulateEndpoint \/ WarmToken \/ NewStepClient \/ OpenStore
           \/ Routes \/ StartPurging \/ Listen
  BY <1>1, StartupMaps
<1>2. CASE \/ ServeReturns \/ ServeFails \/ Goroutine \/ Signal
           \/ \E r \in Requests : Accept(r) \/ UseStore(r) \/ Finish(r)
  BY <1>2, ServiceMaps
<1>3. CASE Ticker \/ PurgeAttempt \/ PurgeBackoff \/ StopPurging \/ RowExpires
             \/ Exited \/ UNCHANGED vars
  <2>1. UNCHANGED <<params, warm, main, code, signalled, store, shutdown, expired, reqVars>>
    BY <1>3 DEF Ticker, PurgeAttempt, PurgeBackoff, StopPurging, RowExpires, Exited, vars,
                goVars, reqVars
  <2>2. (Alive' <=> Alive) /\ (ShuttingDown' <=> ShuttingDown)
    BY <2>1 DEF Alive, ShuttingDown
  <2> QED BY <2>1, <2>2, StutterMaps
<1> QED BY <1>1, <1>2, <1>3, StepCases, Zenon

\* The process keeps the contract of Service, for any command lines, tokens
\* and number of requests: it goes through its phases in order, serves only
\* with a configuration that was tried, leaves service without stopping only
\* when its listener breaks, and its exit code says how it ended.
THEOREM LifecycleImplementsService == Spec => ImplementsService
<1>1. Init => Places /\ ReadyInv /\ ConfigInv /\ DrainInv /\ OpenInv
  BY DEF Init, Places, ReadyInv, ConfigInv, DrainInv, OpenInv, StoreOpenForRequests,
    ServesOnlyWhenReady, Startup, AfterEndpoint, AfterToken, AfterStep, AfterStore,
    AfterRoutes, AfterPurging
<1>2. Init => Contract!Init
  BY DEF Init, Contract!Init, Phase, Verdict, Fit, Alive, ShuttingDown
<1> QED
  BY <1>1, <1>2, PlacesStep, ReadyStep, ConfigStep, DrainStep, OpenStep, ContractStep,
     PTL DEF Spec, ImplementsService, Contract!Spec
==============================================================================
