--------------------------- MODULE IntuneClientProofs ---------------------------
(***************************************************************************)
(* Theorems about IntuneClient, for any set of callers, any lifetimes and  *)
(* any number of calls and retries.                                        *)
(***************************************************************************)
EXTENDS IntuneClient, FiniteSetTheorems, TLAPS

\* initialize() leaves both caches filled with what was fetched last.
LEMMA SafetyInit == Init => SafetyInv
<1> SUFFICES ASSUME Init PROVE SafetyInv
  OBVIOUS
<1>1. TypeOK
  BY IntuneClientAssumption DEF Init, TypeOK, Ops, Ended, Token, Endpoint
<1>2. CountsInv
  BY FS_Singleton DEF Init, CountsInv
<1>3. CachesInv
  BY DEF Init, CachesInv, MuToken, MuEndpointScep
<1>4. TokensLast
  BY IntuneClientAssumption DEF Init, TokensLast, Busy, Bearing
<1> QED BY <1>1, <1>2, <1>3, <1>4 DEF SafetyInv

\* What a fetch brings is typed and makes the set of fetched things finite still.
LEMMA TypeStep == TypeOK /\ CountsInv /\ [Next]_vars => TypeOK' /\ CountsInv'
<1> SUFFICES ASSUME TypeOK, CountsInv, [Next]_vars PROVE TypeOK' /\ CountsInv'
  OBVIOUS
<1> USE IntuneClientAssumption DEF TypeOK, CountsInv, localVars, cacheVars, Ended, Busy, Goto
<1>1. CASE Tick
  BY <1>1 DEF Tick
<1>2. CASE Quiet \/ UNCHANGED vars
  BY <1>2 DEF Quiet, vars
<1>3. ASSUME NEW p \in Callers, Call(p) PROVE TypeOK' /\ CountsInv'
  BY <1>3 DEF Call
<1>4. ASSUME NEW p \in Callers, Cancel(p) PROVE TypeOK' /\ CountsInv'
  BY <1>4 DEF Cancel
<1>5. ASSUME NEW p \in Callers, CheckToken(p) PROVE TypeOK' /\ CountsInv'
  BY <1>5 DEF CheckToken
<1>6. ASSUME NEW p \in Callers, FetchToken(p) PROVE TypeOK' /\ CountsInv'
  <2> DEFINE tok == [n |-> Cardinality(tokens), expiresOn |-> now + TokenLife]
  <2>1. tok \in Token
    BY FS_CardinalityType DEF Token
  <2> HIDE DEF tok
  <2>2. \/ intuneToken' = intuneToken /\ tokens' = tokens
        \/ intuneToken' = tok /\ tokens' = tokens \cup {tok}
    BY <1>6 DEF FetchToken, tok
  <2>3. /\ intuneToken' \in Token \cup {NoToken}
        /\ tokens' \subseteq Token
        /\ IsFiniteSet(tokens')
    BY <2>1, <2>2, FS_AddElement
  <2> QED BY <1>6, <2>3 DEF FetchToken
<1>7. ASSUME NEW p \in Callers, ReadToken(p) PROVE TypeOK' /\ CountsInv'
  BY <1>7 DEF ReadToken
<1>8. ASSUME NEW p \in Callers, CheckEndpoint(p) PROVE TypeOK' /\ CountsInv'
  BY <1>8 DEF CheckEndpoint
<1>9. ASSUME NEW p \in Callers, FetchEndpoint(p) PROVE TypeOK' /\ CountsInv'
  <2> DEFINE e == [n |-> Cardinality(endpoints), lastFetch |-> now]
  <2>1. e \in Endpoint
    BY FS_CardinalityType DEF Endpoint
  <2> HIDE DEF e
  <2>2. \/ endpoint' = NoEndpoint /\ endpoints' = endpoints
        \/ endpoint' = e /\ endpoints' = endpoints \cup {e}
    BY <1>9 DEF FetchEndpoint, e
  <2>3. /\ endpoint' \in Endpoint \cup {NoEndpoint}
        /\ endpoints' \subseteq Endpoint
        /\ IsFiniteSet(endpoints')
    BY <2>1, <2>2, FS_AddElement
  <2> QED BY <1>9, <2>3 DEF FetchEndpoint
<1>10. ASSUME NEW p \in Callers, ReadEndpoint(p) PROVE TypeOK' /\ CountsInv'
  BY <1>10 DEF ReadEndpoint
<1>11. ASSUME NEW p \in Callers, Post(p) PROVE TypeOK' /\ CountsInv'
  BY <1>11 DEF Post, Result
<1>12. ASSUME NEW p \in Callers, Backoff(p) PROVE TypeOK' /\ CountsInv'
  BY <1>12 DEF Backoff
<1> QED
  BY <1>1, <1>2, <1>3, <1>4, <1>5, <1>6, <1>7, <1>8, <1>9, <1>10, <1>11, <1>12
  DEF Next, Step

\* The mutexes and the clock keep the caches right: a fetch starts only when
\* what is cached has run out, and nobody else starts one meanwhile.
LEMMA CachesStep == SafetyInv /\ [Next]_vars => CachesInv'
<1> SUFFICES ASSUME TypeOK, CachesInv, [Next]_vars PROVE CachesInv'
  BY DEF SafetyInv
<1> USE IntuneClientAssumption DEF TypeOK, CachesInv, localVars, cacheVars, MuToken,
        MuEndpointScep, IsIntuneTokenValid, EndpointFresh, Ended, Goto
<1>1. CASE Tick
  BY <1>1 DEF Tick, Token, Endpoint
<1>2. CASE Quiet \/ UNCHANGED vars
  BY <1>2 DEF Quiet, vars
<1>3. ASSUME NEW p \in Callers, Call(p) PROVE CachesInv'
  BY <1>3 DEF Call
<1>4. ASSUME NEW p \in Callers, Cancel(p) PROVE CachesInv'
  BY <1>4 DEF Cancel
<1>5. ASSUME NEW p \in Callers, CheckToken(p) PROVE CachesInv'
  BY <1>5 DEF CheckToken
<1>6. ASSUME NEW p \in Callers, FetchToken(p) PROVE CachesInv'
  <2>1. intuneToken = NoToken /\ \A q \in Callers : pc[q] = "fetchToken" => q = p
    BY <1>6 DEF FetchToken
  <2>2. \A t \in tokens : ~IsIntuneTokenValid(t)
    BY <2>1
  <2>3. \A q \in Callers : pc'[q] # "fetchToken"
    BY <1>6, <2>1 DEF FetchToken
  <2>4. \A t \in tokens' : IsIntuneTokenValid(t)' => intuneToken' = t
    BY <1>6, <2>2 DEF FetchToken
  <2> QED BY <1>6, <2>3, <2>4 DEF FetchToken
<1>7. ASSUME NEW p \in Callers, ReadToken(p) PROVE CachesInv'
  BY <1>7 DEF ReadToken
<1>8. ASSUME NEW p \in Callers, CheckEndpoint(p) PROVE CachesInv'
  BY <1>8 DEF CheckEndpoint
<1>9. ASSUME NEW p \in Callers, FetchEndpoint(p) PROVE CachesInv'
  <2>1. ~EndpointFresh(endpoint) /\ \A q \in Callers : pc[q] = "fetchEndpoint" => q = p
    BY <1>9 DEF FetchEndpoint
  <2>2. \A e \in endpoints : ~EndpointFresh(e)
    BY <2>1
  <2>3. \A q \in Callers : pc'[q] # "fetchEndpoint"
    BY <1>9, <2>1 DEF FetchEndpoint
  <2>4. \A e \in endpoints' : EndpointFresh(e)' => endpoint' = e
    BY <1>9, <2>2 DEF FetchEndpoint
  <2> QED BY <1>9, <2>3, <2>4 DEF FetchEndpoint
<1>10. ASSUME NEW p \in Callers, ReadEndpoint(p) PROVE CachesInv'
  BY <1>10 DEF ReadEndpoint
<1>11. ASSUME NEW p \in Callers, Post(p) PROVE CachesInv'
  BY <1>11 DEF Post, Result
<1>12. ASSUME NEW p \in Callers, Backoff(p) PROVE CachesInv'
  BY <1>12 DEF Backoff
<1> QED
  BY <1>1, <1>2, <1>3, <1>4, <1>5, <1>6, <1>7, <1>8, <1>9, <1>10, <1>11, <1>12
  DEF Next, Step

\* A token that is read after a check lasts as long as the one checked: the
\* caches only ever get later ones, or none.
LEMMA TokensStep == SafetyInv /\ [Next]_vars => TokensLast'
<1> SUFFICES ASSUME TypeOK, TokensLast, [Next]_vars PROVE TokensLast'
  BY DEF SafetyInv
<1> USE IntuneClientAssumption DEF TypeOK, TokensLast, localVars, cacheVars, Ended, Busy,
        Bearing, Token, Goto
<1>1. CASE Tick
  BY <1>1 DEF Tick
<1>2. CASE Quiet \/ UNCHANGED vars
  BY <1>2 DEF Quiet, vars
<1>3. ASSUME NEW p \in Callers, Call(p) PROVE TokensLast'
  BY <1>3 DEF Call
<1>4. ASSUME NEW p \in Callers, Cancel(p) PROVE TokensLast'
  BY <1>4 DEF Cancel
<1>5. ASSUME NEW p \in Callers, CheckToken(p) PROVE TokensLast'
  BY <1>5 DEF CheckToken, IsIntuneTokenValid
<1>6. ASSUME NEW p \in Callers, FetchToken(p) PROVE TokensLast'
  BY <1>6 DEF FetchToken
<1>7. ASSUME NEW p \in Callers, ReadToken(p) PROVE TokensLast'
  BY <1>7 DEF ReadToken
<1>8. ASSUME NEW p \in Callers, CheckEndpoint(p) PROVE TokensLast'
  BY <1>8 DEF CheckEndpoint
<1>9. ASSUME NEW p \in Callers, FetchEndpoint(p) PROVE TokensLast'
  BY <1>9 DEF FetchEndpoint
<1>10. ASSUME NEW p \in Callers, ReadEndpoint(p) PROVE TokensLast'
  BY <1>10 DEF ReadEndpoint
<1>11. ASSUME NEW p \in Callers, Post(p) PROVE TokensLast'
  BY <1>11 DEF Post, Result
<1>12. ASSUME NEW p \in Callers, Backoff(p) PROVE TokensLast'
  BY <1>12 DEF Backoff
<1> QED
  BY <1>1, <1>2, <1>3, <1>4, <1>5, <1>6, <1>7, <1>8, <1>9, <1>10, <1>11, <1>12
  DEF Next, Step

(***************************************************************************)
(* The inductive invariant holds in every reachable state.                 *)
(***************************************************************************)
THEOREM ClientSafety == Spec => []SafetyInv
<1>1. SafetyInv /\ [Next]_vars => SafetyInv'
  BY TypeStep, CachesStep, TokensStep DEF SafetyInv
<1> QED BY <1>1, SafetyInit, PTL DEF Spec

\* Type correctness; with it the bound on the attempts of postJsonWithRetry.
THEOREM ClientTypes == Spec => []TypeOK
<1>1. SafetyInv => TypeOK
  BY DEF SafetyInv
<1> QED BY <1>1, ClientSafety, PTL

\* However many callers find a cache run out at once, one of them refills it
\* (PopulateScepEndpoint, populateIntuneToken).
THEOREM OneFetchPerPeriod == Spec => []NoRedundantFetch
<1>1. SafetyInv => NoRedundantFetch
  BY DEF SafetyInv, CachesInv, NoRedundantFetch
<1> QED BY <1>1, ClientSafety, PTL

\* The slack of isIntuneTokenValid covers every attempt of the call.
THEOREM TokenOutlastsCall == Spec => []PresentedTokenUnexpired
<1>1. SafetyInv => PresentedTokenUnexpired
  <2> SUFFICES ASSUME SafetyInv, NEW p \in Callers, pc[p] = "post"
               PROVE  now <= bearer[p].expiresOn
    BY DEF PresentedTokenUnexpired
  <2>1. now <= since[p] + CallTime /\ since[p] + Slack <= bearer[p].expiresOn
    BY DEF SafetyInv, TokensLast, Busy, Bearing
  <2>2. bearer[p].expiresOn \in Nat /\ since[p] \in Nat /\ now \in Nat
    BY DEF SafetyInv, TypeOK, TokensLast, Bearing, Token
  <2> QED BY <2>1, <2>2, IntuneClientAssumption
<1> QED BY <1>1, ClientSafety, PTL

-----------------------------------------------------------------------------
(* Calls run down. *)

\* A step of one caller is no step of another, and steps of busy callers are
\* the only ones that move a busy caller.
LEMMA BusyMoves ==
  ASSUME TypeOK, Next, NEW p \in Callers, pc[p] \in Busy, pc'[p] # pc[p]
  PROVE  Step(p)
<1> USE DEF TypeOK, Goto
<1>1. CASE Tick \/ Quiet
  BY <1>1 DEF Tick, Quiet, vars
<1>2. ASSUME NEW q \in Callers, Call(q) PROVE Step(p)
  BY <1>2 DEF Call, Ended, Busy
<1>3. ASSUME NEW q \in Callers, Cancel(q) PROVE Step(p)
  BY <1>3 DEF Cancel
<1>4. ASSUME NEW q \in Callers, Step(q) PROVE Step(p)
  <2>1. \A r \in Callers : r # q => pc'[r] = pc[r]
    BY <1>4 DEF Step, CheckToken, FetchToken, ReadToken, CheckEndpoint, FetchEndpoint,
                ReadEndpoint, Post, Backoff
  <2> QED BY <1>4, <2>1
<1> QED BY <1>1, <1>2, <1>3, <1>4 DEF Next

\* Nearer the end of an attempt, and in the next attempt, less remains.
LEMMA LessRemains ==
  ASSUME NEW l \in Busy, NEW a \in 0..MaxRetries, l = "backoff" => a < MaxRetries
  PROVE  /\ \A m \in Ended : Remaining(m, a) \in 0..(Remaining(l, a) - 1)
         /\ \A m \in Busy : Ahead[m] < Ahead[l] => Remaining(m, a) \in 0..(Remaining(l, a) - 1)
         /\ l = "backoff" => Remaining("post", a + 1) \in 0..(Remaining(l, a) - 1)
<1> DEFINE r == MaxRetries - a
<1>1. r \in Nat /\ 2 * r \in Nat /\ (a < MaxRetries => r >= 1 /\ 2 * r >= 2)
  BY IntuneClientAssumption
<1>2. \A m \in Busy : Ahead[m] \in 0..7 /\ (Ahead[m] = 0 => m = "backoff")
  BY DEF Busy, Ahead
<1>3. Remaining(l, a) = 2 * r + Ahead[l] /\ Remaining(l, a) >= 1
  BY <1>1, <1>2 DEF Remaining
<1>4. ASSUME NEW m \in Ended PROVE Remaining(m, a) \in 0..(Remaining(l, a) - 1)
  <2>1. Remaining(m, a) = 0
    BY <1>4 DEF Remaining, Ended, Busy
  <2> QED BY <1>1, <1>2, <1>3, <2>1
<1>5. ASSUME NEW m \in Busy, Ahead[m] < Ahead[l]
      PROVE  Remaining(m, a) \in 0..(Remaining(l, a) - 1)
  <2>1. Remaining(m, a) = 2 * r + Ahead[m]
    BY DEF Remaining
  <2> HIDE DEF r
  <2> QED BY <1>1, <1>2, <1>3, <1>5, <2>1
<1>6. ASSUME l = "backoff" PROVE Remaining("post", a + 1) \in 0..(Remaining(l, a) - 1)
  <2>1. Remaining("post", a + 1) = 2 * (MaxRetries - (a + 1)) + 1
    BY DEF Remaining, Busy, Ahead
  <2>2. MaxRetries - (a + 1) = r - 1
    BY IntuneClientAssumption
  <2>3. Ahead[l] = 0
    BY <1>6 DEF Ahead
  <2>4. 2 * (r - 1) + 1 = 2 * r - 1
    BY <1>1
  <2> HIDE DEF r
  <2> QED BY <1>1, <1>3, <1>6, <2>1, <2>2, <2>3, <2>4
<1> QED BY <1>4, <1>5, <1>6

\* Every step of a caller takes it nearer its end.
LEMMA StepRunsDown ==
  ASSUME TypeOK, CountsInv, NEW p \in Callers, Step(p)
  PROVE  StepsLeft(p)' \in 0..(StepsLeft(p) - 1)
<1>1. /\ pc[p] \in Busy /\ attempt[p] \in 0..MaxRetries
      /\ pc[p] = "backoff" => attempt[p] < MaxRetries
  BY DEF TypeOK, CountsInv, Busy, Step, CheckToken, FetchToken, ReadToken, CheckEndpoint,
         FetchEndpoint, ReadEndpoint, Post, Backoff
<1>2. \/ pc'[p] \in Ended /\ attempt'[p] = attempt[p]
      \/ pc'[p] \in Busy /\ Ahead[pc'[p]] < Ahead[pc[p]] /\ attempt'[p] = attempt[p]
      \/ pc[p] = "backoff" /\ pc'[p] = "post" /\ attempt'[p] = attempt[p] + 1
  <2> USE DEF TypeOK, Goto, localVars, Busy, Ended, Ahead
  <2>1. CASE CheckToken(p) \/ FetchToken(p) \/ ReadToken(p)
    BY <2>1 DEF CheckToken, FetchToken, ReadToken
  <2>2. CASE CheckEndpoint(p) \/ FetchEndpoint(p) \/ ReadEndpoint(p)
    BY <2>2 DEF CheckEndpoint, FetchEndpoint, ReadEndpoint
  <2>3. CASE Post(p)
    BY <2>3 DEF Post, Result
  <2>4. CASE Backoff(p)
    BY <2>4 DEF Backoff
  <2> QED BY <2>1, <2>2, <2>3, <2>4 DEF Step
<1>3. StepsLeft(p) = Remaining(pc[p], attempt[p]) /\ StepsLeft(p)' = Remaining(pc'[p], attempt'[p])
  BY DEF StepsLeft, Remaining
<1> QED BY <1>1, <1>2, <1>3, LessRemains

\* A call makes at most 2 * MaxRetries + 7 steps of its own, so that CallsEnd
\* asks no more than that each of them be made (postJsonWithRetry, the two
\* populates and the reads that follow them).
THEOREM CallsRunDownAlways == Spec => CallsRunDown
<1>1. SafetyInv /\ [Next]_vars =>
        [\A p \in Callers : pc[p] \in Busy /\ pc'[p] # pc[p] =>
           StepsLeft(p)' \in 0..(StepsLeft(p) - 1)]_vars
  <2> SUFFICES ASSUME TypeOK, CountsInv, Next,
                      NEW p \in Callers, pc[p] \in Busy, pc'[p] # pc[p]
               PROVE  StepsLeft(p)' \in 0..(StepsLeft(p) - 1)
    BY DEF SafetyInv
  <2> QED BY BusyMoves, StepRunsDown
<1> QED BY <1>1, ClientSafety, PTL DEF Spec, CallsRunDown

-----------------------------------------------------------------------------
(* IntuneClient implements the contract of module RemoteCall. *)

\* The caches and the retries are invisible: a step of a call is a call, an
\* acceptance or a failure of the contract, or leaves it alone.
LEMMA RemoteStep == TypeOK /\ [Next]_vars => [Remote!Next]_(Remote!vars)
<1> SUFFICES ASSUME TypeOK, [Next]_vars
             PROVE  Remote!Next \/ UNCHANGED Remote!vars
  OBVIOUS
<1>1. CASE Tick \/ Quiet \/ UNCHANGED vars
  BY <1>1 DEF Tick, Quiet, vars, Remote!vars
<1>2. ASSUME NEW p \in Callers, Call(p) PROVE Remote!Call(p)
  BY <1>2 DEF Call, Goto, TypeOK, Ended, Busy, Remote!Call, Remote!Ended
<1>3. ASSUME NEW p \in Callers, Cancel(p) PROVE UNCHANGED Remote!vars
  BY <1>3 DEF Cancel, Remote!vars
<1>4. ASSUME NEW p \in Callers, NEW l \in Busy \cup {"error", "panic"}, pc[p] \in Busy,
             Goto(p, l), UNCHANGED accepted
      PROVE  Remote!Fail(p) \/ UNCHANGED Remote!vars
  <2>1. CASE l \in Busy
    BY <1>4, <2>1 DEF Goto, TypeOK, Remote!vars
  <2>2. CASE l \in {"error", "panic"}
    BY <1>4, <2>2 DEF Goto, TypeOK, Busy, Remote!Fail
  <2> QED BY <2>1, <2>2
<1>5. ASSUME NEW p \in Callers,
             CheckToken(p) \/ FetchToken(p) \/ ReadToken(p) \/ CheckEndpoint(p)
               \/ FetchEndpoint(p) \/ ReadEndpoint(p) \/ Backoff(p)
      PROVE  Remote!Fail(p) \/ UNCHANGED Remote!vars
  <2>1. pc[p] \in Busy /\ UNCHANGED accepted
    BY <1>5 DEF CheckToken, FetchToken, ReadToken, CheckEndpoint, FetchEndpoint,
                ReadEndpoint, Backoff, Busy
  <2>2. \E l \in Busy \cup {"error", "panic"} : Goto(p, l)
    BY <1>5 DEF CheckToken, FetchToken, ReadToken, CheckEndpoint, FetchEndpoint,
                ReadEndpoint, Backoff, Busy
  <2> QED BY <1>4, <2>1, <2>2
<1>6. ASSUME NEW p \in Callers, Post(p)
      PROVE  Remote!Accept(p) \/ Remote!Fail(p) \/ UNCHANGED Remote!vars
  <2>1. pc[p] \in Busy
    BY <1>6 DEF Post, Busy
  <2>2. PICK l \in Busy \cup {"ok", "error"}, took \in BOOLEAN :
          /\ Goto(p, l)
          /\ accepted' = IF took THEN accepted \cup {p} ELSE accepted
          /\ l = "ok" => took
    BY <1>6 DEF Post, Exchange, Result, Answers, Busy
  <2>3. CASE ~took
    BY <1>4, <2>1, <2>2, <2>3
  <2>4. CASE took
    BY <2>1, <2>2, <2>4 DEF Goto, TypeOK, Busy, Remote!Accept
  <2> QED BY <2>3, <2>4
<1> QED BY <1>1, <1>2, <1>3, <1>5, <1>6 DEF Next, Step, Remote!Next

(***************************************************************************)
(* A call to Intune keeps the contract that the handlers rely on: success  *)
(* only if Intune accepted the request (postJsonWithRetry and its callers).*)
(***************************************************************************)
THEOREM ClientImplementation == Spec => ImplementsRemoteCall
<1>1. Init => Remote!Init
  BY DEF Init, Remote!Init, Busy
<1> QED BY <1>1, RemoteStep, ClientTypes, PTL DEF Spec, ImplementsRemoteCall
-----------------------------------------------------------------------------
(* What it takes for a cache to be read other than its populate left it    *)
(* (run intune_client_caches): a second caller, and a fetch that fails.    *)

\* What a call carries out of the two reads.
CarriesInv ==
  \A p \in Callers : /\ pc[p] # "panic"
                     /\ pc[p] \in {"post", "backoff"} => url[p] # NoEndpoint

\* Between populate and read nobody touches the cache.
LoneInv ==
  /\ CarriesInv
  /\ \A p \in Callers : /\ pc[p] = "readToken" => intuneToken # NoToken
                        /\ pc[p] = "readEndpoint" => endpoint # NoEndpoint

\* The caches are only empty while somebody refills them.
FilledInv ==
  /\ CarriesInv
  /\ MuToken = {} => intuneToken # NoToken
  /\ endpoint # NoEndpoint

\* No fetch from Microsoft fails (FetchToken, FetchEndpoint).
FetchesSucceed ==
  \A p \in Callers : pc[p] \in {"fetchToken", "fetchEndpoint"} => pc'[p] # "error"

\* What a fetch brings is never taken for an empty cache.
LEMMA FetchedIsSomething ==
  ASSUME SafetyInv, NEW p \in Callers
  PROVE  /\ FetchToken(p) => pc'[p] = "error" \/ intuneToken' # NoToken
         /\ FetchEndpoint(p) => pc'[p] = "error" \/ endpoint' # NoEndpoint
<1>1. Cardinality(tokens) \in Nat /\ Cardinality(endpoints) \in Nat
  BY FS_CardinalityType DEF SafetyInv, CountsInv
<1>2. now \in Nat /\ TokenLife \in Nat /\ pc \in [Callers -> Ended \cup Busy]
  BY IntuneClientAssumption DEF SafetyInv, TypeOK
<1>3. /\ [n |-> Cardinality(tokens), expiresOn |-> now + TokenLife] # NoToken
      /\ [n |-> Cardinality(endpoints), lastFetch |-> now] # NoEndpoint
  BY <1>1, <1>2, IntuneClientAssumption DEF Token, Endpoint
<1> QED BY <1>2, <1>3 DEF FetchToken, FetchEndpoint, Goto

\* A caller that is alone keeps what it populated until it has read it.
LEMMA LoneStep ==
  (\A c, d \in Callers : c = d) /\ SafetyInv /\ LoneInv /\ [Next]_vars => LoneInv'
<1> SUFFICES ASSUME \A c, d \in Callers : c = d, SafetyInv, LoneInv, [Next]_vars PROVE LoneInv'
  OBVIOUS
<1>0. pc \in [Callers -> Ended \cup Busy] /\ url \in [Callers -> Endpoint \cup {NoEndpoint}]
  BY DEF SafetyInv, TypeOK
<1> USE DEF LoneInv, CarriesInv, localVars, cacheVars, Ended, Goto
<1>1. CASE Tick \/ Quiet \/ UNCHANGED vars
  BY <1>1 DEF Tick, Quiet, vars
<1>2. ASSUME NEW p \in Callers, Call(p) \/ Cancel(p) PROVE LoneInv'
  BY <1>0, <1>2 DEF Call, Cancel
<1>3. ASSUME NEW p \in Callers, CheckToken(p) PROVE LoneInv'
  BY <1>0, <1>3 DEF CheckToken, IsIntuneTokenValid
<1>4. ASSUME NEW p \in Callers, FetchToken(p) PROVE LoneInv'
  BY <1>0, <1>4, FetchedIsSomething DEF FetchToken
<1>5. ASSUME NEW p \in Callers, ReadToken(p) PROVE LoneInv'
  BY <1>0, <1>5 DEF ReadToken
<1>6. ASSUME NEW p \in Callers, CheckEndpoint(p) PROVE LoneInv'
  BY <1>0, <1>6 DEF CheckEndpoint, EndpointFresh
<1>7. ASSUME NEW p \in Callers, FetchEndpoint(p) PROVE LoneInv'
  BY <1>0, <1>7, FetchedIsSomething DEF FetchEndpoint
<1>8. ASSUME NEW p \in Callers, ReadEndpoint(p) PROVE LoneInv'
  BY <1>0, <1>8 DEF ReadEndpoint
<1>9. ASSUME NEW p \in Callers, Post(p) \/ Backoff(p) PROVE LoneInv'
  BY <1>0, <1>9 DEF Post, Backoff, Result
<1> QED
  BY <1>1, <1>2, <1>3, <1>4, <1>5, <1>6, <1>7, <1>8, <1>9 DEF Next, Step

\* A fetch that succeeds leaves the cache filled before anyone else may read it.
LEMMA FilledStep ==
  SafetyInv /\ FilledInv /\ [Next]_vars /\ [FetchesSucceed]_vars => FilledInv'
<1> SUFFICES ASSUME SafetyInv, FilledInv, [Next]_vars, [FetchesSucceed]_vars PROVE FilledInv'
  OBVIOUS
<1>0. pc \in [Callers -> Ended \cup Busy] /\ url \in [Callers -> Endpoint \cup {NoEndpoint}]
  BY DEF SafetyInv, TypeOK
<1> USE DEF FilledInv, CarriesInv, MuToken, localVars, cacheVars, Ended, Goto
<1>1. CASE Tick \/ Quiet \/ UNCHANGED vars
  BY <1>1 DEF Tick, Quiet, vars
<1>2. ASSUME NEW p \in Callers, Call(p) \/ Cancel(p) PROVE FilledInv'
  BY <1>0, <1>2 DEF Call, Cancel
<1>3. ASSUME NEW p \in Callers, CheckToken(p) PROVE FilledInv'
  BY <1>0, <1>3 DEF CheckToken
<1>4. ASSUME NEW p \in Callers, FetchToken(p) PROVE FilledInv'
  <2>1. pc'[p] # pc[p] /\ pc[p] = "fetchToken"
    BY <1>0, <1>4 DEF FetchToken
  <2>2. pc'[p] # "error"
    BY <2>1 DEF FetchesSucceed, vars
  <2>3. intuneToken' # NoToken
    BY <1>4, <2>2, FetchedIsSomething
  <2> QED BY <1>0, <1>4, <2>3 DEF FetchToken
<1>5. ASSUME NEW p \in Callers, ReadToken(p) PROVE FilledInv'
  BY <1>0, <1>5 DEF ReadToken
<1>6. ASSUME NEW p \in Callers, CheckEndpoint(p) PROVE FilledInv'
  BY <1>0, <1>6 DEF CheckEndpoint
<1>7. ASSUME NEW p \in Callers, FetchEndpoint(p) PROVE FilledInv'
  <2>1. pc'[p] # pc[p] /\ pc[p] = "fetchEndpoint"
    BY <1>0, <1>7 DEF FetchEndpoint
  <2>2. pc'[p] # "error"
    BY <2>1 DEF FetchesSucceed, vars
  <2>3. endpoint' # NoEndpoint
    BY <1>7, <2>2, FetchedIsSomething
  <2> QED BY <1>0, <1>7, <2>3 DEF FetchEndpoint
<1>8. ASSUME NEW p \in Callers, ReadEndpoint(p) PROVE FilledInv'
  BY <1>0, <1>8 DEF ReadEndpoint
<1>9. ASSUME NEW p \in Callers, Post(p) \/ Backoff(p) PROVE FilledInv'
  BY <1>0, <1>9 DEF Post, Backoff, Result
<1> QED
  BY <1>1, <1>2, <1>3, <1>4, <1>5, <1>6, <1>7, <1>8, <1>9 DEF Next, Step

\* initialize() has filled both caches.
LEMMA FilledAtStart == Init => LoneInv /\ FilledInv
BY IntuneClientAssumption DEF Init, LoneInv, FilledInv, CarriesInv, Token, Endpoint

\* A handler that runs alone never meets a nil token or an empty endpoint after
\* a populate that succeeded, however often fetches fail and time passes
\* (GetIntuneToken, GetScepEndpoint): the flaw that intune_client_caches shows
\* takes two handlers.
THEOREM LoneCallerReadsItsCache ==
  (\A c, d \in Callers : c = d) /\ Spec => []PopulatedCacheIsRead
<1>1. LoneInv => PopulatedCacheIsRead
  BY DEF LoneInv, CarriesInv, PopulatedCacheIsRead
<1>2. CASE \A c, d \in Callers : c = d
  <2>1. SafetyInv /\ LoneInv /\ [Next]_vars => LoneInv'
    BY <1>2, LoneStep
  <2> QED BY <1>1, <2>1, FilledAtStart, ClientSafety, PTL DEF Spec
<1> QED BY <1>2

\* And it takes a fetch that fails: as long as Microsoft answers every fetch,
\* any number of handlers read the caches filled.
THEOREM FilledCachesAreRead ==
  Spec /\ [][FetchesSucceed]_vars => []PopulatedCacheIsRead
<1>1. FilledInv => PopulatedCacheIsRead
  BY DEF FilledInv, CarriesInv, PopulatedCacheIsRead
<1> QED BY <1>1, FilledStep, FilledAtStart, ClientSafety, PTL DEF Spec
==============================================================================
