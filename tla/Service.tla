-------------------------------- MODULE Service --------------------------------
(***************************************************************************)
(* What the process promises its supervisor and its clients, without main, *)
(* goroutines or a purge worker: it prepares, serves, stops and is over,   *)
(* and never goes back.  It may be over as soon as it stops: the grace     *)
(* period only guards the store.  If it can no longer listen it fails, out *)
(* of service, with requests in flight and the store open.                 *)
(***************************************************************************)
CONSTANT Requests

VARIABLES
  phase,     \* "starting", "serving", "stopping" or "over"
  verdict,   \* "none" until it is over, then what its exit code says
  fit,       \* sound but perhaps for the kind of the JWK, tried against Intune
  signalled, \* it has been asked to stop
  store,     \* the certificate store: "none", "open" or "closed"
  expired,   \* the grace period is over
  request,   \* per request, "none", "active" or "done"
  broken     \* requests that found the store closed

vars == <<phase, verdict, fit, signalled, store, expired, request, broken>>

Init ==
  /\ phase = "starting"
  /\ verdict = "none"
  /\ ~fit
  /\ ~signalled
  /\ store = "none"
  /\ ~expired
  /\ request = [r \in Requests |-> "none"]
  /\ broken = {}

Ask ==
  /\ phase # "over"
  /\ signalled' = TRUE
  /\ UNCHANGED <<phase, verdict, fit, store, expired, request, broken>>

Prepare ==
  /\ phase = "starting"
  /\ fit' \in BOOLEAN
  /\ UNCHANGED <<phase, verdict, signalled, store, expired, request, broken>>

Open ==
  /\ phase = "starting" /\ store = "none"
  /\ store' = "open"
  /\ UNCHANGED <<phase, verdict, fit, signalled, expired, request, broken>>

Serve ==
  /\ phase = "starting" /\ fit /\ store = "open"
  /\ phase' = "serving"
  /\ UNCHANGED <<verdict, fit, signalled, store, expired, request, broken>>

Accept(r) ==
  /\ phase = "serving" /\ request[r] = "none"
  /\ request' = [request EXCEPT ![r] = "active"]
  /\ UNCHANGED <<phase, verdict, fit, signalled, store, expired, broken>>

Finish(r) ==
  /\ phase # "over" /\ request[r] = "active"
  /\ request' = [request EXCEPT ![r] = "done"]
  /\ UNCHANGED <<phase, verdict, fit, signalled, store, expired, broken>>

Break(r) ==
  /\ phase = "stopping" /\ request[r] = "active" /\ store = "closed"
  /\ broken' = broken \cup {r}
  /\ UNCHANGED <<phase, verdict, fit, signalled, store, expired, request>>

Stop ==
  /\ phase \in {"starting", "serving"} /\ signalled /\ store = "open"
  /\ phase' = "stopping"
  /\ UNCHANGED <<verdict, fit, signalled, store, expired, request, broken>>

Expire ==
  /\ phase = "stopping" /\ store = "open"
  /\ expired' = TRUE
  /\ UNCHANGED <<phase, verdict, fit, signalled, store, request, broken>>

Close ==
  /\ phase = "stopping" /\ store = "open"
  /\ expired \/ \A r \in Requests : request[r] # "active"
  /\ store' = "closed"
  /\ UNCHANGED <<phase, verdict, fit, signalled, expired, request, broken>>

End ==
  /\ \/ phase = "starting" /\ verdict' \in {"failed", "panicked"}
     \/ phase = "starting" /\ signalled /\ verdict' = "stopped"
     \/ phase = "serving" /\ verdict' = "failed"
     \/ phase = "stopping" /\ verdict' = "stopped"
  /\ phase' = "over"
  /\ UNCHANGED <<fit, signalled, store, expired, request, broken>>

Next ==
  \/ Ask \/ Prepare \/ Open \/ Serve \/ Stop \/ Expire \/ Close \/ End
  \/ \E r \in Requests : Accept(r) \/ Finish(r) \/ Break(r)

Spec == Init /\ [][Next]_vars
==============================================================================
