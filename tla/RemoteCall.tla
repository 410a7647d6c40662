------------------------------- MODULE RemoteCall -------------------------------
(***************************************************************************)
(* What a call to Intune promises its caller, retries and caches aside: it *)
(* ends, in success only if Intune accepted the request, in an error       *)
(* whether it did or not, or in a panic of the handler that made it.       *)
(***************************************************************************)
CONSTANT Callers

VARIABLES
  result,   \* per caller: "none" before a call, "pending", or how it ended
  accepted  \* callers whose request Intune has accepted

vars == <<result, accepted>>

Ended == {"none", "ok", "error", "panic"}

Init == result = [p \in Callers |-> "none"] /\ accepted = {}

Call(p) ==
  /\ result[p] \in Ended
  /\ result' = [result EXCEPT ![p] = "pending"]
  /\ accepted' = accepted \ {p}

Accept(p) ==
  /\ result[p] = "pending"
  /\ accepted' = accepted \cup {p}
  /\ \E r \in {"pending", "ok", "error"} : result' = [result EXCEPT ![p] = r]

Fail(p) ==
  /\ result[p] = "pending"
  /\ \E r \in {"error", "panic"} : result' = [result EXCEPT ![p] = r]
  /\ UNCHANGED accepted

Next == \E p \in Callers : Call(p) \/ Accept(p) \/ Fail(p)

Spec == Init /\ [][Next]_vars
==============================================================================
