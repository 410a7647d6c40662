------------------------------- MODULE Issuance -------------------------------
(***************************************************************************)
(* What the enrollment service promises, without handlers, cache, faults   *)
(* or a clock: a certificate is issued only after Intune validated the     *)
(* enrollment it is for, and reaches a client only after Intune was told.  *)
(* How much Intune was told is the difference between the two contracts:   *)
(* under the strict one, of this very certificate; under the lenient one,  *)
(* of some certificate of the same enrollment.                             *)
(***************************************************************************)
CONSTANTS
  Keys,        \* enrollments
  Provisioned, \* enrollments Intune would validate
  Strict       \* which contract

VARIABLES
  verified,    \* enrollments Intune has validated
  issued,      \* certificates signed, records with a field key
  confirmed,   \* certificates Intune was told of
  delivered    \* pairs of an enrollment and a certificate given to its client

vars == <<verified, issued, confirmed, delivered>>

Init ==
  /\ verified = {}
  /\ issued = {}
  /\ confirmed = {}
  /\ delivered = {}

Validate(k) ==
  /\ k \in Provisioned
  /\ verified' = verified \cup {k}
  /\ UNCHANGED <<issued, confirmed, delivered>>

Issue(c) ==
  /\ c.key \in verified
  /\ c \notin issued
  /\ issued' = issued \cup {c}
  /\ UNCHANGED <<verified, confirmed, delivered>>

Confirm(c) ==
  /\ c \in issued
  /\ confirmed' = confirmed \cup {c}
  /\ UNCHANGED <<verified, issued, delivered>>

Told(c) == IF Strict THEN c \in confirmed
           ELSE \E d \in confirmed : d.key = c.key

Deliver(c) ==
  /\ c \in issued
  /\ Told(c)
  /\ delivered' = delivered \cup {[key |-> c.key, cert |-> c]}
  /\ UNCHANGED <<verified, issued, confirmed>>

Next ==
  \/ \E k \in Keys : Validate(k)
  \/ \E c \in issued' : Issue(c)
  \/ \E c \in issued : Confirm(c) \/ Deliver(c)

Spec == Init /\ [][Next]_vars
==============================================================================
