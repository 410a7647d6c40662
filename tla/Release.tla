-------------------------------- MODULE Release --------------------------------
(***************************************************************************)
(* What a build of a release promises whoever ran it, without goroutines,  *)
(* directories or a counter: every target of the command line comes to one *)
(* end and stays there, and the build returns when all have.  Two of the   *)
(* ends are unnoticed losses: a truncated archive, and what becomes of a   *)
(* target that was named twice.                                            *)
(***************************************************************************)
EXTENDS Integers, Sequences

CONSTANTS
  Targets,
  MaxTargets

VARIABLES
  list,   \* the targets to build
  fate,   \* per place in the list, what became of it
  over    \* "no", or how the build ended

vars == <<list, fate, over>>

Fates == {"released",   \* the archive holds the binary
          "kept",       \* a step failed, but the binary is on disk
          "failed",     \* no binary of this build, perhaps an old archive
          "truncated"}  \* the end of the archive was lost and the binary removed

Repeated(j) == \E i \in DOMAIN list : i # j /\ list[i] = list[j]

Init ==
  /\ list = <<>>
  /\ fate = [j \in 1..MaxTargets |-> "pending"]
  /\ over = "no"

Begin ==
  /\ over = "no" /\ list = <<>>
  /\ \E n \in 1..MaxTargets : list' \in [1..n -> Targets]
  /\ UNCHANGED <<fate, over>>

Settle(j) ==
  /\ over = "no"
  /\ fate[j] = "pending"
  /\ \E f \in Fates \cup {"shared"} :
       /\ f = "shared" <=> Repeated(j)
       /\ fate' = [fate EXCEPT ![j] = f]
  /\ UNCHANGED <<list, over>>

Return ==
  /\ over = "no" /\ list # <<>>
  /\ \A j \in DOMAIN list : fate[j] # "pending"
  /\ over' = "returned"
  /\ UNCHANGED <<list, fate>>

\* Nothing is built: the command line asks for help or is wrong, or the build
\* is interrupted before it is read.
Refuse ==
  /\ over = "no" /\ list = <<>>
  /\ over' = "refused"
  /\ UNCHANGED <<list, fate>>

Kill ==
  /\ over = "no" /\ list # <<>>
  /\ over' = "killed"
  /\ UNCHANGED <<list, fate>>

Next == Begin \/ Return \/ Refuse \/ Kill \/ \E j \in DOMAIN list : Settle(j)

Spec == Init /\ [][Next]_vars
==============================================================================
