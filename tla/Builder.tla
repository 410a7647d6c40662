-------------------------------- MODULE Builder --------------------------------
(***************************************************************************)
(* The release builder (builder/builder.go), a program of its own: main    *)
(* starts one goroutine per target, each of which builds the binary into a *)
(* directory, archives the directory and removes it, and waits for all.    *)
(* The error of a goroutine is discarded, and so is that of the deferred   *)
(* Close calls that write the end of an archive.                           *)
(*                                                                         *)
(* dist/<version> holds one directory and one archive per target, perhaps  *)
(* left there by an earlier build; a target named twice shares them.       *)
(***************************************************************************)
EXTENDS Integers, Sequences, FiniteSets

CONSTANTS
  Targets,        \* the pairs os/arch
  Host,           \* the one of this machine
  DefaultTargets, \* what -all builds
  Malformed,      \* an element of -targets that is no pair os/arch
  MaxTargets      \* bound on the targets of one build

ASSUME BuilderAssumption ==
  /\ Host \in Targets
  /\ Malformed \notin Targets
  /\ MaxTargets \in Nat \ {0}
  /\ DefaultTargets \in Seq(Targets) /\ Len(DefaultTargets) \in 1..MaxTargets

VARIABLES
  main,      \* where main is
  code,      \* its exit code
  list,      \* the targets to build
  launched,  \* how many goroutines were started
  wg,        \* the counter of the WaitGroup
  job,       \* per goroutine, what it does next, or how it ended
  dir,       \* per target, what its build directory holds
  archive,   \* per target, what its archive holds
  built,     \* goroutines whose go build succeeded
  swallowed  \* goroutines whose archive could not be closed

mainVars == <<main, code, list, launched>>
diskVars == <<dir, archive>>
vars == <<main, code, list, launched, wg, job, dir, archive, built, swallowed>>

Jobs == 1..MaxTargets
Running == {"mkdir", "build", "create", "write", "clean"}
Ended == {"done", "failed"}
Alive == main # "exited"
Goroutines == 1..Len(list)

\* Does no other goroutine build the same target?
Alone(j) == \A i \in Goroutines : list[i] = list[j] => i = j

\* What may spoil an archive without anyone noticing: a Close that failed, or
\* another goroutine at work on the same target.
Overlooked(j) == j \in swallowed \/ ~Alone(j)

Init ==
  /\ main = "flags"
  /\ code = 0
  /\ list = <<>>
  /\ launched = 0
  /\ wg = 0
  /\ job = [j \in Jobs |-> "none"]
  /\ dir \in [Targets -> {"absent", "empty", "old"}]
  /\ archive \in [Targets -> {"none", "partial", "old"}]
  /\ built = {}
  /\ swallowed = {}

-----------------------------------------------------------------------------
(* main *)

CommandLine ==
  [targets : UNION {[1..n -> Targets \cup {Malformed}] : n \in 0..MaxTargets},
   all : BOOLEAN, named : BOOLEAN]

Accepted(args) ==
  /\ args.targets # <<>> => ~args.all
  /\ \A i \in DOMAIN args.targets : args.targets[i] # Malformed
  /\ args.named

BuildTargets(args) ==
  IF args.targets # <<>> THEN args.targets
  ELSE IF args.all THEN DefaultTargets ELSE <<Host>>

\* flag.Parse ends the process itself: with 0 on -h, with 2 on an unknown flag.
FlagExits == {0, 2}

ParseFlags ==
  /\ main = "flags"
  /\ \E args \in CommandLine :
       \/ /\ Accepted(args)
          /\ main' = "launch"
          /\ list' = BuildTargets(args)
          /\ UNCHANGED code
       \/ /\ ~Accepted(args)
          /\ main' = "exited"
          /\ code' = 1
          /\ UNCHANGED list
       \/ /\ main' = "exited"
          /\ code' \in FlagExits
          /\ UNCHANGED list
  /\ UNCHANGED <<launched, wg, job, diskVars, built, swallowed>>

\* Mutant of Launch: wg.Add is forgotten.
LaunchWithoutAdd ==
  /\ main = "launch"
  /\ launched < Len(list)
  /\ launched' = launched + 1
  /\ job' = [job EXCEPT ![launched + 1] = "mkdir"]
  /\ UNCHANGED <<main, code, list, wg, diskVars, built, swallowed>>

Launch ==
  /\ main = "launch"
  /\ launched < Len(list)
  /\ launched' = launched + 1
  /\ wg' = wg + 1
  /\ job' = [job EXCEPT ![launched + 1] = "mkdir"]
  /\ UNCHANGED <<main, code, list, diskVars, built, swallowed>>

\* wg.Wait, after which main returns whatever the goroutines met with.
Wait ==
  /\ main = "launch"
  /\ launched = Len(list)
  /\ wg = 0
  /\ main' = "exited"
  /\ UNCHANGED <<code, list, launched, wg, job, diskVars, built, swallowed>>

Interrupt ==
  /\ Alive
  /\ main' = "exited"
  /\ code' = 2
  /\ UNCHANGED <<list, launched, wg, job, diskVars, built, swallowed>>

-----------------------------------------------------------------------------
(* A goroutine: buildAndPackage and the deferred wg.Done. *)

At(j, l) == Alive /\ job[j] = l
Goto(j, l) == job' = [job EXCEPT ![j] = l] /\ UNCHANGED wg
End(j, how) == job' = [job EXCEPT ![j] = how] /\ wg' = wg - 1

\* Mutant of Fails: Done is not deferred, and an error returns before it.
FailsWithoutDone(j) == job' = [job EXCEPT ![j] = "failed"] /\ UNCHANGED wg

\* An error is returned at once, to nobody.
Fails(j) == End(j, "failed")

MakeDir(j) ==
  /\ At(j, "mkdir")
  /\ \/ /\ dir' = [dir EXCEPT ![list[j]] = IF @ = "absent" THEN "empty" ELSE @]
        /\ Goto(j, "build")
     \/ Fails(j) /\ UNCHANGED dir
  /\ UNCHANGED <<mainVars, archive, built, swallowed>>

\* Mutant of GoBuild: its error is not looked at.
GoBuildUnchecked(j) ==
  /\ At(j, "build")
  /\ dir' \in {dir, [dir EXCEPT ![list[j]] = "new"]}
  /\ Goto(j, "create")
  /\ built' = built \cup {j}
  /\ UNCHANGED <<mainVars, archive, swallowed>>

\* go build makes the directory of the binary if it is gone.
GoBuild(j) ==
  /\ At(j, "build")
  /\ \/ /\ dir' = [dir EXCEPT ![list[j]] = "new"]
        /\ built' = built \cup {j}
        /\ Goto(j, "create")
     \/ Fails(j) /\ UNCHANGED <<dir, built>>
  /\ UNCHANGED <<mainVars, archive, swallowed>>

\* os.Create of createZip and createTarGz truncates an older archive.
CreateArchive(j) ==
  /\ At(j, "create")
  /\ \/ archive' = [archive EXCEPT ![list[j]] = "partial"] /\ Goto(j, "write")
     \/ Fails(j) /\ UNCHANGED archive
  /\ UNCHANGED <<mainVars, dir, built, swallowed>>

\* What an archive of the directory holds once it is closed.
Packed(content) == IF content \in {"old", "new"} THEN content ELSE "partial"

\* Mutant of WriteArchive: the error of packageDir is not looked at.
WriteArchiveUnchecked(j) ==
  /\ At(j, "write")
  /\ Goto(j, "clean")
  /\ archive' \in {[archive EXCEPT ![list[j]] = a] : a \in {Packed(dir[list[j]]), "partial"}}
  /\ UNCHANGED <<mainVars, dir, built, swallowed>>

\* The walk copies every file and the deferred calls close the archive; the
\* error of a Close is lost.  Goroutines that share an archive overwrite each
\* other's bytes.
WriteArchive(j) ==
  /\ At(j, "write")
  /\ \/ /\ dir[list[j]] # "absent"
        /\ archive' = [archive EXCEPT ![list[j]] = Packed(dir[list[j]])]
        /\ Goto(j, "clean")
        /\ UNCHANGED swallowed
     \/ /\ dir[list[j]] # "absent"
        /\ archive' = [archive EXCEPT ![list[j]] = "partial"]
        /\ Goto(j, "clean")
        /\ swallowed' = swallowed \cup {j}
     \/ /\ dir[list[j]] # "absent"
        /\ ~Alone(j)
        /\ archive' = [archive EXCEPT ![list[j]] = "partial"]
        /\ Goto(j, "clean")
        /\ UNCHANGED swallowed
     \/ /\ archive' = [archive EXCEPT ![list[j]] = "partial"]
        /\ Fails(j)
        /\ UNCHANGED swallowed
  /\ UNCHANGED <<mainVars, dir, built>>

\* Mutant of Clean: the directory of the version is removed, not the target's.
CleanVersion(j) ==
  /\ At(j, "clean")
  /\ \/ dir' = [t \in Targets |-> "absent"] /\ End(j, "done")
     \/ UNCHANGED dir /\ Fails(j)
  /\ UNCHANGED <<mainVars, archive, built, swallowed>>

\* RemoveAll may fail half way.
Clean(j) ==
  /\ At(j, "clean")
  /\ \/ dir' = [dir EXCEPT ![list[j]] = "absent"] /\ End(j, "done")
     \/ /\ dir' \in {dir, [dir EXCEPT ![list[j]] = "empty"]}
        /\ Fails(j)
  /\ UNCHANGED <<mainVars, archive, built, swallowed>>

-----------------------------------------------------------------------------
Main == ParseFlags \/ Launch \/ Wait
Work(j) == MakeDir(j) \/ GoBuild(j) \/ CreateArchive(j) \/ WriteArchive(j) \/ Clean(j)
Exited == ~Alive /\ UNCHANGED vars
Next == Main \/ Interrupt \/ Exited \/ \E j \in Jobs : Work(j)

Spec == Init /\ [][Next]_vars

(* Goroutines are scheduled, and go build and the file system return. *)
FairSpec == Spec /\ WF_vars(Main) /\ \A j \in Jobs : WF_vars(Work(j))

-----------------------------------------------------------------------------
TypeOK ==
  /\ main \in {"flags", "launch", "exited"}
  /\ code \in 0..2
  /\ list \in Seq(Targets) /\ Len(list) <= MaxTargets
  /\ launched \in 0..Len(list)
  /\ wg \in Nat
  /\ job \in [Jobs -> {"none"} \cup Running \cup Ended]
  /\ dir \in [Targets -> {"absent", "empty", "old", "new"}]
  /\ archive \in [Targets -> {"none", "partial", "old", "new"}]
  /\ built \subseteq Goroutines
  /\ swallowed \subseteq Goroutines

(***************************************************************************)
(* Properties.                                                             *)
(***************************************************************************)

\* The process does not end on a goroutine at work: when main returns, every
\* target has been built and packaged, or has failed.
WaitsForAll ==
  main = "exited" /\ code = 0 => \A j \in Goroutines : job[j] \in Ended

\* A binary once built is in its directory or in a whole archive, whichever
\* step returns an error and even after an interrupt, with two exceptions that
\* the code does nothing about: RemoveAll does take the only copy if the
\* deferred Close of the archive failed, or if the target was named twice.
BinaryKept ==
  \A j \in built : dir[list[j]] = "new" \/ archive[list[j]] = "new" \/ Overlooked(j)

\* When a goroutine returns nil, what an earlier build left behind does not
\* pass for its output, and its archive holds the binary of this build and
\* the directory is gone.  The second part has the two exceptions of
\* BinaryKept: with a failed Close or a target named twice, nil is returned
\* over an archive that may be truncated or overwritten.
SuccessIsWhole ==
  \A j \in Goroutines : job[j] = "done" =>
    /\ archive[list[j]] # "old"
    /\ (dir[list[j]] = "absent" /\ archive[list[j]] = "new") \/ Overlooked(j)

\* The build ends: no error path leaves main waiting.
BuildEnds == <>(main = "exited")

\* What became of the target of goroutine j, read off the disk.
Fate(j) ==
  LET ended == j \in Goroutines /\ job[j] \in Ended
      known == ended /\ Alone(j)
      done == known /\ job[j] = "done"
      failed == known /\ job[j] = "failed"
      onDisk == dir[list[j]] = "new" \/ archive[list[j]] = "new"
  IN CASE ~ended -> "pending"
       [] ended /\ ~Alone(j) -> "shared"
       [] done /\ archive[list[j]] = "new" -> "released"
       [] failed /\ j \notin built -> "failed"
       [] failed /\ j \in built /\ onDisk -> "kept"
       [] known /\ j \in swallowed /\ ~onDisk -> "truncated"
       [] OTHER -> "lost"

Ending ==
  IF Alive THEN "no" ELSE IF list = <<>> THEN "refused"
  ELSE IF code = 0 THEN "returned" ELSE "killed"

Promise == INSTANCE Release WITH fate <- [j \in Jobs |-> Fate(j)], over <- Ending

\* The builder keeps the promise of Release: what became of a target is one
\* of the ends that have a name, of which "truncated" and "shared" are the two
\* exceptions of BinaryKept; no later step of any goroutine changes it; and
\* main returns only after all are settled.
ImplementsRelease == Promise!Spec

(***************************************************************************)
(* The inductive invariants behind them.                                   *)
(***************************************************************************)

Working == {j \in Jobs : job[j] \in Running}

\* The counter is the number of goroutines at work, and main is past the
\* launch of them all when it returns.
WaitInv ==
  /\ wg = Cardinality(Working)
  /\ \A j \in Jobs : job[j] = "none" <=> j > launched
  /\ main = "flags" => launched = 0 /\ Goroutines = {}
  /\ main = "exited" /\ code = 0 => launched = Len(list) /\ Working = {}

\* From its own go build on, a goroutine sees nothing of an earlier build; and
\* where its binary is, if it shares its target with no other.
OutputInv ==
  \A j \in Goroutines :
    /\ j \in built \/ j \in swallowed => job[j] \notin {"none", "mkdir", "build"}
    /\ job[j] \in {"create", "write", "clean", "done"} => dir[list[j]] # "old"
    /\ job[j] \in {"write", "clean", "done"} => archive[list[j]] # "old"
    /\ Alone(j) =>
         /\ job[j] \in {"create", "write"} => dir[list[j]] = "new"
         /\ job[j] = "clean" => archive[list[j]] = "new" \/ j \in swallowed
         /\ job[j] = "done" =>
              dir[list[j]] = "absent" /\ (archive[list[j]] = "new" \/ j \in swallowed)
         /\ j \in built =>
              \/ dir[list[j]] = "new"
              \/ archive[list[j]] = "new"
              \/ j \in swallowed
==============================================================================
