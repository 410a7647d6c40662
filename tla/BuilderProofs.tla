----------------------------- MODULE BuilderProofs -----------------------------
(***************************************************************************)
(* Theorems about Builder, for any set of targets and any number of them   *)
(* on the command line.                                                    *)
(***************************************************************************)
EXTENDS Builder, FiniteSetTheorems, SequenceTheorems, TLAPS

-----------------------------------------------------------------------------
(* Type correctness. *)

\* An accepted command line names at least one target and at most MaxTargets.
LEMMA AcceptedTargets ==
  ASSUME NEW args \in CommandLine, Accepted(args)
  PROVE  BuildTargets(args) \in Seq(Targets) /\ Len(BuildTargets(args)) \in 0..MaxTargets
<1>1. CASE args.targets # <<>>
  <2>1. PICK n \in 0..MaxTargets : args.targets \in [1..n -> Targets \cup {Malformed}]
    BY DEF CommandLine
  <2>2. args.targets \in [1..n -> Targets]
    BY <2>1 DEF Accepted
  <2>3. args.targets \in Seq(Targets) /\ Len(args.targets) = n
    BY <2>2
  <2> QED BY <1>1, <2>3 DEF BuildTargets
<1>2. CASE args.targets = <<>>
  <2>1. <<Host>> \in Seq(Targets) /\ Len(<<Host>>) = 1
    BY BuilderAssumption
  <2> QED BY <1>2, <2>1, BuilderAssumption DEF BuildTargets
<1> QED BY <1>1, <1>2

\* A goroutine at work is one of those that main launched, and has a target.
LEMMA WorkerLaunched ==
  ASSUME TypeOK, WaitInv, NEW j \in Jobs, job[j] # "none"
  PROVE  j \in Goroutines /\ list[j] \in Targets
<1>1. j \in 1..launched
  BY BuilderAssumption DEF TypeOK, WaitInv, Jobs
<1>2. Len(list) \in Nat /\ launched \in 0..Len(list)
  BY LenProperties DEF TypeOK
<1>3. j \in 1..Len(list)
  BY <1>1, <1>2
<1> QED BY <1>3, ElementOfSeq DEF TypeOK, Goroutines

\* The counter of the WaitGroup follows the goroutines at work: Add before a
\* goroutine starts, Done when it ends.
LEMMA WorkingCount ==
  ASSUME TypeOK, NEW j \in Jobs, NEW l, job' = [job EXCEPT ![j] = l]
  PROVE  /\ IsFiniteSet(Working) /\ Cardinality(Working) \in Nat
         /\ l \in Running /\ job[j] \in Running => Cardinality(Working') = Cardinality(Working)
         /\ l \in Running /\ job[j] \notin Running =>
              Cardinality(Working') = Cardinality(Working) + 1
         /\ l \notin Running /\ job[j] \in Running =>
              Cardinality(Working') = Cardinality(Working) - 1 /\ Cardinality(Working) > 0
<1>1. IsFiniteSet(Jobs)
  BY FS_Interval, BuilderAssumption DEF Jobs
<1>2. Working \in SUBSET Jobs
  BY DEF Working
<1>3. IsFiniteSet(Working) /\ Cardinality(Working) \in Nat
  BY <1>1, <1>2, FS_Subset, FS_CardinalityType
<1>4. ASSUME l \in Running PROVE Working' = Working \cup {j}
  BY <1>4 DEF Working, TypeOK
<1>5. ASSUME l \notin Running PROVE Working' = Working \ {j}
  BY <1>5 DEF Working, TypeOK
<1>6. job[j] \in Running <=> j \in Working
  BY DEF Working
<1>7. j \in Working => Cardinality(Working) # 0
  BY <1>3, FS_EmptySet
<1> QED BY <1>3, <1>4, <1>5, <1>6, <1>7, FS_AddElement, FS_RemoveElement

\* The state in which the builder starts, over whatever an earlier build left.
LEMMA BuilderInit == Init => TypeOK /\ WaitInv /\ OutputInv
<1> SUFFICES ASSUME Init PROVE TypeOK /\ WaitInv /\ OutputInv
  OBVIOUS
<1>1. list \in Seq(Targets) /\ Len(list) = 0
  BY EmptySeq DEF Init
<1>2. Working = {}
  BY DEF Init, Working, Running
<1>3. TypeOK
  BY <1>1, BuilderAssumption DEF Init, TypeOK, Jobs
<1>4. WaitInv
  BY <1>1, <1>2, FS_EmptySet, BuilderAssumption DEF Init, WaitInv, Jobs, Goroutines
<1>5. OutputInv
  BY <1>1 DEF Init, OutputInv, Goroutines
<1> QED BY <1>3, <1>4, <1>5

\* What a goroutine does next has a type, and the counter still counts.
LEMMA JobStep ==
  ASSUME TypeOK, WaitInv, NEW j \in Jobs, job[j] \in Running,
         \/ \E l \in Running : Goto(j, l)
         \/ \E how \in Ended : End(j, how)
  PROVE  /\ job' \in [Jobs -> {"none"} \cup Running \cup Ended]
         /\ wg' \in Nat /\ wg' = Cardinality(Working')
         /\ \A i \in Jobs : job'[i] = "none" <=> job[i] = "none"
<1>1. CASE \E l \in Running : Goto(j, l)
  <2> PICK l \in Running : Goto(j, l)
    BY <1>1
  <2>1. job' = [job EXCEPT ![j] = l] /\ wg' = wg
    BY DEF Goto
  <2>2. Cardinality(Working') = Cardinality(Working)
    BY <2>1, WorkingCount
  <2>3. l # "none" /\ job[j] # "none"
    BY DEF Running
  <2> QED BY <2>1, <2>2, <2>3 DEF TypeOK, WaitInv
<1>2. CASE \E how \in Ended : End(j, how)
  <2> PICK how \in Ended : End(j, how)
    BY <1>2
  <2>1. job' = [job EXCEPT ![j] = how] /\ wg' = wg - 1
    BY DEF End
  <2>2. how \notin Running /\ how # "none" /\ job[j] # "none"
    BY DEF Running, Ended
  <2>3. /\ Cardinality(Working) \in Nat /\ Cardinality(Working) > 0
        /\ Cardinality(Working') = Cardinality(Working) - 1
    BY <2>1, <2>2, WorkingCount
  <2> QED BY <2>1, <2>2, <2>3 DEF TypeOK, WaitInv
<1> QED BY <1>1, <1>2

\* A goroutine's step moves that goroutine, and nothing of main.
LEMMA WorkMoves ==
  ASSUME NEW j \in Jobs, Work(j)
  PROVE  /\ Alive /\ UNCHANGED mainVars
         /\ job[j] \in Running
         /\ \/ \E l \in Running : Goto(j, l)
            \/ \E how \in Ended : End(j, how)
BY DEF Work, MakeDir, GoBuild, CreateArchive, WriteArchive, Clean, At, Fails, Running, Ended

\* Every step of main and of the goroutines keeps the types and the counter.
LEMMA WaitStep == TypeOK /\ WaitInv /\ [Next]_vars => TypeOK' /\ WaitInv'
<1> SUFFICES ASSUME TypeOK, WaitInv, [Next]_vars PROVE TypeOK' /\ WaitInv'
  OBVIOUS
<1> USE DEF diskVars
<1>1. CASE ParseFlags
  <2>1. ASSUME NEW args \in CommandLine, Accepted(args), list' = BuildTargets(args),
               main' = "launch", code' = code
        PROVE  TypeOK' /\ WaitInv'
    <3>1. list' \in Seq(Targets) /\ Len(list') \in 0..MaxTargets
      BY <2>1, AcceptedTargets
    <3>2. launched = 0 /\ built = {} /\ swallowed = {}
      BY <1>1 DEF ParseFlags, WaitInv, TypeOK
    <3>3. UNCHANGED Working
      BY <1>1 DEF ParseFlags, Working
    <3>4. TypeOK'
      BY <1>1, <2>1, <3>1, <3>2, BuilderAssumption DEF ParseFlags, TypeOK
    <3> QED BY <1>1, <2>1, <3>3, <3>4 DEF ParseFlags, WaitInv
  <2>2. ASSUME main' = "exited", code' \in 0..2, list' = list PROVE TypeOK' /\ WaitInv'
    <3>1. launched = 0 /\ Goroutines = {} /\ Len(list) \in Nat
      BY <1>1, LenProperties DEF ParseFlags, WaitInv, TypeOK
    <3>2. launched = Len(list)
      <4>1. ~(1 <= Len(list))
        BY <3>1 DEF Goroutines
      <4> QED BY <3>1, <4>1
    <3>3. Working = {}
      BY <1>1, <3>1 DEF ParseFlags, WaitInv, Working, Jobs, Running
    <3> QED BY <1>1, <2>2, <3>1, <3>2, <3>3 DEF ParseFlags, TypeOK, WaitInv, Working, Goroutines
  <2>3. (code' = 1 \/ code' \in FlagExits) => code' \in 0..2
    BY DEF FlagExits
  <2> QED BY <1>1, <2>1, <2>2, <2>3 DEF ParseFlags
<1>2. CASE Launch
  <2> DEFINE j == launched + 1
  <2>1. j \in Jobs /\ j \in 1..Len(list)
    BY <1>2, LenProperties, BuilderAssumption DEF Launch, TypeOK, Jobs
  <2>2. job[j] \notin Running
    BY <2>1 DEF WaitInv, TypeOK, Running, Jobs
  <2>3. /\ Cardinality(Working) \in Nat
        /\ Cardinality(Working') = Cardinality(Working) + 1
    <3>1. job' = [job EXCEPT ![j] = "mkdir"] /\ "mkdir" \in Running
      BY <1>2 DEF Launch, Running
    <3> QED BY <2>1, <2>2, <3>1, WorkingCount
  <2>4. TypeOK'
    BY <1>2, <2>1 DEF Launch, TypeOK, Running, Goroutines
  <2> QED BY <1>2, <2>1, <2>3, <2>4 DEF Launch, WaitInv, TypeOK, Jobs
<1>3. CASE Wait
  <2>1. Working = {}
    <3>1. IsFiniteSet(Jobs) /\ Working \in SUBSET Jobs
      BY FS_Interval, BuilderAssumption DEF Jobs, Working
    <3> QED BY <1>3, <3>1, FS_Subset, FS_EmptySet DEF Wait, WaitInv
  <2>2. UNCHANGED Working
    BY <1>3 DEF Wait, Working
  <2> QED BY <1>3, <2>1, <2>2 DEF Wait, TypeOK, WaitInv, Goroutines
<1>4. CASE Interrupt
  BY <1>4 DEF Interrupt, TypeOK, WaitInv, Working, Goroutines
<1>5. ASSUME NEW j \in Jobs, Work(j) PROVE TypeOK' /\ WaitInv'
  <2>1. /\ Alive /\ UNCHANGED mainVars
        /\ job[j] \in Running
        /\ job' \in [Jobs -> {"none"} \cup Running \cup Ended]
        /\ wg' \in Nat /\ wg' = Cardinality(Working')
        /\ \A i \in Jobs : job'[i] = "none" <=> job[i] = "none"
    BY <1>5, WorkMoves, JobStep
  <2>2. j \in Goroutines /\ list[j] \in Targets
    BY <2>1, WorkerLaunched DEF Running
  <2>3. /\ dir' \in [Targets -> {"absent", "empty", "old", "new"}]
        /\ archive' \in [Targets -> {"none", "partial", "old", "new"}]
        /\ built' \subseteq Goroutines /\ swallowed' \subseteq Goroutines
    BY <1>5, <2>2 DEF Work, MakeDir, GoBuild, CreateArchive, WriteArchive, Clean, Packed, TypeOK
  <2>4. WaitInv'
    BY <2>1 DEF WaitInv, Alive, mainVars, Goroutines
  <2> QED BY <2>1, <2>3, <2>4 DEF TypeOK, mainVars, Goroutines
<1>6. CASE UNCHANGED vars
  BY <1>6 DEF vars, TypeOK, WaitInv, Working, Goroutines
<1> QED BY <1>1, <1>2, <1>3, <1>4, <1>5, <1>6 DEF Next, Main, Exited

\* Every variable keeps its type; the counter of the WaitGroup is never negative.
THEOREM BuilderTypes == Spec => []TypeOK
BY BuilderInit, WaitStep, PTL DEF Spec

\* When main returns, no goroutine is at work and none is still to be launched:
\* wg.Add precedes every go statement, and wg.Done runs on every path.
THEOREM MainWaits == Spec => []WaitsForAll
<1>1. TypeOK /\ WaitInv => WaitsForAll
  <2> SUFFICES ASSUME TypeOK, WaitInv, main = "exited", code = 0, NEW j \in Goroutines
               PROVE  job[j] \in Ended
    BY DEF WaitsForAll
  <2>1. j \in Jobs /\ j \in 1..launched
    BY LenProperties, BuilderAssumption DEF TypeOK, WaitInv, Goroutines, Jobs
  <2>2. job[j] # "none" /\ job[j] \notin Running
    BY <2>1 DEF WaitInv, Working, TypeOK, Jobs
  <2> QED BY <2>1, <2>2 DEF TypeOK
<1> QED BY <1>1, BuilderInit, WaitStep, PTL DEF Spec

-----------------------------------------------------------------------------
(* The output of a goroutine. *)

\* Every step keeps what is known of the binary of each goroutine: its own
\* steps by their order, those of the others because they write elsewhere.
LEMMA OutputStep == TypeOK /\ WaitInv /\ OutputInv /\ [Next]_vars => OutputInv'
<1> SUFFICES ASSUME TypeOK, WaitInv, OutputInv, [Next]_vars PROVE OutputInv'
  OBVIOUS
<1> USE DEF diskVars
<1>1. CASE ParseFlags
  <2>1. \A j \in Jobs : job[j] = "none"
    BY <1>1 DEF ParseFlags, WaitInv, Jobs
  <2>2. Goroutines' \subseteq Jobs
    <3>1. TypeOK'
      BY WaitStep
    <3> QED BY <3>1, LenProperties, BuilderAssumption DEF TypeOK, Goroutines, Jobs
  <2>3. built = {} /\ swallowed = {}
    BY <1>1 DEF WaitInv, TypeOK, ParseFlags
  <2> QED BY <1>1, <2>1, <2>2, <2>3 DEF ParseFlags, OutputInv
<1>2. CASE Launch
  <2>1. job[launched + 1] = "none" /\ launched + 1 \in Jobs
    BY <1>2, LenProperties, BuilderAssumption DEF Launch, TypeOK, WaitInv, Jobs
  <2> QED BY <1>2, <2>1 DEF Launch, OutputInv, Alone, Goroutines, TypeOK
<1>3. CASE Wait \/ Interrupt \/ UNCHANGED vars
  BY <1>3 DEF Wait, Interrupt, vars, OutputInv, Alone, Goroutines
<1>4. ASSUME NEW j \in Jobs, Work(j) PROVE OutputInv'
  <2>1. UNCHANGED list /\ job[j] \in Running
    BY <1>4, WorkMoves DEF mainVars
  <2>2. j \in Goroutines /\ list[j] \in Targets
    BY <2>1, WorkerLaunched DEF Running
  <2>3. ASSUME NEW i \in Goroutines, Alone(i), i # j PROVE list[i] # list[j]
    BY <2>2, <2>3 DEF Alone
  <2>4. \A i \in Goroutines : Alone(i)' <=> Alone(i)
    BY <2>1 DEF Alone, Goroutines
  <2>5. \A i \in Goroutines : i \in Jobs /\ list[i] \in Targets
    BY LenProperties, ElementOfSeq, BuilderAssumption DEF TypeOK, Goroutines, Jobs
  <2> USE DEF OutputInv, TypeOK, Goto, End, Fails, At, mainVars
  <2>6. CASE MakeDir(j)
    BY <2>1, <2>2, <2>3, <2>4, <2>5, <2>6 DEF MakeDir, Goroutines
  <2>7. CASE GoBuild(j)
    BY <2>1, <2>2, <2>3, <2>4, <2>5, <2>7 DEF GoBuild, Goroutines
  <2>8. CASE CreateArchive(j)
    BY <2>1, <2>2, <2>3, <2>4, <2>5, <2>8 DEF CreateArchive, Goroutines
  <2>9. CASE WriteArchive(j)
    BY <2>1, <2>2, <2>3, <2>4, <2>5, <2>9 DEF WriteArchive, Packed, Goroutines
  <2>10. CASE Clean(j)
    BY <2>1, <2>2, <2>3, <2>4, <2>5, <2>10 DEF Clean, Goroutines
  <2> QED BY <1>4, <2>6, <2>7, <2>8, <2>9, <2>10 DEF Work
<1> QED BY <1>1, <1>2, <1>3, <1>4 DEF Next, Main, Exited

\* For any targets: a binary once built is on disk, in its directory or in a
\* whole archive, unless a Close failed (builder.go:258-261, 316-322) or the
\* target was named twice.  In these two cases buildAndPackage does remove
\* the only copy.
THEOREM BinariesKept == Spec => []BinaryKept
<1>1. TypeOK /\ OutputInv => BinaryKept
  BY DEF TypeOK, OutputInv, BinaryKept, Overlooked
<1> QED BY <1>1, BuilderInit, WaitStep, OutputStep, PTL DEF Spec

\* For any targets: a goroutine that returns nil has replaced whatever an
\* earlier build left, and its archive is the one of this build unless a
\* Close failed or the target was named twice, over which nil is returned too.
THEOREM SuccessesWhole == Spec => []SuccessIsWhole
<1>1. OutputInv => SuccessIsWhole
  BY DEF OutputInv, SuccessIsWhole, Overlooked
<1> QED BY <1>1, BuilderInit, WaitStep, OutputStep, PTL DEF Spec
-----------------------------------------------------------------------------
(* The builder implements Release. *)

\* The fates of all places, as Release sees them.
Fates == [j \in Jobs |-> Fate(j)]

\* A goroutine that has ended has one of the fates with a name, and may only
\* be spoiled by one of the same target.
FateInv ==
  \A j \in Jobs : Fate(j) # "pending" =>
    /\ Fate(j) \in Promise!Fates \cup {"shared"}
    /\ Fate(j) = "shared" <=> ~Alone(j)

\* That no fate is "lost" is what the invariants of the output say.
LEMMA FateKnown == OutputInv => FateInv
<1> SUFFICES ASSUME OutputInv, NEW j \in Jobs, Fate(j) # "pending"
             PROVE  /\ Fate(j) \in Promise!Fates \cup {"shared"}
                    /\ Fate(j) = "shared" <=> ~Alone(j)
  BY DEF FateInv
<1> USE DEF Fate, Ended
<1>1. j \in Goroutines /\ job[j] \in Ended
  OBVIOUS
<1>2. CASE ~Alone(j)
  BY <1>1, <1>2
<1>3. CASE Alone(j) /\ job[j] = "done"
  BY <1>1, <1>3 DEF OutputInv, Promise!Fates
<1>4. CASE Alone(j) /\ job[j] = "failed"
  BY <1>1, <1>4 DEF OutputInv, Promise!Fates
<1> QED BY <1>1, <1>2, <1>3, <1>4

\* A command line that is accepted names something to build.
LEMMA SomethingToBuild ==
  ASSUME NEW args \in CommandLine, Accepted(args)
  PROVE  /\ BuildTargets(args) # <<>>
         /\ \E n \in 1..MaxTargets : BuildTargets(args) \in [1..n -> Targets]
<1> DEFINE l == BuildTargets(args)
<1>1. l \in Seq(Targets) /\ Len(l) \in 0..MaxTargets
  BY AcceptedTargets
<1>2. l # <<>>
  BY BuilderAssumption DEF BuildTargets
<1>3. Len(l) # 0 /\ l \in [1..Len(l) -> Targets]
  BY <1>1, <1>2, LenProperties, EmptySeq
<1>4. Len(l) \in 1..MaxTargets
  BY <1>1, <1>3, BuilderAssumption
<1> QED BY <1>2, <1>3, <1>4

\* Once main launches there is something to launch, and nothing has failed yet
\* that it would know of.
Planned ==
  /\ main = "launch" => list # <<>>
  /\ Alive => code = 0

\* Only ParseFlags brings main there.
LEMMA PlannedStep ==
  /\ Init => Planned
  /\ Planned /\ [Next]_vars => Planned'
<1>1. Init => Planned
  BY DEF Init, Planned, Alive
<1>2. ASSUME Planned, [Next]_vars PROVE Planned'
  <2>1. CASE ParseFlags
    BY <2>1, <1>2, SomethingToBuild DEF ParseFlags, Planned, Alive
  <2>2. CASE UNCHANGED <<main, code, list>>
    BY <2>2, <1>2 DEF Planned, Alive
  <2>3. CASE Wait \/ Interrupt
    BY <2>3 DEF Wait, Interrupt, Planned, Alive
  <2>4. ASSUME NEW j \in Jobs, Work(j) PROVE UNCHANGED <<main, code, list>>
    BY <2>4, WorkMoves DEF mainVars
  <2> QED BY <1>2, <2>1, <2>2, <2>3, <2>4 DEF Next, Main, Launch, Exited, vars
<1> QED BY <1>1, <1>2

\* The builder starts as a release does.
LEMMA ReleaseInit == Init => Promise!Init
<1> SUFFICES ASSUME Init PROVE Promise!Init
  OBVIOUS
<1>1. \A j \in Jobs : Fate(j) = "pending"
  BY DEF Init, Fate, Ended
<1> QED BY <1>1 DEF Init, Promise!Init, Jobs, Ending, Alive

\* A step of main that ends no goroutine changes no fate.
LEMMA MainKeepsFates ==
  ASSUME TypeOK, UNCHANGED <<list, job, diskVars, built, swallowed>>
  PROVE  Fates' = Fates
BY DEF Fates, Fate, Goroutines, Alone, diskVars

\* A step of a goroutine changes its own fate alone, if it ends it.
LEMMA WorkSettles ==
  ASSUME TypeOK, WaitInv, OutputInv, NEW j \in Jobs, Work(j)
  PROVE  /\ j \in Goroutines
         /\ Fate(j) = "pending"
         /\ \A i \in Jobs : i # j => Fate(i)' = Fate(i)
<1>1. UNCHANGED list /\ job[j] \in Running /\ UNCHANGED mainVars
  BY WorkMoves DEF mainVars
<1>2. j \in Goroutines /\ list[j] \in Targets
  BY <1>1, WorkerLaunched DEF Running
<1>3. Fate(j) = "pending"
  BY <1>1 DEF Fate, Ended, Running
<1>4. ASSUME NEW i \in Jobs, i # j PROVE Fate(i)' = Fate(i)
  <2>1. job'[i] = job[i]
    BY <1>4, WorkMoves DEF Goto, End, TypeOK
  <2>2. UNCHANGED Goroutines /\ Alone(i)' = Alone(i)
    BY <1>1 DEF Goroutines, Alone
  <2>3. CASE i \notin Goroutines \/ job[i] \notin Ended \/ ~Alone(i)
    BY <2>1, <2>2, <2>3 DEF Fate
  <2>4. CASE i \in Goroutines /\ Alone(i)
    <3>1. list[i] # list[j] /\ list[i] \in Targets
      BY <1>2, <1>4, <2>4, ElementOfSeq DEF Alone, TypeOK, Goroutines
    <3>2. /\ dir'[list[i]] = dir[list[i]] /\ archive'[list[i]] = archive[list[i]]
          /\ (i \in built' <=> i \in built) /\ (i \in swallowed' <=> i \in swallowed)
      BY <1>4, <3>1 DEF Work, MakeDir, GoBuild, CreateArchive, WriteArchive, Clean, TypeOK, diskVars
    <3> QED BY <1>1, <2>1, <2>2, <3>2 DEF Fate
  <2> QED BY <2>3, <2>4
<1> QED BY <1>2, <1>3, <1>4

\* Every step of the builder is one of the release, or none.
LEMMA ReleaseStep ==
  ASSUME TypeOK, WaitInv, OutputInv, Planned, FateInv', [Next]_vars
  PROVE  [Promise!Next]_(Promise!vars)
<1> USE DEF diskVars
<1>1. Fates = [j \in Jobs |-> Fate(j)] /\ Fates' = [j \in Jobs |-> Fate(j)']
  BY DEF Fates, Jobs
<1>2. CASE ParseFlags
  <2>1. list = <<>>
    <3>1. list \in Seq(Targets) /\ Len(list) \in Nat /\ 1..Len(list) = {}
      BY <1>2, LenProperties DEF ParseFlags, WaitInv, TypeOK, Goroutines
    <3>2. ~(1 <= Len(list))
      BY <3>1
    <3>3. Len(list) = 0
      BY <3>1, <3>2
    <3> QED BY <3>1, <3>3, EmptySeq
  <2>2. \A j \in Jobs : Fate(j) = "pending" /\ Fate(j)' = "pending"
    BY <1>2 DEF ParseFlags, WaitInv, Fate, Ended, Jobs
  <2>3. Fates' = Fates
    BY <1>1, <2>2
  <2>4. CASE main' = "launch" /\ \E args \in CommandLine :
               Accepted(args) /\ list' = BuildTargets(args)
    <3>1. \E n \in 1..MaxTargets : list' \in [1..n -> Targets]
      BY <2>4, SomethingToBuild
    <3>2. Ending = "no" /\ Ending' = "no"
      BY <1>2, <2>4 DEF ParseFlags, Ending, Alive
    <3> QED BY <1>1, <2>1, <2>3, <3>1, <3>2 DEF Promise!Next, Promise!Begin
  <2>5. CASE main' = "exited" /\ UNCHANGED list
    <3>1. Ending = "no" /\ Ending' = "refused"
      BY <1>2, <2>1, <2>5 DEF ParseFlags, Ending, Alive
    <3> QED BY <1>1, <2>1, <2>3, <2>5, <3>1 DEF Promise!Next, Promise!Refuse
  <2> QED BY <1>2, <2>4, <2>5 DEF ParseFlags
<1>3. CASE Launch
  <2>1. job[launched + 1] = "none" /\ launched + 1 \in Jobs
    BY <1>3, LenProperties, BuilderAssumption DEF Launch, TypeOK, WaitInv, Jobs
  <2>2. \A j \in Jobs : Fate(j)' = Fate(j)
    BY <1>3, <2>1 DEF Launch, Fate, Goroutines, Alone, Ended, TypeOK
  <2> QED BY <1>1, <1>3, <2>2 DEF Launch, Promise!vars, Ending, Alive
<1>4. CASE Wait
  <2>1. Fates' = Fates /\ UNCHANGED list
    BY <1>4, MainKeepsFates DEF Wait
  <2>2. Ending = "no" /\ list # <<>>
    BY <1>4 DEF Wait, Planned, Ending, Alive
  <2>3. \A j \in DOMAIN list : j \in Jobs /\ Fates[j] # "pending"
    <3>1. ASSUME NEW j \in DOMAIN list PROVE j \in Jobs /\ j \in Goroutines
      BY LenProperties, BuilderAssumption DEF TypeOK, Jobs, Goroutines
    <3>2. IsFiniteSet(Jobs) /\ Working \in SUBSET Jobs
      BY FS_Interval, BuilderAssumption DEF Jobs, Working
    <3>3. Working = {}
      BY <1>4, <3>2, FS_Subset, FS_EmptySet DEF Wait, WaitInv
    <3>4. ASSUME NEW j \in DOMAIN list PROVE job[j] \in Ended
      BY <1>4, <3>1, <3>3 DEF Wait, WaitInv, Working, TypeOK, Goroutines, Jobs
    <3>5. ASSUME NEW j \in DOMAIN list PROVE Fate(j) # "pending"
      BY <3>1, <3>4 DEF Fate
    <3> QED BY <1>1, <3>1, <3>5
  <2>4. CASE Ending' = "returned"
    BY <1>1, <2>1, <2>2, <2>3, <2>4 DEF Promise!Next, Promise!Return
  <2>5. Ending' = "returned"
    BY <1>4, <2>1, <2>2 DEF Wait, Planned, Ending, Alive
  <2> QED BY <2>4, <2>5
<1>5. CASE Interrupt
  <2>1. Fates' = Fates /\ UNCHANGED list
    BY <1>5, MainKeepsFates DEF Interrupt
  <2>2. CASE list = <<>>
    <3>1. Ending = "no" /\ Ending' = "refused"
      BY <1>5, <2>1, <2>2 DEF Interrupt, Ending, Alive
    <3> QED BY <1>1, <2>1, <2>2, <3>1 DEF Promise!Next, Promise!Refuse
  <2>3. CASE list # <<>>
    <3>1. Ending = "no" /\ Ending' = "killed"
      BY <1>5, <2>1, <2>3 DEF Interrupt, Ending, Alive
    <3> QED BY <1>1, <2>1, <2>3, <3>1 DEF Promise!Next, Promise!Kill
  <2> QED BY <2>2, <2>3
<1>6. ASSUME NEW j \in Jobs, Work(j) PROVE [Promise!Next]_(Promise!vars)
  <2>1. Alive /\ UNCHANGED mainVars
    BY <1>6, WorkMoves
  <2>2. j \in Goroutines /\ Fate(j) = "pending" /\ \A i \in Jobs : i # j => Fate(i)' = Fate(i)
    BY <1>6, WorkSettles
  <2>3. UNCHANGED list /\ Ending = "no" /\ Ending' = "no"
    BY <2>1 DEF mainVars, Ending, Alive
  <2>4. CASE Fate(j)' = "pending"
    BY <1>1, <2>2, <2>3, <2>4 DEF Promise!vars
  <2>5. CASE Fate(j)' # "pending"
    <3>1. /\ Fate(j)' \in Promise!Fates \cup {"shared"}
          /\ Fate(j)' = "shared" <=> ~Alone(j)'
      BY <2>5 DEF FateInv
    <3>2. Alone(j)' <=> Alone(j)
      BY <2>3 DEF Alone, Goroutines
    <3>3. j \in DOMAIN list /\ DOMAIN list = Goroutines
      BY <2>2, LenProperties DEF TypeOK, Goroutines
    <3>4. Fates' = [Fates EXCEPT ![j] = Fate(j)']
      BY <1>1, <2>2
    <3>5. Promise!Repeated(j) <=> ~Alone(j)
      BY <3>3 DEF Promise!Repeated, Alone
    <3>6. Promise!Settle(j)
      BY <1>1, <2>2, <2>3, <3>1, <3>2, <3>4, <3>5 DEF Promise!Settle
    <3> QED BY <3>3, <3>6 DEF Promise!Next
  <2> QED BY <2>4, <2>5
<1>7. CASE UNCHANGED vars
  <2>1. Fates' = Fates
    BY <1>7, MainKeepsFates DEF vars
  <2> QED BY <1>1, <1>7, <2>1 DEF vars, Promise!vars, Ending, Alive
<1> QED BY <1>2, <1>3, <1>4, <1>5, <1>6, <1>7 DEF Next, Main, Exited

\* The builder keeps the promise of Release, for any targets and any number of
\* goroutines: fates are named, final and of their own goroutine's making, and
\* main returns only over settled ones.
THEOREM BuilderImplementsRelease == Spec => ImplementsRelease
<1>1. Init => TypeOK /\ WaitInv /\ OutputInv /\ Planned
  BY BuilderInit, PlannedStep
<1>2. TypeOK /\ WaitInv /\ OutputInv /\ Planned /\ [Next]_vars
        => TypeOK' /\ WaitInv' /\ OutputInv' /\ Planned'
  BY WaitStep, OutputStep, PlannedStep
<1>3. TypeOK /\ WaitInv /\ OutputInv /\ Planned /\ FateInv' /\ [Next]_vars
        => [Promise!Next]_(Promise!vars)
  BY ReleaseStep
<1>4. Init => Promise!Init
  BY ReleaseInit
<1> QED BY <1>1, <1>2, <1>3, <1>4, FateKnown, PTL DEF Spec, ImplementsRelease, Promise!Spec
==============================================================================
