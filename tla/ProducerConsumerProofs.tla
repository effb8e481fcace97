----------------------- MODULE ProducerConsumerProofs -----------------------
(***************************************************************************)
(* What holds of the producer-consumer experiment for any numbers of       *)
(* threads and implementations, any pattern and any restriction: what is   *)
(* counted in passive phases (LateInv), who empties and fills the bag      *)
(* (RolesInv), what is in it then (DrainInv, FillInv), and the leader's    *)
(* account of the phases (PhasesInv).                                      *)
(***************************************************************************)
EXTENDS ProducerConsumer, TestBenchProofs

\* The experiment does not touch the variables of the bench in
\* RunImplementationNr and returns from it to "finish".
LEMMA StepImplementsBench ==
  ASSUME BenchTypes, [Next]_vars
  PROVE  [BenchNext]_<<bench, pc>>
<1> USE DEF Goto, Outside
<1>0. ASSUME NEW t \in Threads, NEW there PROVE [pc EXCEPT ![t] = there][t] = there
  BY DEF BenchTypes
<1>1. CASE HarnessStep
  BY <1>1 DEF HarnessStep, Prepare, BasePrepare, BenchNext
<1>2. ASSUME NEW t \in Threads, Step(t) PROVE [BenchNext]_<<bench, pc>>
  <2> SUFFICES \/ BenchThreadStep(t) \/ Run(t)
               \/ SeeGo(t, pc'[t]) /\ pc'[t] \notin Outside
    BY DEF BenchNext
  <2>1. CASE Begin(t)
    <3>1. SeeGo(t, "loop")
      BY <2>1 DEF Begin
    <3>2. pc'[t] = "loop"
      BY <3>1, <1>0 DEF SeeGo
    <3> QED BY <3>1, <3>2
  <2>2. ASSUME NEW there, pc[t] \notin Outside, Goto(t, there), UNCHANGED bench,
               there \notin Outside \ {"finish"}
        PROVE  Run(t)
    BY <1>0, <2>2 DEF Run
  <2>3. CASE Loop(t)
    <3>1. CASE Goto(t, IF Phased /\ t = Leader THEN "end_phases" ELSE "save_inserts")
      BY <2>2, <2>3, <3>1 DEF Loop, baseVars
    <3>2. CASE Goto(t, "read_active") \/ Goto(t, "insert")
      BY <2>2, <2>3, <3>2 DEF Loop, baseVars
    <3>3. CASE Goto(t, IF COMM_NR /= 0 /\ do_enq(t) THEN "insert" ELSE "take")
      BY <2>2, <2>3, <3>3 DEF Loop, baseVars
    <3> QED BY <2>3, <3>1, <3>2, <3>3 DEF Loop
  <2>4. CASE ReadActive(t)
    <3>1. CASE active /= 0
      BY <2>2, <2>4, <3>1 DEF ReadActive, baseVars
    <3>2. CASE active = 0 /\ COMM_NR /= 4
      BY <2>2, <2>4, <3>2 DEF ReadActive, baseVars
    <3>3. CASE active = 0 /\ COMM_NR = 4
      BY <2>2, <2>4, <3>3 DEF ReadActive, baseVars
    <3> QED BY <3>1, <3>2, <3>3
  <2>5. CASE Produce(t)
    <3>1. PICK there \in {"deactivate", "loop"} : Goto(t, there)
      BY <2>5 DEF Produce
    <3> QED BY <2>2, <2>5, <3>1 DEF Produce, Insert
  <2>6. CASE Consume(t)
    <3>1. PICK there \in {"deactivate", "loop"} : Goto(t, there)
      BY <2>6 DEF Consume
    <3> QED BY <2>2, <2>6, <3>1 DEF Consume, TryRemove, TryRemoveFails
  <2>7. CASE Drain(t)
    <3>1. PICK there \in {"activate", "loop"} : Goto(t, there)
      BY <2>7 DEF Drain
    <3> QED BY <2>2, <2>7, <3>1 DEF Drain, TryRemove, TryRemoveFails
  <2>8. CASE Prefill(t)
    <3>1. PICK there \in {"activate", "loop"} : Goto(t, there)
      BY <2>8 DEF Prefill
    <3> QED BY <2>2, <2>8, <3>1 DEF Prefill, Insert
  <2>9. CASE Deactivate(t) \/ Activate(t)
    BY <2>2, <2>9 DEF Deactivate, Activate, baseVars
  <2>10. CASE Shift(t) \/ EndPhases(t)
    BY <2>2, <2>10 DEF Shift, EndPhases, baseVars
  <2>11. CASE SaveStatistics(t)
    BY <2>2, <2>11 DEF SaveStatistics, SaveInserts, SaveRemoves
  <2> QED
    BY <1>2, <2>1, <2>3, <2>4, <2>5, <2>6, <2>7, <2>8, <2>9, <2>10, <2>11
       DEF Step
<1>3. CASE UNCHANGED vars
  BY <1>3 DEF vars, baseVars
<1> QED
  BY <1>1, <1>2, <1>3 DEF Next

\* The experiment starts as the bench does.
LEMMA InitImplementsBench == Init => BenchInit
  BY DEF Init, BaseInit

\* The invariant of the bench holds in the experiment.
LEMMA BenchIInvHolds == Spec => []BenchIInv
<1>1. BenchIInv /\ [Next]_vars => BenchIInv'
  BY StepImplementsBench, BenchStepKeepsIInv DEF BenchIInv
<1>2. Init => BenchIInv
  BY InitImplementsBench, InitBenchInv
<1> QED
  BY <1>1, <1>2, PTL DEF Spec

\* The experiment in the bench is the bench with some experiment: whatever is
\* proved of the bench holds of it.
THEOREM ProducerConsumerImplementsBench == Spec => BenchSpec
<1>1. BenchIInv /\ [Next]_vars => [BenchNext]_<<bench, pc>>
  BY StepImplementsBench DEF BenchIInv
<1> QED
  BY <1>1, BenchIInvHolds, InitImplementsBench, PTL DEF Spec, BenchSpec

\* No thread begins before all are there, and the time is taken when all have
\* finished.
THEOREM ProducerConsumerMeasuresAll == Spec => []MeasuresAll
  BY BenchIInvHolds, BenchIInvMeasuresAll, PTL

-----------------------------------------------------------------------------
\* The threads but the leader that do one more counted operation whatever
\* happens to active: they have read it.
Decided == {t \in Started \ {Leader} : pc[t] \in {"insert", "take"}}

LateTypes ==
  /\ active \in {0, 1}
  /\ late \in Nat

\* The leader alone switches phases, and knows which one it is in.
LeaderSwitches ==
  /\ \A t \in Threads :
       pc[t] \in {"prefill", "activate", "deactivate"} => t = Leader
  /\ Phased => \A t \in Threads :
       t = Leader /\ pc[t] \in {"insert", "take", "deactivate"} => active = 1

\* In a passive phase the counted operations, those that are still to come
\* included, are at most as many as there are threads but the leader.
LateBound ==
  /\ late < nrThreads
  /\ Phased /\ active = 0 => late + Cardinality(Decided) < nrThreads

LateInv == LateTypes /\ LeaderSwitches /\ LateBound

-----------------------------------------------------------------------------
\* The deciding threads are at most all but the leader.
LEMMA DecidedBound ==
  ASSUME nrThreads \in NrThreads
  PROVE  /\ IsFiniteSet(Decided)
         /\ Cardinality(Decided) \in Nat
         /\ Leader \in Started => Cardinality(Decided) <= nrThreads - 1
<1>1. Decided \subseteq Started /\ Decided \subseteq Started \ {Leader}
  BY DEF Decided
<1>2. IsFiniteSet(Started) /\ Cardinality(Started) = nrThreads
  BY StartedThreads
<1>3. IsFiniteSet(Decided) /\ Cardinality(Decided) \in Nat
  BY <1>1, <1>2, FS_Subset, FS_CardinalityType
<1>4. CASE Leader \in Started
  <2>1. /\ IsFiniteSet(Started \ {Leader})
        /\ Cardinality(Started \ {Leader}) = nrThreads - 1
    BY <1>2, <1>4, FS_RemoveElement
  <2> QED
    BY <1>1, <1>3, <2>1, FS_Subset
<1> QED
  BY <1>3, <1>4

\* When no thread decides anew, they do not become more.
LEMMA DecidedShrinks ==
  ASSUME nrThreads \in NrThreads, Decided' \subseteq Decided
  PROVE  Cardinality(Decided') \in Nat /\ Cardinality(Decided') <= Cardinality(Decided)
<1>1. IsFiniteSet(Decided')
  BY DecidedBound, FS_Subset
<1> QED
  BY <1>1, DecidedBound, FS_Subset, FS_CardinalityType

\* The bound holds after a step in which active and the count stay as they are
\* and, in a passive phase, no thread decides anew.
LEMMA LateBoundKept ==
  ASSUME LateInv, BenchTypes, UNCHANGED <<COMM_NR, MAX_INSERTS, active, late, nrThreads>>,
         Phased /\ active = 0 => Decided' \subseteq Decided
  PROVE  LateTypes' /\ LateBound'
<1>1. nrThreads \in Nat \ {0} /\ nrThreads \in NrThreads
  BY StartedThreads DEF BenchTypes
<1>2. Phased' = Phased
  BY DEF Phased
<1> QED
  BY <1>1, <1>2, DecidedShrinks, DecidedBound DEF LateInv, LateTypes, LateBound

\* The experiment starts in a passive phase without operations.
LEMMA InitLateInv == Init => LateInv
<1> SUFFICES ASSUME Init PROVE LateInv
  OBVIOUS
<1>1. nrThreads \in NrThreads /\ \A t \in Threads : pc[t] = "none"
  BY DEF Init, BaseInit, BenchInit
<1>2. nrThreads \in Nat \ {0} /\ Started \subseteq Threads
  BY <1>1, StartedThreads
<1>3. Decided = {}
  BY <1>1, <1>2 DEF Decided
<1> QED
  BY <1>1, <1>2, <1>3, FS_EmptySet DEF Init, LateInv, LateTypes, LeaderSwitches, LateBound

\* The harness clears the count before the threads start and leaves the rest.
LEMMA HarnessKeepsLateInv ==
  ASSUME BenchIInv, LateInv, HarnessStep
  PROVE  LateInv'
<1>0. nrThreads \in NrThreads /\ nrThreads \in Nat \ {0} /\ Started \subseteq Threads
  BY StartedThreads DEF BenchIInv, BenchTypes
<1>1. CASE Prepare
  <2>1. /\ \A t \in Threads : pc'[t] = "none"
        /\ UNCHANGED <<COMM_NR, MAX_INSERTS, active, nrThreads>> /\ late' = 0
    BY <1>1 DEF Prepare, BasePrepare, BenchPrepare, BenchIInv, BenchCreation
  <2>2. Decided' = {}
    BY <1>0, <2>1 DEF Decided, Started
  <2> QED
    BY <1>0, <2>1, <2>2, FS_EmptySet DEF LateInv, LateTypes, LeaderSwitches, LateBound
<1>2. CASE BenchHarnessStep /\ UNCHANGED <<bagVars, COMM_NR, MAX_INSERTS, leaderVars,
                                          ins_by_me, late>>
  <2>1. UNCHANGED <<COMM_NR, MAX_INSERTS, active, late, nrThreads>>
    BY <1>2 DEF leaderVars, BenchHarnessStep, Create, Go, Stop, Join, Report
  <2>2. \A t \in Threads : pc'[t] = pc[t] \/ pc'[t] \in {"none", "start"}
    BY <1>2 DEF BenchHarnessStep, Create, Go, Stop, Join, Report, BenchIInv, BenchTypes
  <2>3. Phased' = Phased /\ Leader' = Leader /\ Started' = Started
    BY <2>1 DEF Phased, Leader, COMPAT2CMOD, Started
  <2>4. Decided' \subseteq Decided
    BY <1>0, <2>2, <2>3 DEF Decided
  <2>5. LeaderSwitches'
    BY <2>1, <2>2, <2>3 DEF LateInv, LeaderSwitches
  <2> QED
    BY <2>1, <2>4, <2>5, LateBoundKept DEF LateInv, BenchIInv
<1> QED
  BY <1>1, <1>2 DEF HarnessStep

\* A step in which a thread moves on without a counted operation.
LEMMA MoveKeepsLateInv ==
  ASSUME BenchIInv, LateInv, NEW t \in Threads, NEW there, Goto(t, there),
         UNCHANGED <<COMM_NR, MAX_INSERTS, active, late, nrThreads>>,
         there \in {"prefill", "activate", "deactivate"} => t = Leader,
         Phased /\ there \in {"insert", "take", "deactivate"} => active = 1
  PROVE  LateInv'
<1>0. nrThreads \in NrThreads /\ nrThreads \in Nat \ {0} /\ Started \subseteq Threads
  BY StartedThreads DEF BenchIInv, BenchTypes
<1>1. Phased' = Phased /\ Leader' = Leader /\ Started' = Started
  BY DEF Phased, Leader, COMPAT2CMOD, Started
<1>2. \A u \in Threads : pc'[u] = IF u = t THEN there ELSE pc[u]
  BY DEF Goto, BenchIInv, BenchTypes
<1>3. LateTypes /\ active \in {0, 1}
  BY DEF LateInv, LateTypes
<1>4. Phased /\ active = 0 => Decided' \subseteq Decided
  BY <1>0, <1>1, <1>2 DEF Decided
<1>5. LeaderSwitches'
  BY <1>1, <1>2 DEF LateInv, LeaderSwitches
<1> QED
  BY <1>4, <1>5, LateBoundKept DEF LateInv, BenchIInv

\* A counted operation in a passive phase is one that was decided on.
LEMMA OperationKeepsLateInv ==
  ASSUME BenchIInv, LateInv, NEW t \in Threads, NEW there, Goto(t, there),
         pc[t] \in {"insert", "take"}, CountLate,
         UNCHANGED <<COMM_NR, MAX_INSERTS, active, nrThreads>>,
         there \in {"loop", "deactivate"},
         there = "deactivate" => Phased /\ t = Leader
  PROVE  LateInv'
<1>0. nrThreads \in NrThreads /\ nrThreads \in Nat \ {0} /\ Started \subseteq Threads
  BY StartedThreads DEF BenchIInv, BenchTypes
<1>1. Phased' = Phased /\ Leader' = Leader /\ Started' = Started
  BY DEF Phased, Leader, COMPAT2CMOD, Started
<1>2. \A u \in Threads : pc'[u] = IF u = t THEN there ELSE pc[u]
  BY DEF Goto, BenchIInv, BenchTypes
<1>3. LeaderSwitches'
  BY <1>1, <1>2 DEF LateInv, LeaderSwitches
<1>4. CASE Phased /\ active = 0
  <2>1. t /= Leader /\ t \in Started
    BY <1>4 DEF LateInv, LeaderSwitches, BenchIInv, BenchCreation
  <2>2. t \in Decided /\ Decided' = Decided \ {t}
    BY <1>0, <1>1, <1>2, <2>1 DEF Decided
  <2>3. Cardinality(Decided') = Cardinality(Decided) - 1 /\ Cardinality(Decided') \in Nat
    BY <1>0, <2>2, DecidedBound, DecidedShrinks, FS_RemoveElement
  <2>4. Cardinality(Decided) \in Nat /\ late \in Nat
    BY <1>0, DecidedBound DEF LateInv, LateTypes
  <2>5. late + 1 < nrThreads \/ late + 1 = nrThreads
    BY <1>0, <1>4, <2>3, <2>4 DEF LateInv, LateBound
  <2>6. late' = late + 1
    BY <1>0, <1>4, <2>4, <2>5 DEF CountLate, Min
  <2>7. late + Cardinality(Decided) < nrThreads
    BY <1>4 DEF LateInv, LateBound
  <2> QED
    BY <1>0, <1>3, <2>3, <2>4, <2>6, <2>7 DEF LateInv, LateTypes, LateBound
<1>5. CASE ~(Phased /\ active = 0)
  <2>1. late' = late
    BY <1>5 DEF CountLate
  <2> QED
    BY <1>3, <1>5, <2>1, LateBoundKept DEF LateInv, BenchIInv
<1> QED
  BY <1>4, <1>5

\* When the leader begins or ends the active phase, the others may each have
\* decided on one more operation.
LEMMA SwitchKeepsLateInv ==
  ASSUME BenchIInv, LateInv, NEW there, Leader \in Threads, Goto(Leader, there),
         pc[Leader] /= "none", there \in {"loop", "shift"},
         UNCHANGED <<COMM_NR, MAX_INSERTS, nrThreads>>, active' \in {0, 1}, late' = 0
  PROVE  LateInv'
<1>0. nrThreads \in NrThreads /\ nrThreads \in Nat \ {0} /\ Started \subseteq Threads
  BY StartedThreads DEF BenchIInv, BenchTypes
<1>1. Phased' = Phased /\ Leader' = Leader /\ Started' = Started
  BY DEF Phased, Leader, COMPAT2CMOD, Started
<1>2. \A u \in Threads : pc'[u] = IF u = Leader THEN there ELSE pc[u]
  BY DEF Goto, BenchIInv, BenchTypes
<1>3. Leader \in Started
  BY DEF BenchIInv, BenchCreation
<1>4. Decided' = Decided
  BY <1>0, <1>1, <1>2 DEF Decided
<1>5. LeaderSwitches'
  BY <1>1, <1>2 DEF LateInv, LeaderSwitches
<1> QED
  BY <1>0, <1>3, <1>4, <1>5, DecidedBound DEF LateInv, LateTypes, LateBound

\* Every step of a thread keeps the invariant.
LEMMA ThreadKeepsLateInv ==
  ASSUME BenchIInv, LateInv, NEW t \in Threads, Step(t)
  PROVE  LateInv'
<1> USE DEF bench, bagVars, baseVars, leaderVars
<1>0. active \in {0, 1}
  BY DEF LateInv, LateTypes
<1>1. CASE BenchThreadStep(t) /\ UNCHANGED <<bagVars, COMM_NR, MAX_INSERTS, leaderVars,
                                            ins_by_me, late>>
  <2>1. PICK there \in {"spin", "end_time", "exit"} : Goto(t, there)
    BY <1>1 DEF BenchThreadStep, CountIn, CountOut, WriteEndTime, Goto
  <2> QED
    BY <1>1, <2>1, MoveKeepsLateInv DEF BenchThreadStep, CountIn, CountOut, WriteEndTime
<1>2. CASE Begin(t)
  <2>1. Goto(t, "loop") /\ pc[t] /= "none" /\ UNCHANGED nrThreads
    BY <1>2 DEF Begin, SeeGo, Goto
  <2>2. CASE Phased /\ t = Leader
    BY <1>2, <2>1, <2>2, SwitchKeepsLateInv DEF Begin
  <2>3. CASE ~(Phased /\ t = Leader)
    BY <1>2, <2>1, <2>3, MoveKeepsLateInv DEF Begin
  <2> QED
    BY <2>2, <2>3
<1>3. CASE Loop(t)
  <2>1. COMM_NR = 0 => ~Phased
    BY DEF Phased
  <2>2. PICK there \in {"end_phases", "save_inserts", "read_active", "insert", "take"} :
          Goto(t, there) /\ (Phased => there \notin {"insert", "take"})
    <3>1. CASE Goto(t, IF Phased /\ t = Leader THEN "end_phases" ELSE "save_inserts")
      BY <3>1
    <3>2. CASE Phased /\ Goto(t, "read_active")
      BY <3>2
    <3>3. CASE ~Phased /\ Goto(t, IF COMM_NR /= 0 /\ do_enq(t) THEN "insert" ELSE "take")
      BY <3>3
    <3>4. CASE COMM_NR = 0 /\ Goto(t, "insert")
      BY <3>4, <2>1
    <3> QED BY <1>3, <3>1, <3>2, <3>3, <3>4 DEF Loop
  <2> QED
    BY <1>3, <2>2, MoveKeepsLateInv DEF Loop
<1>4. CASE ReadActive(t)
  <2>1. CASE active /= 0
    <3>1. PICK there \in {"insert", "take"} : Goto(t, there)
      BY <1>4, <2>1 DEF ReadActive
    <3> QED
      BY <1>0, <1>4, <2>1, <3>1, MoveKeepsLateInv DEF ReadActive
  <2>2. CASE active = 0 /\ COMM_NR /= 4
    <3>1. Goto(t, "drain")
      BY <1>4, <2>2 DEF ReadActive
    <3> QED
      BY <1>4, <3>1, MoveKeepsLateInv DEF ReadActive
  <2>3. CASE active = 0 /\ COMM_NR = 4
    <3>1. PICK there \in {"prefill", "loop"} :
            Goto(t, there) /\ (there = "prefill" => t = Leader)
      BY <1>4, <2>3 DEF ReadActive
    <3> QED
      BY <1>4, <3>1, MoveKeepsLateInv DEF ReadActive
  <2> QED
    BY <2>1, <2>2, <2>3
<1>5. CASE Produce(t)
  <2>1. PICK there \in {"loop", "deactivate"} :
          Goto(t, there) /\ (there = "deactivate" => Phased /\ t = Leader)
    BY <1>5 DEF Produce
  <2> QED
    BY <1>5, <2>1, OperationKeepsLateInv DEF Produce, Insert
<1>6. CASE Consume(t)
  <2>1. CASE CountLate /\ Goto(t, "loop")
    BY <1>6, <2>1, OperationKeepsLateInv DEF Consume, TryRemove, TryRemoveFails
  <2>2. CASE UNCHANGED late /\ Goto(t, IF Phased /\ t = Leader THEN "deactivate" ELSE "loop")
    <3>1. PICK there \in {"loop", "deactivate"} :
            Goto(t, there) /\ (there = "deactivate" => Phased /\ t = Leader)
      BY <2>2
    <3>2. there = "deactivate" => active = 1
      BY <1>6, <3>1 DEF Consume, LateInv, LeaderSwitches
    <3> QED
      BY <1>6, <2>2, <3>1, <3>2, MoveKeepsLateInv
         DEF Consume, TryRemove, TryRemoveFails
  <2> QED
    BY <1>6, <2>1, <2>2 DEF Consume
<1>7. CASE Drain(t)
  <2>1. PICK there \in {"activate", "loop"} :
          Goto(t, there) /\ (there = "activate" => t = Leader)
    BY <1>7 DEF Drain
  <2> QED
    BY <1>7, <2>1, MoveKeepsLateInv DEF Drain, TryRemove, TryRemoveFails
<1>8. CASE Prefill(t)
  <2>1. t = Leader
    BY <1>8 DEF Prefill, LateInv, LeaderSwitches
  <2>2. PICK there \in {"activate", "loop"} : Goto(t, there)
    BY <1>8 DEF Prefill
  <2> QED
    BY <1>8, <2>1, <2>2, MoveKeepsLateInv DEF Prefill, Insert
<1>9. CASE Deactivate(t)
  <2>1. t = Leader
    BY <1>9 DEF Deactivate, LateInv, LeaderSwitches
  <2> QED
    BY <1>9, <2>1, SwitchKeepsLateInv DEF Deactivate
<1>10. CASE Activate(t)
  <2>1. t = Leader /\ Goto(t, "shift")
    BY <1>10 DEF Activate, LateInv, LeaderSwitches
  <2> USE <1>10, <2>1
  <2>2. nrThreads \in NrThreads /\ nrThreads \in Nat \ {0} /\ Started \subseteq Threads
    BY StartedThreads DEF BenchIInv, BenchTypes
  <2>3. Phased' = Phased /\ Leader' = Leader /\ Started' = Started
    BY DEF Phased, Leader, COMPAT2CMOD, Started, Activate
  <2>4. \A u \in Threads : pc'[u] = IF u = t THEN "shift" ELSE pc[u]
    BY DEF Goto, BenchIInv, BenchTypes
  <2>5. active' = 1 /\ UNCHANGED <<late, nrThreads>>
    BY DEF Activate
  <2>6. LeaderSwitches'
    BY <2>3, <2>4, <2>5 DEF LateInv, LeaderSwitches
  <2> QED
    BY <2>5, <2>6 DEF LateInv, LateTypes, LateBound
<1>11. CASE Shift(t) \/ EndPhases(t)
  BY <1>11, MoveKeepsLateInv DEF Shift, EndPhases
<1>12. CASE SaveStatistics(t)
  BY <1>12, MoveKeepsLateInv DEF SaveStatistics, SaveInserts, SaveRemoves
<1> QED
  BY <1>1, <1>2, <1>3, <1>4, <1>5, <1>6, <1>7, <1>8, <1>9, <1>10, <1>11, <1>12
     DEF Step

\* In each passive phase at most one operation of each thread but the leader
\* is counted, however the threads interleave with the leader's switches.
THEOREM ProducerConsumerCountsOnlyActive == Spec => []CountsOnlyActive
<1>1. LateInv /\ UNCHANGED vars => LateInv'
  BY DEF LateInv, LateTypes, LeaderSwitches, LateBound, Decided, Phased, Leader,
         COMPAT2CMOD, Started, vars, leaderVars, baseVars, bench
<1>2. BenchIInv /\ LateInv /\ [Next]_vars => LateInv'
  BY <1>1, HarnessKeepsLateInv, ThreadKeepsLateInv DEF Next
<1>3. LateInv => CountsOnlyActive
  BY DEF LateInv, LateBound, CountsOnlyActive
<1> QED
  BY <1>2, <1>3, InitLateInv, BenchIInvHolds, PTL DEF Spec

-----------------------------------------------------------------------------
PhaseTypes ==
  /\ COMM_NR \in Nat /\ MAX_INSERTS \in Nat
  /\ bag \in [Items -> Nat]
  /\ misses \in [Threads -> 0 .. MaxMisses]
  /\ ins_by_me \in [Threads -> Nat]

\* Who gets where: phases are for restricted experiments, switches for the
\* leader, and it empties or fills the collection in passive phases only.
Roles ==
  \A t \in Threads :
    /\ pc[t] \in {"read_active", "drain", "prefill", "deactivate", "activate",
                  "shift", "end_phases"} => Phased
    /\ pc[t] \in {"shift", "end_phases"} => t = Leader
    /\ t = Leader /\ pc[t] \in {"drain", "prefill", "activate"} => active = 0
    /\ pc[t] = "drain" => COMM_NR /= 4
    /\ pc[t] = "prefill" => COMM_NR = 4
    /\ Phased /\ pc[t] = "insert" => do_enq(t)

RolesInv == LateInv /\ PhaseTypes /\ Roles

\* What the user chose stays, and with it who leads and who produces.
LEMMA ChoicesStay ==
  ASSUME [Next]_vars
  PROVE  /\ UNCHANGED <<COMM_NR, MAX_INSERTS, nrThreads>>
         /\ Phased' = Phased /\ Leader' = Leader /\ Started' = Started
         /\ \A t : do_enq(t)' = do_enq(t)
<1>1. UNCHANGED <<COMM_NR, MAX_INSERTS, nrThreads>>
  <2>1. CASE HarnessStep
    BY <2>1 DEF HarnessStep, Prepare, BasePrepare, BenchPrepare, BenchHarnessStep, Create,
                Go, Stop, Join, Report
  <2>2. ASSUME NEW t \in Threads, Step(t)
        PROVE  UNCHANGED <<COMM_NR, MAX_INSERTS, nrThreads>>
    BY <2>2 DEF Step, BenchThreadStep, CountIn, CountOut, WriteEndTime, Begin, SeeGo, Loop,
                ReadActive, Produce, Insert, Consume, TryRemove, TryRemoveFails, Drain,
                Prefill, Deactivate, Activate, Shift, EndPhases, SaveStatistics,
                SaveInserts, SaveRemoves, bench, baseVars
  <2>3. CASE UNCHANGED vars
    BY <2>3 DEF vars, baseVars, bench
  <2> QED
    BY <2>1, <2>2, <2>3 DEF Next
<1>2. Phased' = Phased /\ Leader' = Leader /\ Started' = Started
  BY <1>1 DEF Phased, Leader, COMPAT2CMOD, Started
<1>3. ASSUME NEW t PROVE do_enq(t)' = do_enq(t)
  BY <1>1 DEF do_enq, COMPAT2CMOD, COMPAT2PMOD
<1> QED
  BY <1>1, <1>2, <1>3

\* The experiment starts with an empty bag.
LEMMA InitRoles == Init => RolesInv
<1> SUFFICES ASSUME Init PROVE RolesInv
  OBVIOUS
<1>1. PhaseTypes
  BY BaseAssumption, ProducerConsumerAssumption DEF Init, BaseInit, PhaseTypes
<1>2. Roles
  BY DEF Init, BaseInit, BenchInit, Roles
<1> QED
  BY <1>1, <1>2, InitLateInv DEF RolesInv

\* Counters and the bag stay what they are.
LEMMA StepKeepsTypes ==
  ASSUME BenchIInv, LateInv, PhaseTypes, [Next]_vars
  PROVE  PhaseTypes'
<1> USE DEF PhaseTypes
<1>0. UNCHANGED <<COMM_NR, MAX_INSERTS>>
  BY ChoicesStay
<1>1. CASE HarnessStep
  BY <1>0, <1>1, BaseAssumption DEF HarnessStep, Prepare, BasePrepare, bagVars
<1>2. ASSUME NEW t \in Threads, Step(t) PROVE PhaseTypes'
  <2>1. ASSUME NEW i \in Items, NEW counted, Insert(t, i, counted)
        PROVE  bag' \in [Items -> Nat] /\ misses' \in [Threads -> 0 .. MaxMisses]
    BY <2>1 DEF Insert
  <2>2. ASSUME NEW i \in Items, NEW counted, TryRemove(t, i, counted)
        PROVE  bag' \in [Items -> Nat] /\ misses' \in [Threads -> 0 .. MaxMisses]
    <3>1. bag[i] \in Nat /\ bag[i] > 0 /\ bag' = [bag EXCEPT ![i] = @ - 1]
      BY <2>2 DEF TryRemove
    <3>2. bag[i] - 1 \in Nat
      BY <3>1
    <3>3. bag' \in [Items -> Nat]
      BY <3>1, <3>2
    <3> QED BY <2>2, <3>3 DEF TryRemove
  <2>3. ASSUME TryRemoveFails(t)
        PROVE  bag' \in [Items -> Nat] /\ misses' \in [Threads -> 0 .. MaxMisses]
    <3>1. CASE UNCHANGED misses
      BY <2>3, <3>1 DEF TryRemoveFails
    <3>2. CASE misses[t] < MaxMisses /\ misses' = [misses EXCEPT ![t] = @ + 1]
      <4>1. misses[t] + 1 \in 0 .. MaxMisses
        BY <3>2, BaseAssumption
      <4> QED BY <2>3, <3>2, <4>1 DEF TryRemoveFails
    <3> QED BY <2>3, <3>1, <3>2 DEF TryRemoveFails
  <2>4. OneMore(t) \in [Threads -> Nat]
    <3>1. ins_by_me[t] + 1 \in Nat /\ MAX_INSERTS + 1 \in Nat
      OBVIOUS
    <3>2. Min({ins_by_me[t] + 1, MAX_INSERTS + 1}) \in Nat
      BY <3>1 DEF Min
    <3> QED BY <3>2 DEF OneMore
  <2>5. CASE Produce(t)
    <3>1. bag' \in [Items -> Nat] /\ misses' \in [Threads -> 0 .. MaxMisses]
      BY <2>1, <2>5 DEF Produce
    <3>2. ins_by_me' \in [Threads -> Nat]
      BY <2>4, <2>5 DEF Produce
    <3> QED BY <1>0, <3>1, <3>2
  <2>6. CASE Consume(t)
    BY <1>0, <2>2, <2>3, <2>6 DEF Consume
  <2>7. CASE Drain(t)
    <3>1. bag' \in [Items -> Nat] /\ misses' \in [Threads -> 0 .. MaxMisses]
      BY <2>2, <2>3, <2>7 DEF Drain
    <3>2. ins_by_me' \in [Threads -> Nat]
      <4>1. \E n \in {0, ins_by_me[t] + 1} : ins_by_me' = [ins_by_me EXCEPT ![t] = n]
        BY <2>7 DEF Drain
      <4>2. ins_by_me[t] + 1 \in Nat
        OBVIOUS
      <4> QED BY <4>1, <4>2
    <3> QED BY <1>0, <3>1, <3>2
  <2>8. CASE Prefill(t)
    <3>1. bag' \in [Items -> Nat] /\ misses' \in [Threads -> 0 .. MaxMisses]
      BY <2>1, <2>8 DEF Prefill
    <3> QED BY <1>0, <2>4, <2>8, <3>1 DEF Prefill
  <2>9. CASE Deactivate(t) \/ Activate(t)
    BY <1>0, <2>9 DEF Deactivate, Activate, baseVars, bagVars
  <2>10. CASE \/ Begin(t) \/ Loop(t) \/ ReadActive(t) \/ Shift(t) \/ EndPhases(t)
              \/ SaveStatistics(t)
              \/ BenchThreadStep(t) /\ UNCHANGED <<bagVars, ins_by_me>>
    BY <1>0, <2>10 DEF Begin, Loop, ReadActive, Shift, EndPhases, SaveStatistics,
                       SaveInserts, SaveRemoves, baseVars, bagVars
  <2> QED
    BY <1>2, <2>5, <2>6, <2>7, <2>8, <2>9, <2>10 DEF Step
<1>3. CASE UNCHANGED vars
  BY <1>0, <1>3 DEF vars, baseVars, bagVars
<1> QED
  BY <1>1, <1>2, <1>3 DEF Next

\* A step in which a thread moves on to where it may be.
LEMMA MoveKeepsRoles ==
  ASSUME BenchTypes, Roles, [Next]_vars, NEW t \in Threads, NEW there, Goto(t, there),
         active' = active \/ (t = Leader /\ there \in {"loop", "shift"}),
         there \in {"read_active", "drain", "prefill", "deactivate", "activate",
                    "shift", "end_phases"} => Phased,
         there \in {"shift", "end_phases"} => t = Leader,
         t = Leader /\ there \in {"drain", "prefill", "activate"} => active = 0,
         there = "drain" => COMM_NR /= 4,
         there = "prefill" => COMM_NR = 4,
         Phased /\ there = "insert" => do_enq(t)
  PROVE  Roles'
<1>1. \A u \in Threads : pc'[u] = IF u = t THEN there ELSE pc[u]
  BY DEF Goto, BenchTypes
<1>2. /\ UNCHANGED <<COMM_NR, MAX_INSERTS>> /\ Phased' = Phased /\ Leader' = Leader
      /\ \A u : do_enq(u)' = do_enq(u)
  BY ChoicesStay
<1> QED
  BY <1>1, <1>2 DEF Roles

\* Every step keeps the roles.
LEMMA StepKeepsRoles ==
  ASSUME BenchIInv, RolesInv, [Next]_vars
  PROVE  Roles'
<1> USE DEF RolesInv, BenchIInv
<1>0. active \in {0, 1} /\ (COMM_NR = 0 => ~Phased)
  BY DEF LateInv, LateTypes, Phased
<1>1. /\ UNCHANGED <<COMM_NR, MAX_INSERTS>> /\ Phased' = Phased /\ Leader' = Leader
      /\ \A u : do_enq(u)' = do_enq(u)
  BY ChoicesStay
<1>2. CASE UNCHANGED <<pc, active>>
  BY <1>1, <1>2 DEF Roles
<1>3. CASE HarnessStep
  <2>1. active' = active
    BY <1>3 DEF HarnessStep, Prepare, leaderVars
  <2>2. \A t \in Threads : pc'[t] = pc[t] \/ pc'[t] \in {"none", "start"}
    BY <1>3 DEF HarnessStep, Prepare, BasePrepare, BenchPrepare, BenchHarnessStep, Create,
                Go, Stop, Join, Report, BenchTypes
  <2> QED
    BY <1>1, <2>1, <2>2 DEF Roles
<1>4. ASSUME NEW t \in Threads, Step(t) PROVE Roles'
  <2>1. CASE BenchThreadStep(t) /\ UNCHANGED leaderVars
    <3>1. PICK there \in {"spin", "end_time", "exit"} : Goto(t, there)
      BY <2>1 DEF BenchThreadStep, CountIn, CountOut, WriteEndTime, Goto
    <3> QED
      BY <2>1, <3>1, MoveKeepsRoles DEF leaderVars
  <2>2. CASE Begin(t)
    <3>1. Goto(t, "loop") /\ (active' = active \/ t = Leader)
      BY <2>2 DEF Begin, SeeGo, Goto
    <3> QED
      BY <3>1, MoveKeepsRoles
  <2>3. CASE Loop(t)
    <3>0. active' = active
      BY <2>3 DEF Loop, leaderVars
    <3>1. CASE Goto(t, IF Phased /\ t = Leader THEN "end_phases" ELSE "save_inserts")
      <4>1. CASE Phased /\ t = Leader
        BY <3>0, <3>1, <4>1, MoveKeepsRoles
      <4>2. CASE ~(Phased /\ t = Leader)
        BY <3>0, <3>1, <4>2, MoveKeepsRoles
      <4> QED BY <4>1, <4>2
    <3>2. CASE Phased /\ Goto(t, "read_active")
      BY <3>0, <3>2, MoveKeepsRoles
    <3>3. CASE ~Phased /\ Goto(t, IF COMM_NR /= 0 /\ do_enq(t) THEN "insert" ELSE "take")
      <4>1. PICK there \in {"insert", "take"} : Goto(t, there)
        BY <3>3
      <4> QED BY <3>0, <3>3, <4>1, MoveKeepsRoles
    <3>4. CASE COMM_NR = 0 /\ Goto(t, "insert")
      BY <1>0, <3>0, <3>4, MoveKeepsRoles
    <3> QED BY <2>3, <3>1, <3>2, <3>3, <3>4 DEF Loop
  <2>4. CASE ReadActive(t)
    <3>0. Phased /\ active' = active
      BY <2>4 DEF ReadActive, Roles, leaderVars
    <3>1. CASE active /= 0
      <4>1. Goto(t, IF do_enq(t) THEN "insert" ELSE "take")
        BY <2>4, <3>1 DEF ReadActive
      <4>2. CASE do_enq(t)
        BY <3>0, <4>1, <4>2, MoveKeepsRoles
      <4>3. CASE ~do_enq(t)
        BY <3>0, <4>1, <4>3, MoveKeepsRoles
      <4> QED BY <4>2, <4>3
    <3>2. CASE active = 0 /\ COMM_NR /= 4
      <4>1. Goto(t, "drain")
        BY <2>4, <3>2 DEF ReadActive
      <4> QED BY <3>0, <3>2, <4>1, MoveKeepsRoles
    <3>3. CASE active = 0 /\ COMM_NR = 4
      <4>1. PICK there \in {"prefill", "loop"} : Goto(t, there)
        BY <2>4, <3>3 DEF ReadActive
      <4> QED BY <3>0, <3>3, <4>1, MoveKeepsRoles
    <3> QED BY <3>1, <3>2, <3>3
  <2>5. CASE Produce(t) \/ Consume(t)
    <3>1. active' = active
      BY <2>5 DEF Produce, Consume, leaderVars
    <3>2. PICK there \in {"loop", "deactivate"} :
            Goto(t, there) /\ (there = "deactivate" => Phased)
      BY <2>5 DEF Produce, Consume
    <3> QED BY <3>1, <3>2, MoveKeepsRoles
  <2>6. CASE Drain(t) \/ Prefill(t)
    <3>1. active' = active /\ Phased
      BY <2>6 DEF Drain, Prefill, leaderVars, Roles
    <3>2. PICK there \in {"loop", "activate"} : Goto(t, there)
      BY <2>6 DEF Drain, Prefill
    <3>3. t = Leader => active = 0
      BY <2>6 DEF Drain, Prefill, Roles
    <3> QED BY <3>1, <3>2, <3>3, MoveKeepsRoles
  <2>7. CASE Deactivate(t) \/ Activate(t)
    <3>1. t = Leader /\ Phased
      BY <2>7 DEF Deactivate, Activate, Roles, LateInv, LeaderSwitches
    <3>2. Goto(t, "shift")
      BY <2>7 DEF Deactivate, Activate
    <3> QED BY <3>1, <3>2, MoveKeepsRoles
  <2>8. CASE Shift(t) \/ EndPhases(t)
    <3>1. PICK there \in {"loop", "save_inserts"} : Goto(t, there)
      BY <2>8 DEF Shift, EndPhases
    <3>2. active' = active
      BY <2>8 DEF Shift, EndPhases
    <3> QED BY <3>1, <3>2, MoveKeepsRoles
  <2>9. CASE SaveStatistics(t)
    <3>1. PICK there \in {"save_removes", "finish"} : Goto(t, there)
      BY <2>9 DEF SaveStatistics, SaveInserts, SaveRemoves
    <3>2. active' = active
      BY <2>9 DEF SaveStatistics, leaderVars
    <3> QED BY <3>1, <3>2, MoveKeepsRoles
  <2> QED
    BY <1>4, <2>1, <2>2, <2>3, <2>4, <2>5, <2>6, <2>7, <2>8, <2>9 DEF Step
<1> QED
  BY <1>2, <1>3, <1>4 DEF Next, vars, leaderVars

\* All of this holds throughout.
LEMMA RolesInvHolds == Spec => []RolesInv
<1>1. LateInv /\ UNCHANGED vars => LateInv'
  BY DEF LateInv, LateTypes, LeaderSwitches, LateBound, Decided, Phased, Leader,
         COMPAT2CMOD, Started, vars, leaderVars, baseVars, bench
<1>2. BenchIInv /\ RolesInv /\ [Next]_vars => RolesInv'
  BY <1>1, HarnessKeepsLateInv, ThreadKeepsLateInv, StepKeepsTypes, StepKeepsRoles
     DEF Next, RolesInv
<1> QED
  BY <1>2, InitRoles, BenchIInvHolds, PTL DEF Spec

-----------------------------------------------------------------------------
\* The size of the bag is a number, and zero when it is empty.
LEMMA BagSizes ==
  ASSUME PhaseTypes
  PROVE  /\ BagSize \in Nat
         /\ BagIsEmpty <=> BagSize = 0
         /\ bag' = bag => BagSize' = BagSize
<1>1. IsFiniteSet(Items) /\ bag \in [Items -> Nat]
  BY BaseAssumption DEF PhaseTypes
<1>2. BagSize \in Nat /\ (BagIsEmpty <=> BagSize = 0)
  BY <1>1, SumType, SumZero DEF BagSize, BagIsEmpty
<1> QED
  BY <1>2 DEF BagSize

\* It grows with what is put in and shrinks with what is taken out.
LEMMA InsertSize ==
  ASSUME PhaseTypes, NEW t, NEW i \in Items, NEW counted, Insert(t, i, counted)
  PROVE  BagSize' = BagSize + 1
<1>1. IsFiniteSet(Items) /\ bag \in [Items -> Nat]
  BY BaseAssumption DEF PhaseTypes
<1>2. bag' = [bag EXCEPT ![i] = @ + 1]
  BY DEF Insert
<1> QED
  BY <1>1, <1>2, SumOneMore DEF BagSize

LEMMA RemoveSize ==
  ASSUME PhaseTypes, NEW t, NEW i \in Items, NEW counted, TryRemove(t, i, counted)
  PROVE  BagSize' + 1 = BagSize
<1>1. IsFiniteSet(Items) /\ bag \in [Items -> Nat]
  BY BaseAssumption DEF PhaseTypes
<1>2. bag' = [bag EXCEPT ![i] = @ - 1] /\ bag[i] > 0
  BY DEF TryRemove
<1> QED
  BY <1>1, <1>2, SumOneLess DEF BagSize

\* The producers but the leader that put one more item into the bag whatever
\* happens to active.
Inserting == {u \in Started \ {Leader} : pc[u] = "insert"}

\* Each attempt of the leader that found the bag empty, and did not only miss
\* what is there, shows that there is no more in it, and to come, than what
\* the producers had decided on; and when it has made all attempts, one of
\* them did.
DrainInv ==
  Phased /\ COMM_NR /= 4 /\ Leader \in Started =>
    /\ active = 0 /\ ins_by_me[Leader] > misses[Leader] =>
         BagSize + Cardinality(Inserting) <= Cardinality(Producers \ {Leader})
    /\ pc[Leader] = "activate" => ins_by_me[Leader] = EmptyChecks

\* Those who insert are producers.
LEMMA InsertingBound ==
  ASSUME nrThreads \in NrThreads
  PROVE  /\ IsFiniteSet(Inserting)
         /\ Cardinality(Inserting) \in Nat
         /\ Cardinality(Producers \ {Leader}) \in Nat
         /\ Roles /\ Phased =>
              Cardinality(Inserting) <= Cardinality(Producers \ {Leader})
<1>1. IsFiniteSet(Started) /\ Started \subseteq Threads
  BY StartedThreads
<1>2. Inserting \subseteq Started /\ Producers \ {Leader} \subseteq Started
  BY DEF Inserting, Producers
<1>3. /\ IsFiniteSet(Inserting) /\ IsFiniteSet(Producers \ {Leader})
      /\ Cardinality(Inserting) \in Nat /\ Cardinality(Producers \ {Leader}) \in Nat
  BY <1>1, <1>2, FS_Subset, FS_CardinalityType
<1>4. ASSUME Roles, Phased PROVE Inserting \subseteq Producers \ {Leader}
  BY <1>1, <1>4 DEF Roles, Inserting, Producers
<1>5. ASSUME Roles, Phased
      PROVE  Cardinality(Inserting) <= Cardinality(Producers \ {Leader})
  BY <1>3, <1>4, <1>5, FS_Subset
<1> QED
  BY <1>3, <1>5

\* When no thread goes to insert, they do not become more.
LEMMA InsertingShrinks ==
  ASSUME nrThreads \in NrThreads, [Next]_vars,
         \A u \in Threads : pc'[u] = "insert" => pc[u] = "insert"
  PROVE  /\ Cardinality(Inserting') \in Nat
         /\ Cardinality(Inserting') <= Cardinality(Inserting)
<1>1. Inserting' \subseteq Inserting
  BY ChoicesStay, StartedThreads DEF Inserting
<1>2. IsFiniteSet(Inserting')
  BY <1>1, InsertingBound, FS_Subset
<1> QED
  BY <1>1, <1>2, InsertingBound, FS_Subset, FS_CardinalityType

\* Who has nothing to do with the leader's attempts keeps what they show.
LEMMA DrainKept ==
  ASSUME BenchIInv, RolesInv, DrainInv, [Next]_vars,
         Leader \in Started =>
           /\ ins_by_me'[Leader] = ins_by_me[Leader]
           /\ misses'[Leader] = misses[Leader]
           /\ pc'[Leader] = "activate" => pc[Leader] = "activate",
         active' = 0 => active = 0,
         Phased /\ COMM_NR /= 4 /\ active' = 0 =>
           BagSize' + Cardinality(Inserting') <= BagSize + Cardinality(Inserting)
  PROVE  DrainInv'
<1>1. /\ UNCHANGED COMM_NR /\ Phased' = Phased /\ Leader' = Leader /\ Started' = Started
      /\ Producers' = Producers
  BY ChoicesStay DEF Producers
<1>2. nrThreads \in NrThreads /\ nrThreads' \in NrThreads
  BY ChoicesStay DEF BenchIInv, BenchTypes
<1>3. Cardinality(Producers \ {Leader}) \in Nat /\ Cardinality(Inserting) \in Nat
  BY <1>2, InsertingBound
<1>4. BagSize \in Nat
  BY BagSizes DEF RolesInv
<1>5. Cardinality(Inserting') \in Nat
  <2>1. Inserting' \subseteq Started
    BY <1>1 DEF Inserting
  <2> QED BY <1>2, <2>1, StartedThreads, FS_Subset, FS_CardinalityType
<1>6. BagSize' \in Nat
  <2>1. PhaseTypes'
    BY StepKeepsTypes DEF RolesInv
  <2>2. bag' \in [Items -> Nat] /\ IsFiniteSet(Items)
    BY <2>1, BaseAssumption DEF PhaseTypes
  <2> QED BY <2>2, SumType DEF BagSize
<1>7. ASSUME Phased, COMM_NR /= 4, Leader \in Started
      PROVE  /\ active' = 0 /\ ins_by_me'[Leader] > misses'[Leader] =>
                  BagSize' + Cardinality(Inserting') <= Cardinality(Producers \ {Leader})
             /\ pc'[Leader] = "activate" => ins_by_me'[Leader] = EmptyChecks
  BY <1>3, <1>4, <1>5, <1>6, <1>7 DEF DrainInv
<1> QED
  BY <1>1, <1>7 DEF DrainInv

\* A thread that moves on and has not just decided to insert in a passive
\* phase.
LEMMA MoveKeepsDrain ==
  ASSUME BenchIInv, RolesInv, DrainInv, [Next]_vars, NEW t \in Threads, NEW there,
         Goto(t, there), UNCHANGED <<bag, misses, ins_by_me>>,
         active' = 0 => active = 0, there /= "activate",
         there = "insert" => ~Phased \/ active' /= 0
  PROVE  DrainInv'
<1>1. \A u \in Threads : pc'[u] = IF u = t THEN there ELSE pc[u]
  BY DEF Goto, BenchIInv, BenchTypes
<1>2. nrThreads \in NrThreads /\ Started \subseteq Threads
  BY StartedThreads DEF BenchIInv, BenchTypes
<1>3. BagSize' = BagSize /\ BagSize \in Nat
  BY BagSizes DEF RolesInv
<1>4. ASSUME Phased, active' = 0
      PROVE  BagSize' + Cardinality(Inserting') <= BagSize + Cardinality(Inserting)
  <2>1. \A u \in Threads : pc'[u] = "insert" => pc[u] = "insert"
    BY <1>1, <1>4
  <2> QED
    BY <1>2, <1>3, <2>1, InsertingShrinks, InsertingBound
<1>5. Leader \in Started => (pc'[Leader] = "activate" => pc[Leader] = "activate")
  BY <1>1, <1>2
<1> QED
  BY <1>4, <1>5, DrainKept

\* Before the threads start the leader has made no attempt.
LEMMA InitDrainInv == Init => DrainInv
<1> SUFFICES ASSUME Init PROVE DrainInv
  OBVIOUS
<1>1. nrThreads \in NrThreads /\ Started \subseteq Threads
  BY StartedThreads DEF Init, BaseInit, BenchInit
<1>2. \A t \in Threads : ins_by_me[t] = 0 /\ misses[t] = 0 /\ pc[t] = "none"
  BY DEF Init, BaseInit, BenchInit
<1> QED
  BY <1>1, <1>2 DEF DrainInv

\* The steps in which the leader attempts to empty the collection.
LEMMA LeaderDrains ==
  ASSUME BenchIInv, RolesInv, DrainInv, [Next]_vars, Leader \in Threads, Drain(Leader)
  PROVE  DrainInv'
<1> USE DEF RolesInv, BenchIInv
<1>0. /\ nrThreads \in NrThreads /\ Started \subseteq Threads /\ Leader \in Started
      /\ Phased /\ COMM_NR /= 4
  BY StartedThreads DEF BenchTypes, BenchCreation, Drain, Roles
<1>1. /\ UNCHANGED COMM_NR /\ Phased' = Phased /\ Leader' = Leader /\ Started' = Started
      /\ Producers' = Producers
  BY ChoicesStay DEF Producers
<1>2. PICK there \in {"loop", "activate"} : Goto(Leader, there)
  BY DEF Drain
<1>3. \A u \in Threads : pc'[u] = IF u = Leader THEN there ELSE pc[u]
  BY <1>2 DEF Goto, BenchTypes
<1>4. PICK n \in {0, ins_by_me[Leader] + 1} :
        ins_by_me' = [ins_by_me EXCEPT ![Leader] = n]
  BY DEF Drain
<1>5. ins_by_me'[Leader] = n
  BY <1>4 DEF PhaseTypes
<1>6. there = "activate" => n = EmptyChecks
  BY <1>2, <1>3, <1>5 DEF Drain, Goto
<1>7. Inserting' = Inserting
  BY <1>0, <1>1, <1>3 DEF Inserting
<1>8. misses[Leader] \in Nat /\ misses'[Leader] \in Nat /\ ins_by_me[Leader] \in Nat
  BY BaseAssumption, StepKeepsTypes DEF PhaseTypes
<1>9. /\ Cardinality(Inserting) \in Nat /\ Cardinality(Producers \ {Leader}) \in Nat
      /\ Cardinality(Inserting) <= Cardinality(Producers \ {Leader})
  BY <1>0, InsertingBound
<1>10. active' = active
  BY DEF Drain, leaderVars
<1>11. ASSUME active' = 0, n > misses'[Leader]
       PROVE  BagSize' + Cardinality(Inserting') <= Cardinality(Producers' \ {Leader'})
  <2>1. CASE \E i \in Items : TryRemove(Leader, i, FALSE)
    <3>1. misses' = misses
      BY <2>1 DEF TryRemove
    <3>2. n = ins_by_me[Leader] + 1 /\ n /= 0
      BY <1>8, <1>11, <3>1
    <3>3. ~(ins_by_me' = [ins_by_me EXCEPT ![Leader] = 0])
      BY <1>5, <3>2 DEF PhaseTypes
    <3>4. TryRemoveFails(Leader)
      BY <3>3 DEF Drain
    <3>5. bag' = bag /\ ~BagIsEmpty
      BY <2>1, <3>4 DEF TryRemoveFails, TryRemove, BagIsEmpty
    <3>6. PICK i \in Items : TryRemove(Leader, i, FALSE)
      BY <2>1
    <3>7. BagSize' + 1 = BagSize /\ BagSize' = BagSize /\ BagSize \in Nat
      BY <3>5, <3>6, RemoveSize, BagSizes
    <3> QED BY <3>7
  <2>2. CASE TryRemoveFails(Leader) /\ BagIsEmpty
    <3>1. BagSize' = 0
      BY <2>2, BagSizes DEF TryRemoveFails
    <3> QED BY <1>1, <1>7, <1>9, <3>1
  <2>3. CASE TryRemoveFails(Leader) /\ ~BagIsEmpty
    <3>1. misses' = [misses EXCEPT ![Leader] = @ + 1] /\ bag' = bag
      BY <2>3 DEF TryRemoveFails
    <3>2. misses'[Leader] = misses[Leader] + 1
      BY <3>1 DEF PhaseTypes
    <3>3. ins_by_me[Leader] > misses[Leader]
      BY <1>8, <1>11, <3>2
    <3>4. BagSize + Cardinality(Inserting) <= Cardinality(Producers \ {Leader})
      BY <1>0, <1>10, <1>11, <3>3 DEF DrainInv
    <3> QED BY <1>1, <1>7, <3>1, <3>4, BagSizes
  <2> QED
    BY <2>1, <2>2, <2>3 DEF Drain
<1> QED
  BY <1>1, <1>3, <1>5, <1>6, <1>11 DEF DrainInv

\* An attempt to remove does not make more of what is there and to come.
LEMMA LessThere ==
  ASSUME NEW size \in Nat, NEW left \in Nat, left + 1 = size \/ left = size,
         NEW n \in Nat, NEW m \in Nat, m <= n
  PROVE  left + m <= size + n
  OBVIOUS

\* Every step keeps what the leader's attempts show.
LEMMA StepKeepsDrain ==
  ASSUME BenchIInv, RolesInv, DrainInv, [Next]_vars
  PROVE  DrainInv'
<1> USE DEF RolesInv, BenchIInv
<1>0. nrThreads \in NrThreads /\ Started \subseteq Threads /\ active \in {0, 1}
  BY StartedThreads DEF BenchTypes, LateInv, LateTypes
<1>1. /\ UNCHANGED COMM_NR /\ Phased' = Phased /\ Leader' = Leader /\ Started' = Started
      /\ Producers' = Producers
  BY ChoicesStay DEF Producers
<1>2. BagSize \in Nat /\ Cardinality(Inserting) \in Nat
  BY <1>0, BagSizes, InsertingBound
<1>3. ASSUME UNCHANGED <<pc, active, bag, misses, ins_by_me>> PROVE DrainInv'
  <2>1. Inserting' = Inserting /\ BagSize' = BagSize
    BY <1>1, <1>3, BagSizes DEF Inserting
  <2> QED BY <1>2, <1>3, <2>1, DrainKept
<1>4. CASE Prepare
  <2>1. \A t \in Threads : ins_by_me'[t] = 0 /\ misses'[t] = 0 /\ pc'[t] = "none"
    BY <1>4 DEF Prepare, BasePrepare, BenchPrepare, BenchCreation
  <2> QED BY <1>0, <1>1, <2>1 DEF DrainInv
<1>5. CASE BenchHarnessStep /\ UNCHANGED <<bagVars, leaderVars, ins_by_me>>
  <2>1. \A t \in Threads : pc'[t] = pc[t] \/ pc'[t] \in {"none", "start"}
    BY <1>5 DEF BenchHarnessStep, Create, Go, Stop, Join, Report, BenchTypes
  <2>2. Cardinality(Inserting') \in Nat /\ Cardinality(Inserting') <= Cardinality(Inserting)
    BY <1>0, <2>1, InsertingShrinks
  <2>3. BagSize' = BagSize /\ UNCHANGED <<misses, active, ins_by_me>>
    BY <1>5, BagSizes DEF bagVars, leaderVars
  <2>4. BagSize' + Cardinality(Inserting') <= BagSize + Cardinality(Inserting)
    BY <1>2, <2>2, <2>3
  <2>5. Leader \in Started => (pc'[Leader] = "activate" => pc[Leader] = "activate")
    BY <1>0, <2>1
  <2> QED BY <2>3, <2>4, <2>5, DrainKept
<1>6. ASSUME NEW t \in Threads, Step(t) PROVE DrainInv'
  <2>0. pc[t] /= "none" => t \in Started
    BY DEF BenchCreation
  <2>1. CASE BenchThreadStep(t) /\ UNCHANGED <<bagVars, leaderVars, ins_by_me>>
    <3>1. PICK there \in {"spin", "end_time", "exit"} : Goto(t, there)
      BY <2>1 DEF BenchThreadStep, CountIn, CountOut, WriteEndTime, Goto
    <3> QED BY <2>1, <3>1, MoveKeepsDrain DEF bagVars, leaderVars
  <2>2. CASE Begin(t)
    <3>1. Goto(t, "loop") /\ UNCHANGED <<bag, misses, ins_by_me>>
      BY <2>2 DEF Begin, SeeGo, Goto, bagVars
    <3>2. CASE ~(Phased /\ t = Leader)
      BY <2>2, <3>1, <3>2, MoveKeepsDrain DEF Begin
    <3>3. CASE Phased /\ t = Leader /\ COMM_NR /= 4
      <4>1. active' = 1
        BY <2>2, <3>3 DEF Begin
      <4> QED BY <3>1, <4>1, MoveKeepsDrain
    <3>4. CASE COMM_NR = 4
      BY <1>1, <3>4 DEF DrainInv
    <3> QED BY <3>2, <3>3, <3>4
  <2>3. CASE Loop(t)
    <3>1. UNCHANGED <<bag, misses, active, ins_by_me>>
      BY <2>3 DEF Loop, baseVars, bagVars, leaderVars
    <3>2. PICK there \in {"end_phases", "save_inserts", "read_active", "insert", "take"} :
            Goto(t, there) /\ (Phased => there /= "insert")
      <4>1. CASE Goto(t, IF Phased /\ t = Leader THEN "end_phases" ELSE "save_inserts")
        BY <4>1
      <4>2. CASE Phased /\ Goto(t, "read_active")
        BY <4>2
      <4>3. CASE ~Phased /\ Goto(t, IF COMM_NR /= 0 /\ do_enq(t) THEN "insert" ELSE "take")
        BY <4>3
      <4>4. CASE COMM_NR = 0 /\ Goto(t, "insert")
        BY <4>4 DEF Phased
      <4> QED BY <2>3, <4>1, <4>2, <4>3, <4>4 DEF Loop
    <3> QED BY <3>1, <3>2, MoveKeepsDrain
  <2>4. CASE ReadActive(t)
    <3>1. UNCHANGED <<bag, misses, active, ins_by_me>>
      BY <2>4 DEF ReadActive, baseVars, bagVars, leaderVars
    <3>2. CASE active /= 0
      <4>1. PICK there \in {"insert", "take"} : Goto(t, there)
        BY <2>4, <3>2 DEF ReadActive
      <4> QED BY <3>1, <3>2, <4>1, MoveKeepsDrain
    <3>3. CASE active = 0 /\ COMM_NR /= 4
      <4>1. Goto(t, "drain")
        BY <2>4, <3>3 DEF ReadActive
      <4> QED BY <3>1, <4>1, MoveKeepsDrain
    <3>4. CASE COMM_NR = 4
      BY <1>1, <3>4 DEF DrainInv
    <3> QED BY <3>2, <3>3, <3>4
  <2>5. CASE Produce(t)
    <3>1. PICK i \in Items : Insert(t, i, TRUE)
      BY <2>5 DEF Produce
    <3>2. BagSize' = BagSize + 1 /\ UNCHANGED <<misses, active>>
      BY <2>5, <3>1, InsertSize DEF Produce, Insert, leaderVars
    <3>3. PICK there \in {"loop", "deactivate"} : Goto(t, there)
      BY <2>5 DEF Produce
    <3>4. \A u \in Threads : pc'[u] = IF u = t THEN there ELSE pc[u]
      BY <3>3 DEF Goto, BenchTypes
    <3>5. CASE Phased /\ active = 0
      <4>1. t \in Started /\ t /= Leader
        BY <2>0, <2>5, <3>5 DEF Produce, LateInv, LeaderSwitches
      <4>2. t \in Inserting /\ Inserting' = Inserting \ {t}
        BY <1>0, <1>1, <2>5, <3>4, <4>1 DEF Inserting, Produce
      <4>3. Cardinality(Inserting') = Cardinality(Inserting) - 1
        BY <1>0, <4>2, InsertingBound, FS_RemoveElement
      <4>4. Leader \in Started => ins_by_me'[Leader] = ins_by_me[Leader]
        BY <1>0, <2>5, <3>5, <4>1 DEF Produce, OneMore, PhaseTypes
      <4>5. Leader \in Started => (pc'[Leader] = "activate" => pc[Leader] = "activate")
        BY <1>0, <3>4
      <4>6. BagSize' + Cardinality(Inserting') <= BagSize + Cardinality(Inserting)
        BY <1>2, <3>2, <4>3
      <4> QED BY <3>2, <4>4, <4>5, <4>6, DrainKept
    <3>6. CASE ~Phased
      BY <1>1, <3>6 DEF DrainInv
    <3>7. CASE Phased /\ active = 1 /\ Leader \in Started
      <4>1. active' = 1
        BY <3>2, <3>7
      <4>2. CASE t = Leader
        BY <1>0, <1>1, <3>4, <4>1, <4>2 DEF DrainInv
      <4>3. CASE t /= Leader
        <5>1. ins_by_me'[Leader] = ins_by_me[Leader]
          BY <1>0, <2>5, <3>7, <4>3 DEF Produce, OneMore, PhaseTypes
        <5>2. pc'[Leader] = pc[Leader]
          BY <1>0, <3>4, <3>7, <4>3
        <5> QED BY <1>1, <3>7, <4>1, <5>1, <5>2 DEF DrainInv
      <4> QED BY <4>2, <4>3
    <3>8. CASE Leader \notin Started
      BY <1>1, <3>8 DEF DrainInv
    <3> QED BY <1>0, <3>5, <3>6, <3>7, <3>8
  <2>6. CASE Consume(t)
    <3>1. UNCHANGED <<active, ins_by_me>>
      BY <2>6 DEF Consume, leaderVars
    <3>2. PICK there \in {"loop", "deactivate"} : Goto(t, there)
      BY <2>6 DEF Consume
    <3>3. \A u \in Threads : pc'[u] = IF u = t THEN there ELSE pc[u]
      BY <3>2 DEF Goto, BenchTypes
    <3>4. Cardinality(Inserting') \in Nat /\ Cardinality(Inserting') <= Cardinality(Inserting)
      BY <1>0, <3>3, InsertingShrinks
    <3>5. BagSize' + 1 = BagSize \/ BagSize' = BagSize
      <4>1. CASE \E i \in Items : TryRemove(t, i, TRUE)
        BY <4>1, RemoveSize
      <4>2. CASE TryRemoveFails(t)
        BY <4>2, BagSizes DEF TryRemoveFails
      <4> QED BY <2>6, <4>1, <4>2 DEF Consume
    <3>6. BagSize' \in Nat
      <4>1. bag' \in [Items -> Nat] /\ IsFiniteSet(Items)
        BY StepKeepsTypes, BaseAssumption DEF PhaseTypes
      <4> QED BY <4>1, SumType DEF BagSize
    <3>7. BagSize' + Cardinality(Inserting') <= BagSize + Cardinality(Inserting)
      BY <1>2, <3>4, <3>5, <3>6, LessThere
    <3>8. ASSUME t /= Leader, Leader \in Started PROVE misses'[Leader] = misses[Leader]
      BY <1>0, <2>6, <3>8 DEF Consume, TryRemove, TryRemoveFails, PhaseTypes
    <3>9. Leader \in Started => (pc'[Leader] = "activate" => pc[Leader] = "activate")
      BY <1>0, <3>3
    <3>10. CASE t /= Leader
      BY <3>1, <3>7, <3>8, <3>9, <3>10, DrainKept
    <3>11. CASE t = Leader
      <4>1. Phased => active' = 1
        BY <2>6, <3>1, <3>11 DEF Consume, LateInv, LeaderSwitches
      <4>2. pc'[Leader] /= "activate"
        BY <3>3, <3>11
      <4> QED BY <1>1, <4>1, <4>2 DEF DrainInv
    <3> QED BY <3>10, <3>11
  <2>7. CASE Drain(t)
    <3>1. CASE t = Leader
      BY <2>7, <3>1, LeaderDrains
    <3>2. CASE t /= Leader
      <4>1. active' = active
        BY <2>7 DEF Drain, leaderVars
      <4>2. Goto(t, "loop")
        BY <2>7, <3>2 DEF Drain
      <4>3. \A u \in Threads : pc'[u] = IF u = t THEN "loop" ELSE pc[u]
        BY <4>2 DEF Goto, BenchTypes
      <4>4. Cardinality(Inserting') \in Nat /\ Cardinality(Inserting') <= Cardinality(Inserting)
        BY <1>0, <4>3, InsertingShrinks
      <4>5. BagSize' + 1 = BagSize \/ BagSize' = BagSize
        <5>1. CASE \E i \in Items : TryRemove(t, i, FALSE)
          BY <5>1, RemoveSize
        <5>2. CASE TryRemoveFails(t)
          BY <5>2, BagSizes DEF TryRemoveFails
        <5> QED BY <2>7, <5>1, <5>2 DEF Drain
      <4>6. BagSize' \in Nat
        <5>1. bag' \in [Items -> Nat] /\ IsFiniteSet(Items)
          BY StepKeepsTypes, BaseAssumption DEF PhaseTypes
        <5> QED BY <5>1, SumType DEF BagSize
      <4>7. BagSize' + Cardinality(Inserting') <= BagSize + Cardinality(Inserting)
        BY <1>2, <4>4, <4>5, <4>6, LessThere
      <4>8. Leader \in Started => misses'[Leader] = misses[Leader]
        BY <1>0, <2>7, <3>2 DEF Drain, TryRemove, TryRemoveFails, PhaseTypes
      <4>9. \E n : ins_by_me' = [ins_by_me EXCEPT ![t] = n]
        BY <2>7 DEF Drain
      <4>10. Leader \in Started => ins_by_me'[Leader] = ins_by_me[Leader]
        BY <1>0, <3>2, <4>9 DEF PhaseTypes
      <4>11. Leader \in Started => (pc'[Leader] = "activate" => pc[Leader] = "activate")
        BY <1>0, <4>3
      <4> QED BY <4>1, <4>7, <4>8, <4>10, <4>11, DrainKept
    <3> QED BY <3>1, <3>2
  <2>8. CASE Prefill(t)
    BY <1>1, <2>8 DEF Prefill, Roles, DrainInv
  <2>9. CASE Deactivate(t)
    <3>1. t = Leader /\ t \in Started
      BY <2>0, <2>9 DEF Deactivate, LateInv, LeaderSwitches
    <3>2. ins_by_me'[Leader] = 0
      BY <2>9, <3>1 DEF Deactivate, PhaseTypes
    <3>3. pc'[Leader] = "shift"
      BY <2>9, <3>1 DEF Deactivate, Goto, BenchTypes
    <3>4. misses'[Leader] \in Nat
      BY <3>1, StepKeepsTypes, BaseAssumption DEF PhaseTypes
    <3>5. ~(ins_by_me'[Leader] > misses'[Leader])
      BY <3>2, <3>4
    <3> QED BY <1>1, <3>3, <3>5 DEF DrainInv
  <2>10. CASE Activate(t)
    <3>1. t = Leader
      BY <2>10 DEF Activate, LateInv, LeaderSwitches
    <3>2. pc'[Leader] = "shift" /\ active' = 1
      BY <2>10, <3>1 DEF Activate, Goto, BenchTypes
    <3> QED BY <1>1, <3>2 DEF DrainInv
  <2>11. CASE Shift(t) \/ EndPhases(t)
    <3>1. PICK there \in {"loop", "save_inserts"} : Goto(t, there)
      BY <2>11 DEF Shift, EndPhases
    <3>2. UNCHANGED <<bag, misses, active, ins_by_me>>
      BY <2>11 DEF Shift, EndPhases, baseVars, bagVars
    <3> QED BY <3>1, <3>2, MoveKeepsDrain
  <2>12. CASE SaveStatistics(t)
    <3>1. PICK there \in {"save_removes", "finish"} : Goto(t, there)
      BY <2>12 DEF SaveStatistics, SaveInserts, SaveRemoves
    <3>2. UNCHANGED <<bag, misses, active, ins_by_me>>
      BY <2>12 DEF SaveStatistics, SaveInserts, SaveRemoves, leaderVars
    <3> QED BY <3>1, <3>2, MoveKeepsDrain
  <2> QED
    BY <1>6, <2>1, <2>2, <2>3, <2>4, <2>5, <2>6, <2>7, <2>8, <2>9, <2>10, <2>11, <2>12
       DEF Step
<1>7. CASE UNCHANGED vars
  BY <1>3, <1>7 DEF vars, baseVars, bagVars, leaderVars
<1> QED
  BY <1>4, <1>5, <1>6, <1>7 DEF Next, HarnessStep

\* When the leader ends a passive phase, all that is in the bag was put there
\* by producers that had decided to while it was active, one item each: if
\* the bag misses items less often than the leader looks for them.
THEOREM ProducerConsumerDrainsBeforeActive ==
  MaxMisses < EmptyChecks => (Spec => []DrainedBeforeActive)
<1> SUFFICES ASSUME MaxMisses < EmptyChecks PROVE Spec => []DrainedBeforeActive
  OBVIOUS
<1>1. BenchIInv /\ RolesInv /\ DrainInv /\ [Next]_vars => DrainInv'
  BY StepKeepsDrain
<1>2. BenchIInv /\ RolesInv /\ DrainInv => DrainedBeforeActive
  <2> SUFFICES ASSUME BenchIInv, RolesInv, DrainInv,
                      NEW t \in Threads, pc[t] = "activate", COMM_NR /= 4
               PROVE  BagSize <= Cardinality(Producers \ {t})
    BY DEF DrainedBeforeActive
  <2>1. t = Leader /\ active = 0 /\ Phased
    BY DEF RolesInv, LateInv, LeaderSwitches, Roles
  <2>2. t \in Started /\ nrThreads \in NrThreads
    BY DEF BenchIInv, BenchCreation, BenchTypes
  <2>3. ins_by_me[Leader] = EmptyChecks
    BY <2>1, <2>2 DEF DrainInv
  <2>4. misses[Leader] \in 0 .. MaxMisses
    BY <2>1 DEF RolesInv, PhaseTypes
  <2>5. ins_by_me[Leader] > misses[Leader]
    BY <2>3, <2>4, BaseAssumption, ProducerConsumerAssumption
  <2>6. BagSize + Cardinality(Inserting) <= Cardinality(Producers \ {Leader})
    BY <2>1, <2>2, <2>5 DEF DrainInv
  <2>7. /\ BagSize \in Nat /\ Cardinality(Inserting) \in Nat
        /\ Cardinality(Producers \ {Leader}) \in Nat
    BY <2>2, BagSizes, InsertingBound DEF RolesInv
  <2> QED BY <2>1, <2>6, <2>7
<1> QED
  BY <1>1, <1>2, InitDrainInv, RolesInvHolds, BenchIInvHolds, PTL DEF Spec

-----------------------------------------------------------------------------
NotBegun == {"none", "start", "spin"}

\* Without producers the bag holds what the leader filled it with since the
\* phase became passive, when it was empty, but for what was removed late.
FillInv ==
  Phased /\ COMM_NR = 4 =>
    /\ harness \notin {"prepare", "end"} /\ pc[0] \in NotBegun =>
         BagSize = 0 /\ ins_by_me[0] = 0
    /\ pc[0] = "deactivate" => BagSize = 0
    /\ active = 0 => BagSize + late = ins_by_me[0]
    /\ active = 0 /\ pc[0] /= "activate" => ins_by_me[0] < MAX_INSERTS
    /\ pc[0] = "activate" => ins_by_me[0] = MAX_INSERTS

\* Without producers thread 0 leads and none inserts.
LEMMA OnlyConsumers ==
  ASSUME BenchIInv, RolesInv, Phased, COMM_NR = 4
  PROVE  /\ Leader = 0 /\ 0 \in Started /\ 0 \in Threads
         /\ MAX_INSERTS \in Nat \ {0}
         /\ \A t \in Threads : pc[t] \notin {"insert", "drain"}
<1>1. Leader = 0
  BY DEF Leader
<1>2. 0 \in Started /\ 0 \in Threads
  BY StartedThreads DEF BenchIInv, BenchTypes
<1>3. \A t : do_enq(t) = FALSE
  BY DEF do_enq
<1>4. MAX_INSERTS \in Nat \ {0}
  BY DEF RolesInv, PhaseTypes, Phased
<1> QED
  BY <1>1, <1>2, <1>3, <1>4 DEF RolesInv, Roles

\* Nothing is in the bag at the start.
LEMMA InitFillInv == Init => FillInv
<1> SUFFICES ASSUME Init, Phased, COMM_NR = 4 PROVE FillInv
  BY DEF FillInv
<1>1. 0 \in Started /\ Started \subseteq Threads
  BY StartedThreads DEF Init, BaseInit, BenchInit
<1>2. PhaseTypes
  BY InitRoles DEF RolesInv
<1>3. BagSize = 0
  BY <1>2, BagSizes DEF Init, BaseInit, BagIsEmpty
<1>4. pc[0] = "none" /\ ins_by_me[0] = 0 /\ late = 0
  BY <1>1 DEF Init, BaseInit, BenchInit
<1>5. MAX_INSERTS \in Nat /\ MAX_INSERTS /= 0
  BY <1>2 DEF PhaseTypes, Phased
<1> QED
  BY <1>3, <1>4, <1>5 DEF FillInv

\* The leader keeps what it has filled while the other things do not change.
LEMMA FillKept ==
  ASSUME BenchIInv, RolesInv, FillInv, [Next]_vars,
         UNCHANGED <<bag, ins_by_me, active, late>>,
         harness' \notin {"prepare", "end"} /\ pc'[0] \in NotBegun =>
           harness \notin {"prepare", "end"} /\ pc[0] \in NotBegun,
         pc'[0] = "deactivate" => pc[0] = "deactivate",
         pc'[0] = "activate" <=> pc[0] = "activate"
  PROVE  FillInv'
<1>1. /\ UNCHANGED <<COMM_NR, MAX_INSERTS>> /\ Phased' = Phased
  BY ChoicesStay
<1>2. BagSize' = BagSize
  BY BagSizes DEF RolesInv
<1> QED
  BY <1>1, <1>2 DEF FillInv

\* A thread that moves on and is not the leader at a switch.
LEMMA MoveKeepsFill ==
  ASSUME BenchIInv, RolesInv, FillInv, [Next]_vars, NEW t \in Threads, NEW there,
         Goto(t, there), UNCHANGED <<bag, ins_by_me, active, late, harness>>,
         pc[t] /= "activate", there \notin {"none", "start", "activate"},
         there = "deactivate" => t /= 0,
         there = "spin" => pc[t] = "start"
  PROVE  FillInv'
<1>1. \A u \in Threads : pc'[u] = IF u = t THEN there ELSE pc[u]
  BY DEF Goto, BenchIInv, BenchTypes
<1>2. 0 \in Threads
  BY StartedThreads DEF BenchIInv, BenchTypes
<1>3. pc'[0] \in NotBegun => pc[0] \in NotBegun
  BY <1>1, <1>2 DEF NotBegun
<1>4. /\ pc'[0] = "deactivate" => pc[0] = "deactivate"
      /\ pc'[0] = "activate" <=> pc[0] = "activate"
  BY <1>1, <1>2
<1> QED
  BY <1>3, <1>4, FillKept

\* What is gone from the bag is counted.
LEMMA TakenLate ==
  ASSUME NEW size \in Nat, NEW left \in Nat, left + 1 = size, NEW n \in Nat
  PROVE  left + (n + 1) = size + n
  OBVIOUS

\* A consumer that takes an item does so late in a passive phase, and an
\* empty bag ends the active phase.
LEMMA ConsumeKeepsFill ==
  ASSUME MaxMisses = 0, BenchIInv, RolesInv, FillInv, [Next]_vars, NEW t \in Threads,
         Consume(t), Phased, COMM_NR = 4
  PROVE  FillInv'
<1>0. UNCHANGED <<COMM_NR, MAX_INSERTS, nrThreads>> /\ Phased' = Phased
  BY ChoicesStay
<1>1. /\ Leader = 0 /\ 0 \in Threads /\ nrThreads \in Nat \ {0} /\ late \in Nat
      /\ BagSize \in Nat /\ ins_by_me[0] \in Nat
  BY OnlyConsumers, StartedThreads, BagSizes
     DEF BenchIInv, BenchTypes, RolesInv, LateInv, LateTypes, PhaseTypes
<1>2. UNCHANGED <<active, ins_by_me>>
  BY DEF Consume, leaderVars
<1>3. CASE \E i \in Items : TryRemove(t, i, TRUE) /\ CountLate /\ Goto(t, "loop")
  <2>1. PICK i \in Items : TryRemove(t, i, TRUE) /\ CountLate /\ Goto(t, "loop")
    BY <1>3
  <2>2. BagSize' + 1 = BagSize /\ harness' = harness
    BY <2>1, RemoveSize DEF RolesInv, TryRemove, bench
  <2>3. \A u \in Threads : pc'[u] = IF u = t THEN "loop" ELSE pc[u]
    BY <2>1 DEF Goto, BenchIInv, BenchTypes
  <2>4. IsFiniteSet(Items) /\ bag' \in [Items -> Nat]
    BY StepKeepsTypes, BaseAssumption DEF RolesInv, PhaseTypes
  <2>5. BagSize' \in Nat
    BY <2>4, SumType DEF BagSize
  <2>6. BagSize /= 0
    BY <2>2, <2>5
  <2>7. /\ ~(harness' \notin {"prepare", "end"} /\ pc'[0] \in NotBegun)
        /\ pc'[0] /= "deactivate"
        /\ pc'[0] = "activate" => pc[0] = "activate"
        /\ pc[0] = "activate" => pc'[0] = "activate"
    <3>1. CASE t = 0
      BY <1>1, <2>3, <3>1 DEF Consume, NotBegun
    <3>2. CASE t /= 0
      BY <1>1, <2>2, <2>3, <2>6, <3>2 DEF FillInv
    <3> QED BY <3>1, <3>2
  <2>8. ASSUME active = 0 PROVE BagSize' + late' = ins_by_me'[0]
    <3>1. late < nrThreads
      BY DEF RolesInv, LateInv, LateBound
    <3>2. late + 1 <= nrThreads
      BY <1>1, <3>1
    <3>3. late' = late + 1
      BY <1>1, <2>1, <2>8, <3>2 DEF CountLate, Min
    <3>4. BagSize + late = ins_by_me[0]
      BY <2>8 DEF FillInv
    <3>5. BagSize' + (late + 1) = BagSize + late
      <4>1. late \in Nat /\ BagSize \in Nat
        BY <1>1
      <4> QED BY <2>2, <2>5, <4>1, TakenLate, Zenon
    <3> QED BY <1>2, <3>3, <3>4, <3>5
  <2> QED
    BY <1>0, <1>2, <2>7, <2>8 DEF FillInv
<1>4. CASE /\ TryRemoveFails(t) /\ UNCHANGED late
           /\ Goto(t, IF Phased /\ t = Leader THEN "deactivate" ELSE "loop")
  <2>0. ~(misses[t] < MaxMisses)
    BY DEF RolesInv, PhaseTypes
  <2>1. BagIsEmpty /\ bag' = bag
    BY <1>4, <2>0 DEF TryRemoveFails
  <2>2. BagSize = 0 /\ BagSize' = 0 /\ harness' = harness
    BY <1>4, <2>1, BagSizes DEF RolesInv, TryRemoveFails, bench
  <2>3. CASE t = 0
    <3>1. pc'[0] = "deactivate"
      BY <1>1, <1>4, <2>3 DEF Goto, BenchIInv, BenchTypes
    <3>2. active' = 1
      BY <1>1, <1>2, <2>3 DEF Consume, RolesInv, LateInv, LeaderSwitches
    <3> QED BY <1>0, <2>2, <3>1, <3>2 DEF FillInv, NotBegun
  <2>4. CASE t /= 0
    <3>1. Goto(t, "loop") /\ pc[t] = "take"
      BY <1>1, <1>4, <2>4 DEF Consume
    <3> QED BY <1>2, <1>4, <2>1, <2>2, <3>1, MoveKeepsFill
  <2> QED BY <2>3, <2>4
<1> QED
  BY <1>3, <1>4 DEF Consume

\* The leader puts one more into the bag until it has put enough.
LEMMA PrefillKeepsFill ==
  ASSUME BenchIInv, RolesInv, FillInv, [Next]_vars, NEW t \in Threads, Prefill(t)
  PROVE  FillInv'
<1>0. /\ t = Leader /\ Phased /\ active = 0 /\ COMM_NR = 4
      /\ pc[t] = "prefill"
  BY DEF Prefill, RolesInv, LateInv, LeaderSwitches, Roles
<1>1. /\ t = 0 /\ late \in Nat /\ BagSize \in Nat /\ ins_by_me[0] \in Nat
      /\ MAX_INSERTS \in Nat \ {0}
  BY <1>0, OnlyConsumers, BagSizes DEF RolesInv, LateInv, LateTypes, PhaseTypes
<1>2. UNCHANGED <<COMM_NR, MAX_INSERTS, active, late>> /\ Phased' = Phased
  BY ChoicesStay DEF Prefill, leaderVars
<1>3. BagSize' = BagSize + 1
  <2>1. PICK i \in Items : Insert(t, i, FALSE)
    BY DEF Prefill
  <2> QED BY <2>1, InsertSize DEF RolesInv
<1>4. BagSize + late = ins_by_me[0] /\ ins_by_me[0] < MAX_INSERTS
  BY <1>0, <1>1 DEF FillInv
<1>5. ins_by_me'[0] = ins_by_me[0] + 1
  <2>1. ins_by_me' = OneMore(0)
    BY <1>1 DEF Prefill
  <2>2. Min({ins_by_me[0] + 1, MAX_INSERTS + 1}) = ins_by_me[0] + 1
    BY <1>1, <1>4 DEF Min
  <2> QED BY <1>1, <2>1, <2>2 DEF OneMore, RolesInv, PhaseTypes
<1>6. pc'[0] = IF ins_by_me'[0] = MAX_INSERTS THEN "activate" ELSE "loop"
  BY <1>1 DEF Prefill, Goto, BenchIInv, BenchTypes
<1>7. BagSize' + late = ins_by_me'[0]
  BY <1>1, <1>3, <1>4, <1>5
<1>8. CASE ins_by_me'[0] = MAX_INSERTS
  BY <1>2, <1>6, <1>7, <1>8 DEF FillInv, NotBegun
<1>9. CASE ins_by_me'[0] /= MAX_INSERTS
  <2>1. ins_by_me'[0] < MAX_INSERTS
    BY <1>1, <1>4, <1>5, <1>9
  <2> QED BY <1>2, <1>6, <1>7, <1>9, <2>1 DEF FillInv, NotBegun
<1> QED
  BY <1>8, <1>9

\* Every step keeps the account of what is in the bag.
LEMMA StepKeepsFill ==
  ASSUME MaxMisses = 0, BenchIInv, RolesInv, FillInv, [Next]_vars
  PROVE  FillInv'
<1> SUFFICES ASSUME Phased, COMM_NR = 4 PROVE FillInv'
  BY ChoicesStay DEF FillInv
<1> USE DEF RolesInv, BenchIInv
<1>0. /\ Leader = 0 /\ 0 \in Started /\ 0 \in Threads /\ Started \subseteq Threads
      /\ MAX_INSERTS \in Nat \ {0}
      /\ \A t \in Threads : pc[t] \notin {"insert", "drain"}
  BY OnlyConsumers, StartedThreads DEF BenchTypes
<1>1. UNCHANGED <<COMM_NR, MAX_INSERTS>> /\ Phased' = Phased
  BY ChoicesStay
<1>2. CASE UNCHANGED <<pc, bag, ins_by_me, active, late, harness>>
  BY <1>2, FillKept
<1>3. CASE Prepare
  <2>1. PhaseTypes' /\ BagIsEmpty'
    BY <1>3, StepKeepsTypes DEF Prepare, BasePrepare, BagIsEmpty
  <2>2. BagSize' = 0
    <3>1. IsFiniteSet(Items) /\ \A i \in Items : bag'[i] = 0
      BY <2>1, BaseAssumption DEF BagIsEmpty
    <3> QED BY <3>1, SumZero DEF BagSize
  <2>3. ins_by_me'[0] = 0 /\ late' = 0 /\ pc'[0] = "none"
    BY <1>0, <1>3 DEF Prepare, BasePrepare, BenchPrepare, BenchCreation
  <2> QED BY <1>0, <1>1, <2>2, <2>3 DEF FillInv
<1>4. CASE BenchHarnessStep /\ UNCHANGED <<bagVars, leaderVars, ins_by_me, late>>
  <2>0. UNCHANGED <<bag, ins_by_me, active, late>>
    BY <1>4 DEF bagVars, leaderVars
  <2>1. CASE Create
    <3>1. PICK k \in Started : pc[k] = "none" /\ pc' = [pc EXCEPT ![k] = "start"]
      BY <2>1, CreateNext
    <3>2. \A u \in Threads : pc'[u] = IF u = k THEN "start" ELSE pc[u]
      BY <3>1 DEF BenchTypes
    <3>3. harness = "create"
      BY <2>1 DEF Create
    <3> QED BY <1>0, <2>0, <3>1, <3>2, <3>3, FillKept DEF NotBegun
  <2>2. CASE Go \/ Stop \/ Join
    BY <2>0, <2>2, FillKept DEF Go, Stop, Join
  <2>3. CASE Report
    <3>1. /\ harness' \in {"prepare", "end"} /\ pc'[0] = "none"
          /\ pc[0] = "exit"
      BY <1>0, <2>3 DEF Report, BenchCreation
    <3> QED BY <2>0, <3>1, FillKept
  <2> QED BY <1>4, <2>1, <2>2, <2>3 DEF BenchHarnessStep
<1>5. ASSUME NEW t \in Threads, Step(t) PROVE FillInv'
  <2>1. CASE BenchThreadStep(t) /\ UNCHANGED <<bagVars, leaderVars, ins_by_me, late>>
    <3>1. PICK there \in {"spin", "end_time", "exit"} :
            /\ Goto(t, there) /\ pc[t] /= "activate" /\ harness' = harness
            /\ there = "spin" => pc[t] = "start"
      BY <2>1 DEF BenchThreadStep, CountIn, CountOut, WriteEndTime, Goto
    <3> QED BY <2>1, <3>1, MoveKeepsFill DEF bagVars, leaderVars
  <2>2. CASE Begin(t)
    <3>1. /\ Goto(t, "loop") /\ pc[t] = "spin"
          /\ UNCHANGED <<bag, ins_by_me, harness>>
      BY <2>2 DEF Begin, SeeGo, Goto, bagVars
    <3>2. CASE t /= Leader
      <4>1. UNCHANGED <<active, late>>
        BY <2>2, <3>2 DEF Begin
      <4> QED BY <3>1, <4>1, MoveKeepsFill
    <3>3. CASE t = Leader
      <4>1. active' = 0 /\ late' = 0
        BY <2>2, <3>3 DEF Begin
      <4>2. pc'[0] = "loop"
        BY <1>0, <3>1, <3>3 DEF Goto, BenchTypes
      <4>3. BagSize = 0 /\ ins_by_me[0] = 0
        BY <1>0, <3>1, <3>3, RunningThread DEF FillInv, NotBegun
      <4>4. BagSize' = 0
        BY <3>1, <4>3, BagSizes
      <4> QED BY <1>0, <1>1, <3>1, <4>1, <4>2, <4>3, <4>4 DEF FillInv, NotBegun
    <3> QED BY <3>2, <3>3
  <2>3. CASE Loop(t)
    <3>1. UNCHANGED <<bag, ins_by_me, active, late, harness>> /\ pc[t] = "loop"
      BY <2>3 DEF Loop, baseVars, bench, bagVars, leaderVars
    <3>2. PICK there \in {"end_phases", "save_inserts", "read_active", "insert", "take"} :
            Goto(t, there)
      BY <2>3 DEF Loop
    <3> QED BY <3>1, <3>2, MoveKeepsFill
  <2>4. CASE ReadActive(t)
    <3>1. /\ UNCHANGED <<bag, ins_by_me, active, late, harness>>
          /\ pc[t] = "read_active"
      BY <2>4 DEF ReadActive, baseVars, bench, bagVars, leaderVars
    <3>2. PICK there \in {"insert", "take", "drain", "prefill", "loop"} : Goto(t, there)
      <4>1. CASE active /= 0
        BY <2>4, <4>1 DEF ReadActive
      <4>2. CASE active = 0 /\ COMM_NR = 4
        BY <2>4, <4>2 DEF ReadActive
      <4>3. CASE active = 0 /\ COMM_NR /= 4
        BY <2>4, <4>3 DEF ReadActive
      <4> QED BY <4>1, <4>2, <4>3
    <3> QED BY <3>1, <3>2, MoveKeepsFill
  <2>5. CASE Produce(t) \/ Drain(t)
    BY <1>0, <2>5 DEF Produce, Drain
  <2>6. CASE Consume(t)
    BY <2>6, ConsumeKeepsFill
  <2>7. CASE Prefill(t)
    BY <2>7, PrefillKeepsFill
  <2>8. CASE Deactivate(t)
    <3>1. t = 0
      BY <1>0, <2>8 DEF Deactivate, LateInv, LeaderSwitches
    <3>2. pc[0] = "deactivate" /\ pc'[0] = "shift"
      BY <2>8, <3>1 DEF Deactivate, Goto, BenchTypes
    <3>3. BagSize = 0 /\ bag' = bag
      BY <2>8, <3>2 DEF Deactivate, baseVars, bagVars, FillInv
    <3>4. BagSize' = 0 /\ late' = 0 /\ ins_by_me'[0] = 0
      BY <2>8, <3>1, <3>3, BagSizes DEF Deactivate, PhaseTypes
    <3> QED BY <1>0, <1>1, <3>2, <3>4 DEF FillInv, NotBegun
  <2>9. CASE Activate(t)
    <3>1. t = 0
      BY <1>0, <2>9 DEF Activate, LateInv, LeaderSwitches
    <3>2. pc'[0] = "shift" /\ active' = 1
      BY <2>9, <3>1 DEF Activate, Goto, BenchTypes
    <3> QED BY <1>1, <3>2 DEF FillInv, NotBegun
  <2>10. CASE Shift(t) \/ EndPhases(t)
    <3>1. PICK there \in {"loop", "save_inserts"} : Goto(t, there) /\ pc[t] /= "activate"
      BY <2>10 DEF Shift, EndPhases
    <3>2. UNCHANGED <<bag, ins_by_me, active, late, harness>>
      BY <2>10 DEF Shift, EndPhases, baseVars, bench, bagVars
    <3> QED BY <3>1, <3>2, MoveKeepsFill
  <2>11. CASE SaveStatistics(t)
    <3>1. PICK there \in {"save_removes", "finish"} : Goto(t, there) /\ pc[t] /= "activate"
      BY <2>11 DEF SaveStatistics, SaveInserts, SaveRemoves
    <3>2. UNCHANGED <<bag, ins_by_me, active, late, harness>>
      BY <2>11 DEF SaveStatistics, SaveInserts, SaveRemoves, bench, leaderVars
    <3> QED BY <3>1, <3>2, MoveKeepsFill
  <2> QED
    BY <1>5, <2>1, <2>2, <2>3, <2>4, <2>5, <2>6, <2>7, <2>8, <2>9, <2>10, <2>11 DEF Step
<1>6. CASE UNCHANGED vars
  BY <1>2, <1>6 DEF vars, baseVars, bench, bagVars, leaderVars
<1> QED
  BY <1>3, <1>4, <1>5, <1>6 DEF Next, HarnessStep

\* When the leader ends a passive phase of the pattern without producers, the
\* bag holds what it was filled with but for at most one item taken late by
\* each other consumer: if the bag does not miss items.
THEOREM ProducerConsumerPrefillsBeforeActive ==
  MaxMisses = 0 => (Spec => []PrefilledBeforeActive)
<1> SUFFICES ASSUME MaxMisses = 0 PROVE Spec => []PrefilledBeforeActive
  OBVIOUS
<1>1. BenchIInv /\ RolesInv /\ FillInv /\ [Next]_vars => FillInv'
  BY StepKeepsFill
<1>2. BenchIInv /\ RolesInv /\ FillInv => PrefilledBeforeActive
  <2> SUFFICES ASSUME BenchIInv, RolesInv, FillInv,
                      NEW t \in Threads, pc[t] = "activate", COMM_NR = 4
               PROVE  BagSize \in MAX_INSERTS - (nrThreads - 1) .. MAX_INSERTS
    BY DEF PrefilledBeforeActive
  <2>1. t = Leader /\ active = 0 /\ Phased
    BY DEF RolesInv, LateInv, LeaderSwitches, Roles
  <2>2. t = 0 /\ MAX_INSERTS \in Nat
    BY <2>1, OnlyConsumers
  <2>3. BagSize + late = MAX_INSERTS
    BY <2>1, <2>2 DEF FillInv
  <2>4. BagSize \in Nat /\ late \in Nat /\ late < nrThreads /\ nrThreads \in Nat
    BY BagSizes, StartedThreads
       DEF RolesInv, LateInv, LateTypes, LateBound, BenchIInv, BenchTypes
  <2> QED BY <2>2, <2>3, <2>4
<1> QED
  BY <1>1, <1>2, InitFillInv, RolesInvHolds, BenchIInvHolds, PTL DEF Spec

-----------------------------------------------------------------------------
InPhases == {"loop", "read_active", "insert", "take", "drain", "prefill", "deactivate",
             "activate", "shift", "end_phases"}

PhasesOver == {"save_inserts", "save_removes", "finish", "end_time", "exit"}

\* The ring holds the starts of the last MAX_PHASES phases up to the n-th.
Kept(n) == \A k \in 0 .. n : n < k + MAX_PHASES => phases[k % MAX_PHASES] = k

ActiveBefore(n) == Cardinality({k \in 0 .. n - 1 : IsActivePhase(k)})

\* Whether the phase whose number the leader knows is an active one: at
\* "shift" it has switched already.
InActive == IF pc[Leader] = "shift" THEN active = 0 ELSE active = 1

\* The leader's account of the phases, its own before it reports them and the
\* object's after that.
PhasesInv ==
  /\ phase \in Nat /\ no_phases \in Nat /\ time_active \in Nat
  /\ phases \in [0 .. MAX_PHASES - 1 -> Nat]
  /\ Phased /\ Leader \notin Started =>
       active_duration = 0 /\ no_phases = 0 /\ phases[0] = 0
  /\ Phased /\ Leader \in Started =>
       /\ harness \notin {"prepare", "end"} /\ pc[Leader] \in NotBegun =>
            phase = 0 /\ time_active = 0
       /\ pc[Leader] \in InPhases =>
            /\ Kept(phase) /\ time_active = ActiveBefore(phase)
            /\ InActive <=> IsActivePhase(phase)
       /\ pc[Leader] \in PhasesOver =>
            Kept(no_phases) /\ active_duration = ActiveBefore(no_phases)

\* One more phase start overwrites the oldest.
LEMMA RingHolds ==
  ASSUME NEW n \in Nat, NEW ring \in [0 .. MAX_PHASES - 1 -> Nat],
         \A k \in 0 .. n : n < k + MAX_PHASES => ring[k % MAX_PHASES] = k,
         NEW next, next = [ring EXCEPT ![(n + 1) % MAX_PHASES] = n + 1]
  PROVE  /\ next \in [0 .. MAX_PHASES - 1 -> Nat]
         /\ \A k \in 0 .. n + 1 : n + 1 < k + MAX_PHASES => next[k % MAX_PHASES] = k
         /\ next[(n + 1) % MAX_PHASES] - ring[n % MAX_PHASES] = 1
<1>1. MAX_PHASES \in Nat \ {0} /\ MAX_PHASES >= 2
  BY ProducerConsumerAssumption
<1>2. ASSUME NEW k \in Nat PROVE k % MAX_PHASES \in 0 .. MAX_PHASES - 1
  BY <1>1
<1>3. next[(n + 1) % MAX_PHASES] = n + 1
  BY <1>2
<1>4. ASSUME NEW k \in 0 .. n, n + 1 < k + MAX_PHASES PROVE next[k % MAX_PHASES] = k
  <2>1. k % MAX_PHASES /= (n + 1) % MAX_PHASES
    <3>1. k \in Nat /\ n + 1 \in Nat /\ ~(n + 1 <= k)
      OBVIOUS
    <3> QED BY <1>1, <1>4, <3>1, SameRemainder
  <2>2. ring[k % MAX_PHASES] = k
    BY <1>1, <1>4
  <2>3. k % MAX_PHASES \in 0 .. MAX_PHASES - 1
    BY k \in Nat, <1>2
  <2> QED BY <2>1, <2>2, <2>3
<1>5. \A k \in 0 .. n + 1 : n + 1 < k + MAX_PHASES => next[k % MAX_PHASES] = k
  <2> SUFFICES ASSUME NEW k \in 0 .. n + 1, n + 1 < k + MAX_PHASES
               PROVE  next[k % MAX_PHASES] = k
    OBVIOUS
  <2>1. k = n + 1 \/ k \in 0 .. n
    OBVIOUS
  <2> QED BY <1>3, <1>4, <2>1
<1>6. ring[n % MAX_PHASES] = n
  BY <1>1
<1>7. next \in [0 .. MAX_PHASES - 1 -> Nat]
  <2>1. n + 1 \in Nat /\ (n + 1) % MAX_PHASES \in 0 .. MAX_PHASES - 1
    BY n + 1 \in Nat, <1>2
  <2> QED BY <2>1
<1>8. next[(n + 1) % MAX_PHASES] - ring[n % MAX_PHASES] = 1
  BY <1>3, <1>6
<1> QED
  BY <1>5, <1>7, <1>8

\* The active phases before the next one.
LEMMA ActiveBeforeNext ==
  ASSUME NEW n \in Nat
  PROVE  /\ ActiveBefore(n) \in Nat
         /\ ActiveBefore(0) = 0
         /\ IsActivePhase(n) => ActiveBefore(n + 1) = ActiveBefore(n) + 1
         /\ ~IsActivePhase(n) => ActiveBefore(n + 1) = ActiveBefore(n)
         /\ IsActivePhase(n + 1) <=> ~IsActivePhase(n)
<1> DEFINE S == {k \in 0 .. n - 1 : IsActivePhase(k)}
           T == {k \in 0 .. (n + 1) - 1 : IsActivePhase(k)}
<1>1. IsFiniteSet(S) /\ Cardinality(S) \in Nat
  <2>1. S \subseteq 0 .. n - 1 /\ IsFiniteSet(0 .. n - 1)
    BY FS_Interval
  <2>2. IsFiniteSet(S)
    BY <2>1, FS_Subset
  <2> QED BY <2>2, FS_CardinalityType
<1>2. {k \in 0 .. 0 - 1 : IsActivePhase(k)} = {}
  OBVIOUS
<1>3. ActiveBefore(0) = 0
  BY <1>2, FS_EmptySet DEF ActiveBefore
<1>4. ASSUME IsActivePhase(n) PROVE Cardinality(T) = Cardinality(S) + 1
  <2>1. n \notin S /\ T = S \cup {n}
    BY <1>4
  <2> QED BY <1>1, <2>1, FS_AddElement
<1>5. ASSUME ~IsActivePhase(n) PROVE T = S
  BY <1>5
<1>6. IsActivePhase(n + 1) <=> ~IsActivePhase(n)
  <2>1. (n + 1) % 2 = 0 <=> n % 2 /= 0
    OBVIOUS
  <2> QED BY <2>1 DEF IsActivePhase
<1> QED
  BY <1>1, <1>3, <1>4, <1>5, <1>6 DEF ActiveBefore

\* No phase has been reported at the start.
LEMMA InitPhasesInv == Init => PhasesInv
<1> SUFFICES ASSUME Init PROVE PhasesInv
  OBVIOUS
<1>1. nrThreads \in NrThreads /\ Started \subseteq Threads
  BY StartedThreads DEF Init, BaseInit, BenchInit
<1>2. \A t \in Threads : pc[t] = "none"
  BY DEF Init, BaseInit, BenchInit
<1>3. harness = "prepare"
  BY DEF Init, BaseInit, BenchInit
<1>4. phases \in [0 .. MAX_PHASES - 1 -> Nat] /\ phases[0] = 0
  BY ProducerConsumerAssumption DEF Init
<1> QED
  BY <1>1, <1>2, <1>3, <1>4 DEF Init, PhasesInv, InPhases, PhasesOver

\* The account stays while the leader neither begins, switches nor ends.
LEMMA PhasesKept ==
  ASSUME PhasesInv, [Next]_vars,
         UNCHANGED <<phases, active_duration, no_phases, phase, time_active>>,
         Phased /\ Leader \in Started =>
           /\ harness' \notin {"prepare", "end"} /\ pc'[Leader] \in NotBegun =>
                harness \notin {"prepare", "end"} /\ pc[Leader] \in NotBegun
           /\ pc'[Leader] \in InPhases => pc[Leader] \in InPhases /\ (InActive' <=> InActive)
           /\ pc'[Leader] \in PhasesOver => pc[Leader] \in PhasesOver
  PROVE  PhasesInv'
<1>1. UNCHANGED COMM_NR /\ Phased' = Phased /\ Leader' = Leader /\ Started' = Started
  BY ChoicesStay
<1>2. /\ IsActivePhase(phase)' <=> IsActivePhase(phase)
      /\ Kept(phase)' <=> Kept(phase)
      /\ Kept(no_phases)' <=> Kept(no_phases)
      /\ ActiveBefore(phase)' = ActiveBefore(phase)
      /\ ActiveBefore(no_phases)' = ActiveBefore(no_phases)
  BY <1>1 DEF Kept, ActiveBefore, IsActivePhase
<1> QED
  BY <1>1, <1>2 DEF PhasesInv

\* The start of another phase keeps the account.
LEMMA StampHolds ==
  ASSUME PhasesInv, [Next]_vars, Kept(phase), Stamp
  PROVE  /\ phase' = phase + 1 /\ phase' \in Nat
         /\ phases' \in [0 .. MAX_PHASES - 1 -> Nat]
         /\ Kept(phase)' /\ Elapsed = 1
<1>1. phase \in Nat /\ phase' = phase + 1
  BY DEF PhasesInv, Stamp
<1>2. phases \in [0 .. MAX_PHASES - 1 -> Nat]
  BY DEF PhasesInv
<1>3. phases' = [phases EXCEPT ![(phase + 1) % MAX_PHASES] = phase + 1]
  BY DEF Stamp
<1>4. \A k \in 0 .. phase : phase < k + MAX_PHASES => phases[k % MAX_PHASES] = k
  BY DEF Kept
<1>5. /\ phases' \in [0 .. MAX_PHASES - 1 -> Nat]
      /\ \A k \in 0 .. phase + 1 :
           phase + 1 < k + MAX_PHASES => phases'[k % MAX_PHASES] = k
      /\ phases'[(phase + 1) % MAX_PHASES] - phases[phase % MAX_PHASES] = 1
  BY <1>1, <1>2, <1>3, <1>4, RingHolds
<1>6. \A k \in 0 .. phase' : phase' < k + MAX_PHASES => phases'[k % MAX_PHASES] = k
  BY <1>1, <1>5
<1> QED
  BY <1>1, <1>5, <1>6 DEF Kept, Elapsed

\* The leader begins with phase 0.
LEMMA BeginKeepsPhases ==
  ASSUME BenchIInv, RolesInv, PhasesInv, [Next]_vars, Leader \in Threads, Begin(Leader),
         Phased
  PROVE  PhasesInv'
<1>1. UNCHANGED COMM_NR /\ Phased' = Phased /\ Leader' = Leader /\ Started' = Started
  BY ChoicesStay
<1>2. UNCHANGED <<active_duration, no_phases, phase, time_active>>
  BY DEF Begin
<1>3. pc[Leader] = "spin" /\ pc'[Leader] = "loop"
  BY DEF Begin, SeeGo, BenchIInv, BenchTypes
<1>4. Leader \in Started /\ harness \notin {"prepare", "end"}
  BY <1>3, RunningThread
<1>5. phase = 0 /\ time_active = 0
  BY <1>3, <1>4 DEF PhasesInv, NotBegun
<1>6. phases' = [phases EXCEPT ![0] = 0] /\ active' = IF COMM_NR = 4 THEN 0 ELSE 1
  BY DEF Begin
<1>7. phases' \in [0 .. MAX_PHASES - 1 -> Nat] /\ phases'[0] = 0
  BY <1>6, ProducerConsumerAssumption DEF PhasesInv
<1>8. Kept(phase)'
  <2>1. 0 % MAX_PHASES = 0
    BY ProducerConsumerAssumption
  <2>2. \A k \in 0 .. 0 : phases'[k % MAX_PHASES] = k
    BY <1>7, <2>1
  <2> QED BY <1>2, <1>5, <2>2 DEF Kept
<1>9. time_active' = ActiveBefore(phase)'
  <2>1. {k \in 0 .. 0 - 1 : IsActivePhase(k)'} = {}
    OBVIOUS
  <2>2. phase' = 0
    BY <1>2, <1>5
  <2>3. ActiveBefore(phase)' = 0
    BY <2>1, <2>2, FS_EmptySet DEF ActiveBefore
  <2> QED BY <1>2, <1>5, <2>3
<1>10. InActive' <=> IsActivePhase(phase)'
  <2>1. InActive' <=> active' = 1
    BY <1>1, <1>3 DEF InActive
  <2>2. IsActivePhase(phase)' <=> COMM_NR /= 4
    BY <1>1, <1>2, <1>5 DEF IsActivePhase
  <2> QED BY <1>6, <2>1, <2>2
<1> QED
  BY <1>1, <1>2, <1>3, <1>4, <1>7, <1>8, <1>9, <1>10
     DEF PhasesInv, InPhases, PhasesOver, NotBegun

\* It counts a phase when it has ended it.
LEMMA ShiftKeepsPhases ==
  ASSUME BenchIInv, RolesInv, PhasesInv, [Next]_vars, Leader \in Threads, Shift(Leader),
         Phased
  PROVE  PhasesInv'
<1>1. UNCHANGED COMM_NR /\ Phased' = Phased /\ Leader' = Leader /\ Started' = Started
  BY ChoicesStay
<1>2. UNCHANGED <<active, active_duration, no_phases>> /\ Stamp
  BY DEF Shift
<1>3. pc[Leader] = "shift" /\ pc'[Leader] = "loop"
  BY DEF Shift, Goto, BenchIInv, BenchTypes
<1>4. Leader \in Started
  BY <1>3, RunningThread
<1>5. /\ Kept(phase) /\ time_active = ActiveBefore(phase)
      /\ active = 0 <=> IsActivePhase(phase)
      /\ phase \in Nat /\ time_active \in Nat /\ active \in {0, 1}
  BY <1>3, <1>4 DEF PhasesInv, InPhases, InActive, RolesInv, LateInv, LateTypes
<1>6. /\ phase' = phase + 1 /\ phase' \in Nat
      /\ phases' \in [0 .. MAX_PHASES - 1 -> Nat]
      /\ Kept(phase)' /\ Elapsed = 1
  BY <1>2, <1>5, StampHolds
<1>7. time_active' = IF active = 0 THEN time_active + 1 ELSE time_active
  BY <1>6 DEF Shift
<1>8. ActiveBefore(phase)' = ActiveBefore(phase + 1)
  BY <1>1, <1>6 DEF ActiveBefore, IsActivePhase
<1>9. IsActivePhase(phase)' <=> ~IsActivePhase(phase)
  <2>1. IsActivePhase(phase)' <=> IsActivePhase(phase + 1)
    BY <1>1, <1>6 DEF IsActivePhase
  <2> QED BY <1>5, <2>1, ActiveBeforeNext
<1>10. time_active' \in Nat /\ time_active' = ActiveBefore(phase)'
  BY <1>5, <1>7, <1>8, ActiveBeforeNext
<1>11. InActive' <=> IsActivePhase(phase)'
  BY <1>1, <1>2, <1>3, <1>5, <1>9 DEF InActive
<1> QED
  BY <1>1, <1>2, <1>3, <1>4, <1>6, <1>10, <1>11
     DEF PhasesInv, InPhases, PhasesOver, NotBegun

\* It counts the last one if that is active.
LEMMA EndKeepsPhases ==
  ASSUME BenchIInv, RolesInv, PhasesInv, [Next]_vars, Leader \in Threads,
         EndPhases(Leader), Phased
  PROVE  PhasesInv'
<1>1. UNCHANGED COMM_NR /\ Phased' = Phased /\ Leader' = Leader /\ Started' = Started
  BY ChoicesStay
<1>2. active_duration' = time_active' /\ no_phases' = phase'
  BY DEF EndPhases
<1>3. pc[Leader] = "end_phases" /\ pc'[Leader] = "save_inserts"
  BY DEF EndPhases, Goto, BenchIInv, BenchTypes
<1>4. Leader \in Started
  BY <1>3, RunningThread
<1>5. /\ Kept(phase) /\ time_active = ActiveBefore(phase)
      /\ active = 1 <=> IsActivePhase(phase)
      /\ phase \in Nat /\ time_active \in Nat
      /\ phases \in [0 .. MAX_PHASES - 1 -> Nat]
  BY <1>3, <1>4 DEF PhasesInv, InPhases, InActive
<1>6. /\ phase' \in Nat /\ phases' \in [0 .. MAX_PHASES - 1 -> Nat] /\ Kept(phase)'
      /\ time_active' \in Nat /\ time_active' = ActiveBefore(phase)'
  <2>1. CASE active = 1
    <3>1. Stamp /\ time_active' = time_active + Elapsed
      BY <2>1 DEF EndPhases
    <3>2. /\ phase' = phase + 1 /\ phase' \in Nat
          /\ phases' \in [0 .. MAX_PHASES - 1 -> Nat]
          /\ Kept(phase)' /\ Elapsed = 1
      BY <1>5, <3>1, StampHolds
    <3>3. ActiveBefore(phase)' = ActiveBefore(phase + 1)
      BY <1>1, <3>2 DEF ActiveBefore, IsActivePhase
    <3> QED BY <1>5, <2>1, <3>1, <3>2, <3>3, ActiveBeforeNext
  <2>2. CASE active /= 1
    <3>1. UNCHANGED <<phase, phases, time_active>>
      BY <2>2 DEF EndPhases
    <3>2. (Kept(phase)' <=> Kept(phase)) /\ ActiveBefore(phase)' = ActiveBefore(phase)
      BY <1>1, <3>1 DEF Kept, ActiveBefore, IsActivePhase
    <3> QED BY <1>5, <3>1, <3>2
  <2> QED BY <2>1, <2>2
<1>7. Kept(no_phases)' /\ ActiveBefore(no_phases)' = ActiveBefore(phase)'
  BY <1>2, <1>6 DEF Kept, ActiveBefore, IsActivePhase
<1> QED
  BY <1>1, <1>2, <1>3, <1>4, <1>6, <1>7
     DEF PhasesInv, InPhases, PhasesOver, NotBegun

\* A thread that moves on and is not the leader at a switch.
LEMMA MoveKeepsPhases ==
  ASSUME BenchIInv, PhasesInv, [Next]_vars, NEW t \in Threads, NEW there, Goto(t, there),
         UNCHANGED <<phases, active_duration, no_phases, phase, time_active, active, harness>>,
         Phased /\ t = Leader =>
           /\ there \in NotBegun => there = "spin" /\ pc[t] = "start"
           /\ there \in InPhases => pc[t] \in InPhases
           /\ there \in PhasesOver => pc[t] \in PhasesOver
           /\ pc[t] /= "shift" /\ there /= "shift"
  PROVE  PhasesInv'
<1>1. Leader' = Leader /\ Phased' = Phased /\ Started \subseteq Threads
  BY ChoicesStay, StartedThreads DEF BenchIInv, BenchTypes
<1>2. \A u \in Threads : pc'[u] = IF u = t THEN there ELSE pc[u]
  BY DEF Goto, BenchIInv, BenchTypes
<1>3. CASE t = Leader
  BY <1>1, <1>2, <1>3, PhasesKept DEF InActive, NotBegun
<1>4. CASE t /= Leader
  <2>1. Leader \in Started => pc'[Leader] = pc[Leader] /\ (InActive' <=> InActive)
    BY <1>1, <1>2, <1>4 DEF InActive
  <2> QED BY <2>1, PhasesKept
<1> QED
  BY <1>3, <1>4

\* Every step keeps the account.
LEMMA StepKeepsPhases ==
  ASSUME BenchIInv, RolesInv, PhasesInv, [Next]_vars
  PROVE  PhasesInv'
<1> USE DEF RolesInv, BenchIInv
<1>0. Leader' = Leader /\ Phased' = Phased /\ Started' = Started /\ Started \subseteq Threads
  BY ChoicesStay, StartedThreads DEF BenchTypes
<1>1. CASE UNCHANGED <<pc, harness, leaderVars>>
  BY <1>0, <1>1, PhasesKept DEF leaderVars, InActive
<1>2. CASE Prepare
  <2>1. /\ phase' = 0 /\ time_active' = 0
        /\ UNCHANGED <<phases, active_duration, no_phases>>
    BY <1>2 DEF Prepare
  <2>2. \A t \in Threads : pc'[t] = "none"
    BY <1>2 DEF Prepare, BasePrepare, BenchPrepare, BenchCreation
  <2> QED
    BY <1>0, <2>1, <2>2 DEF PhasesInv, InPhases, PhasesOver
<1>3. CASE BenchHarnessStep /\ UNCHANGED leaderVars
  <2>0. UNCHANGED <<phases, active_duration, no_phases, phase, time_active, active>>
    BY <1>3 DEF leaderVars
  <2>1. CASE Create
    <3>1. PICK k \in Started : pc[k] = "none" /\ pc' = [pc EXCEPT ![k] = "start"]
      BY <2>1, CreateNext
    <3>2. \A u \in Threads : pc'[u] = IF u = k THEN "start" ELSE pc[u]
      BY <3>1 DEF BenchTypes
    <3>3. harness = "create"
      BY <2>1 DEF Create
    <3>4. CASE Leader = k
      BY <1>0, <2>0, <3>1, <3>2, <3>3, <3>4, PhasesKept DEF NotBegun, InPhases, PhasesOver
    <3>5. CASE Leader /= k
      <4>1. Leader \in Started => pc'[Leader] = pc[Leader] /\ (InActive' <=> InActive)
        BY <1>0, <2>0, <3>2, <3>5 DEF InActive
      <4> QED BY <2>0, <3>3, <4>1, PhasesKept
    <3> QED BY <3>4, <3>5
  <2>2. CASE Go \/ Stop \/ Join
    <3>1. UNCHANGED pc /\ harness \notin {"prepare", "end"}
      BY <2>2 DEF Go, Stop, Join
    <3> QED BY <1>0, <2>0, <3>1, PhasesKept DEF InActive
  <2>3. CASE Report
    <3>1. harness' \in {"prepare", "end"} /\ \A t \in Threads : pc'[t] = "none"
      BY <2>3 DEF Report
    <3> QED BY <1>0, <2>0, <3>1, PhasesKept DEF InPhases, PhasesOver
  <2> QED BY <1>3, <2>1, <2>2, <2>3 DEF BenchHarnessStep
<1>4. ASSUME NEW t \in Threads, Step(t) PROVE PhasesInv'
  <2> USE DEF InPhases, PhasesOver, NotBegun
  <2>1. CASE BenchThreadStep(t) /\ UNCHANGED leaderVars
    <3>1. PICK there \in {"spin", "end_time", "exit"} :
            /\ Goto(t, there) /\ harness' = harness
            /\ there = "spin" => pc[t] = "start"
            /\ there /= "spin" => pc[t] \in PhasesOver
            /\ pc[t] /= "shift"
      BY <2>1 DEF BenchThreadStep, CountIn, CountOut, WriteEndTime, Goto
    <3> QED BY <2>1, <3>1, MoveKeepsPhases DEF leaderVars
  <2>2. CASE Begin(t)
    <3>1. CASE Phased /\ t = Leader
      BY <2>2, <3>1, BeginKeepsPhases
    <3>2. CASE ~(Phased /\ t = Leader)
      <4>1. Goto(t, "loop") /\ harness' = harness
        BY <2>2 DEF Begin, SeeGo, Goto
      <4>2. UNCHANGED <<phases, active_duration, no_phases, phase, time_active, active>>
        BY <2>2, <3>2 DEF Begin
      <4> QED BY <3>2, <4>1, <4>2, MoveKeepsPhases
    <3> QED BY <3>1, <3>2
  <2>3. CASE Loop(t)
    <3>1. /\ UNCHANGED <<phases, active_duration, no_phases, phase, time_active, active, harness>>
          /\ pc[t] = "loop"
      BY <2>3 DEF Loop, baseVars, bench, leaderVars
    <3>2. PICK there \in {"end_phases", "save_inserts", "read_active", "insert", "take"} :
            Goto(t, there) /\ (Phased /\ t = Leader => there /= "save_inserts")
      <4>1. CASE Goto(t, IF Phased /\ t = Leader THEN "end_phases" ELSE "save_inserts")
        BY <4>1
      <4>2. CASE \/ Goto(t, "read_active") \/ Goto(t, "insert")
                 \/ Goto(t, IF COMM_NR /= 0 /\ do_enq(t) THEN "insert" ELSE "take")
        BY <4>2
      <4> QED BY <2>3, <4>1, <4>2 DEF Loop
    <3> QED BY <3>1, <3>2, MoveKeepsPhases
  <2>4. CASE ReadActive(t)
    <3>1. /\ UNCHANGED <<phases, active_duration, no_phases, phase, time_active, active, harness>>
          /\ pc[t] = "read_active"
      BY <2>4 DEF ReadActive, baseVars, bench, leaderVars
    <3>2. PICK there \in {"insert", "take", "drain", "prefill", "loop"} : Goto(t, there)
      <4>1. CASE active /= 0
        BY <2>4, <4>1 DEF ReadActive
      <4>2. CASE active = 0 /\ COMM_NR = 4
        BY <2>4, <4>2 DEF ReadActive
      <4>3. CASE active = 0 /\ COMM_NR /= 4
        BY <2>4, <4>3 DEF ReadActive
      <4> QED BY <4>1, <4>2, <4>3
    <3> QED BY <3>1, <3>2, MoveKeepsPhases
  <2>5. CASE Produce(t)
    <3>1. PICK there \in {"loop", "deactivate"} : Goto(t, there) /\ pc[t] = "insert"
      BY <2>5 DEF Produce
    <3>2. UNCHANGED <<phases, active_duration, no_phases, phase, time_active, active, harness>>
      BY <2>5 DEF Produce, Insert, bench, leaderVars
    <3> QED BY <3>1, <3>2, MoveKeepsPhases
  <2>6. CASE Consume(t)
    <3>1. PICK there \in {"loop", "deactivate"} : Goto(t, there) /\ pc[t] = "take"
      BY <2>6 DEF Consume
    <3>2. UNCHANGED <<phases, active_duration, no_phases, phase, time_active, active, harness>>
      BY <2>6 DEF Consume, TryRemove, TryRemoveFails, bench, leaderVars
    <3> QED BY <3>1, <3>2, MoveKeepsPhases
  <2>7. CASE Drain(t)
    <3>1. PICK there \in {"loop", "activate"} : Goto(t, there) /\ pc[t] = "drain"
      BY <2>7 DEF Drain
    <3>2. UNCHANGED <<phases, active_duration, no_phases, phase, time_active, active, harness>>
      BY <2>7 DEF Drain, TryRemove, TryRemoveFails, bench, leaderVars
    <3> QED BY <3>1, <3>2, MoveKeepsPhases
  <2>8. CASE Prefill(t)
    <3>1. PICK there \in {"loop", "activate"} : Goto(t, there) /\ pc[t] = "prefill"
      BY <2>8 DEF Prefill
    <3>2. UNCHANGED <<phases, active_duration, no_phases, phase, time_active, active, harness>>
      BY <2>8 DEF Prefill, Insert, bench, leaderVars
    <3> QED BY <3>1, <3>2, MoveKeepsPhases
  <2>9. CASE Deactivate(t) \/ Activate(t)
    <3>1. t = Leader /\ Phased
      BY <2>9 DEF Deactivate, Activate, LateInv, LeaderSwitches, Roles
    <3>2. \A u \in Threads : pc'[u] = IF u = t THEN "shift" ELSE pc[u]
      BY <2>9 DEF Deactivate, Activate, Goto, BenchTypes
    <3>3. UNCHANGED <<phases, active_duration, no_phases, phase, time_active, harness>>
      BY <2>9 DEF Deactivate, Activate, baseVars, bench
    <3>4. pc[t] \in InPhases /\ (InActive' <=> InActive)
      <4>1. CASE Deactivate(t)
        <5>1. pc[Leader] = "deactivate" /\ active = 1 /\ active' = 0 /\ pc'[Leader] = "shift"
          BY <3>1, <3>2, <4>1 DEF Deactivate, LateInv, LeaderSwitches
        <5> QED BY <1>0, <3>1, <5>1 DEF InActive
      <4>2. CASE Activate(t)
        <5>1. pc[Leader] = "activate" /\ active = 0 /\ active' = 1 /\ pc'[Leader] = "shift"
          BY <3>1, <3>2, <4>2 DEF Activate, Roles
        <5> QED BY <1>0, <3>1, <5>1 DEF InActive
      <4> QED BY <2>9, <4>1, <4>2
    <3> QED BY <3>1, <3>2, <3>3, <3>4, PhasesKept
  <2>10. CASE Shift(t)
    BY <2>10, ShiftKeepsPhases DEF Shift, Roles
  <2>11. CASE EndPhases(t)
    BY <2>11, EndKeepsPhases DEF EndPhases, Roles
  <2>12. CASE SaveStatistics(t)
    <3>1. PICK there \in {"save_removes", "finish"} :
            Goto(t, there) /\ pc[t] \in {"save_inserts", "save_removes"}
      BY <2>12 DEF SaveStatistics, SaveInserts, SaveRemoves
    <3>2. UNCHANGED <<phases, active_duration, no_phases, phase, time_active, active, harness>>
      BY <2>12 DEF SaveStatistics, SaveInserts, SaveRemoves, bench, leaderVars
    <3> QED BY <3>1, <3>2, MoveKeepsPhases
  <2> QED
    BY <1>4, <2>1, <2>2, <2>3, <2>4, <2>5, <2>6, <2>7, <2>8, <2>9, <2>10, <2>11, <2>12
       DEF Step
<1>5. CASE UNCHANGED vars
  BY <1>1, <1>5 DEF vars, baseVars, bench, leaderVars
<1>6. CASE HarnessStep
  BY <1>2, <1>3, <1>6 DEF HarnessStep
<1> QED
  BY <1>4, <1>5, <1>6 DEF Next

\* What is reported of the phases is what the leader went through, whatever
\* the number of phases and of the starts that are kept.
THEOREM ProducerConsumerReportsPhases == Spec => []PhasesReported
<1>1. BenchIInv /\ RolesInv /\ PhasesInv /\ [Next]_vars => PhasesInv'
  BY StepKeepsPhases
<1>2. BenchIInv /\ PhasesInv => PhasesReported
  <2> SUFFICES ASSUME BenchIInv, PhasesInv, harness = "report", Phased
               PROVE  /\ active_duration = ActiveBefore(no_phases)
                      /\ \A k \in Printed : phases[k % MAX_PHASES] = k
    BY DEF PhasesReported, ActiveBefore
  <2>0. MAX_PHASES \in Nat \ {0} /\ no_phases \in Nat
    BY ProducerConsumerAssumption DEF PhasesInv
  <2>1. CASE Leader \in Started
    <3>1. pc[Leader] = "exit"
      BY <2>1 DEF BenchIInv, BenchCreation
    <3>2. Kept(no_phases) /\ active_duration = ActiveBefore(no_phases)
      BY <2>1, <3>1 DEF PhasesInv, PhasesOver
    <3>3. ASSUME NEW k \in Printed PROVE k \in 0 .. no_phases /\ no_phases < k + MAX_PHASES
      <4>1. CASE no_phases < MAX_PHASES
        BY <2>0, <3>3, <4>1 DEF Printed
      <4>2. CASE ~(no_phases < MAX_PHASES)
        BY <2>0, <3>3, <4>2 DEF Printed
      <4> QED BY <4>1, <4>2
    <3> QED BY <3>2, <3>3 DEF Kept
  <2>2. CASE Leader \notin Started
    <3>1. active_duration = 0 /\ no_phases = 0 /\ phases[0] = 0
      BY <2>2 DEF PhasesInv
    <3>2. ActiveBefore(no_phases) = 0
      BY <3>1, 0 \in Nat, ActiveBeforeNext
    <3>3. 0 % MAX_PHASES = 0 /\ 0 < MAX_PHASES
      BY <2>0
    <3>4. Printed = {0}
      BY <3>1, <3>3 DEF Printed
    <3> QED BY <3>1, <3>2, <3>3, <3>4
  <2> QED BY <2>1, <2>2
<1> QED
  BY <1>1, <1>2, InitPhasesInv, RolesInvHolds, BenchIInvHolds, PTL DEF Spec
=============================================================================
