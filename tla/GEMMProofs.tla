----------------------------- MODULE GEMMProofs -----------------------------
(***************************************************************************)
(* What holds of the matrix multiplication for any numbers of threads,     *)
(* implementations and blocks and any bag that misses few enough items:    *)
(* when threads leave (GEMMInv), that producers do not share a row         *)
(* (OwnRows), that inserts and removals are counted (CountInv), and where  *)
(* each block is on its way from a producer to C (WorkInv).                *)
(***************************************************************************)
EXTENDS GEMM, TestBenchProofs

\* GEMM does not touch the variables of the bench in RunImplementationNr and
\* returns from it to "finish".
LEMMA StepImplementsBench ==
  ASSUME BenchTypes, [Next]_vars
  PROVE  [BenchNext]_<<bench, pc>>
<1> USE DEF baseVars, bagVars, Goto, Outside
<1>0. ASSUME NEW t \in Threads, NEW there PROVE [pc EXCEPT ![t] = there][t] = there
  BY DEF BenchTypes
<1>1. CASE HarnessStep
  BY <1>1 DEF HarnessStep, Prepare, BasePrepare, BenchNext
<1>2. ASSUME NEW t \in Threads, Step(t) PROVE [BenchNext]_<<bench, pc>>
  <2> SUFFICES \/ BenchThreadStep(t) \/ Run(t) \/ UNCHANGED <<bench, pc>>
               \/ SeeGo(t, pc'[t]) /\ pc'[t] \notin Outside
    BY DEF BenchNext
  <2>1. CASE Begin(t)
    <3>1. PICK there \in {"blas", "insert"} : SeeGo(t, there)
      BY <2>1 DEF Begin
    <3>2. pc'[t] = there
      BY <3>1, <1>0 DEF SeeGo
    <3> QED BY <3>1, <3>2
  <2>2. CASE MultiplyAll(t) BY <2>2, <1>0 DEF MultiplyAll, Run
  <2>3. CASE InsertBlock(t) BY <2>3 DEF InsertBlock, Insert
  <2>4. CASE Announce(t) BY <2>4, <1>0 DEF Announce, Run
  <2>5. CASE TakeBlock(t) BY <2>5, <1>0 DEF TakeBlock, TryRemove, Run
  <2>6. CASE FindNoBlock(t) BY <2>6, <1>0 DEF FindNoBlock, TryRemoveFails, Run
  <2>7. CASE CopyFrom(t) BY <2>7, <1>0 DEF CopyFrom, Run
  <2>8. CASE CopyTo(t) BY <2>8, <1>0 DEF CopyTo, Run
  <2>9. CASE Check(t) BY <2>9, <1>0 DEF Check, Run
  <2>10. CASE SaveStatistics(t)
    BY <2>10, <1>0 DEF SaveStatistics, SaveInserts, SaveRemoves, Run
  <2>11. CASE BenchThreadStep(t) BY <2>11
  <2> QED
    BY <1>2, <2>1, <2>2, <2>3, <2>4, <2>5, <2>6, <2>7, <2>8, <2>9, <2>10, <2>11
       DEF Step
<1>3. CASE UNCHANGED vars
  BY <1>3 DEF vars
<1> QED
  BY <1>1, <1>2, <1>3 DEF Next

\* GEMM is an experiment of the bench.
LEMMA InitImplementsBench == Init => BenchInit
  BY DEF Init, BaseInit

\* The invariant of the bench holds in GEMM.
LEMMA BenchIInvHolds == Spec => []BenchIInv
<1>1. BenchIInv /\ [Next]_vars => BenchIInv'
  BY StepImplementsBench, BenchStepKeepsIInv DEF BenchIInv
<1>2. Init => BenchIInv
  BY InitImplementsBench, InitBenchInv
<1> QED
  BY <1>1, <1>2, PTL DEF Spec

\* GEMM in the bench is the bench with some experiment: whatever is proved of
\* the bench holds of it.
THEOREM GEMMImplementsBench == Spec => BenchSpec
<1>1. BenchIInv /\ [Next]_vars => [BenchNext]_<<bench, pc>>
  BY StepImplementsBench DEF BenchIInv
<1> QED
  BY <1>1, BenchIInvHolds, InitImplementsBench, PTL DEF Spec, BenchSpec

-----------------------------------------------------------------------------
Working == {"remove", "check", "copy_from", "copy_to"}
Leaving == {"save_inserts", "save_removes", "finish", "end_time", "exit"}

\* The threads that have counted themselves in added.
Announced == {t \in Started : pc[t] \in Working \cup Leaving}

GEMMTypes ==
  /\ NR_CPUS = nrThreads
  /\ added \in Nat
  /\ bag \in [Items -> Nat]
  /\ misses \in [Threads -> 0 .. MaxMisses]
  /\ exiting \in [Threads -> Nat]

\* A single thread never uses the bag; of several each counts itself when it
\* has put its blocks there.
AddedCounts ==
  /\ NR_CPUS = 1 => BagIsEmpty /\ \A t \in Started :
                       pc[t] \in {"none", "start", "spin", "blas"} \cup Leaving
  /\ NR_CPUS /= 1 => \A t \in Started : pc[t] /= "blas"
  /\ NR_CPUS /= 1 /\ harness \notin {"prepare", "end"} =>
       added = Cardinality(Announced)

\* As long as there are blocks a thread has seen no more empty bags after the
\* last announcement than the bag missed items for it, and one more at most.
ExitingBound ==
  /\ added /= NR_CPUS => \A t \in Threads : exiting[t] = 0
  /\ ~BagIsEmpty =>
       \A t \in Threads :
         /\ exiting[t] <= misses[t] + 1
         /\ pc[t] = "check" => exiting[t] <= misses[t]

\* A thread of several leaves when all have announced themselves and the bag
\* is empty.
LeaversLast ==
  NR_CPUS /= 1 =>
    \A t \in Started : pc[t] \in Leaving => added = NR_CPUS /\ BagIsEmpty

GEMMInv == GEMMTypes /\ AddedCounts /\ ExitingBound /\ LeaversLast

-----------------------------------------------------------------------------
\* The object counts all threads the bench may start.
LEMMA AllThreadsCounted ==
  ASSUME nrThreads \in NrThreads
  PROVE  Min({nrThreads, MaxCPUS}) = nrThreads
<1>1. nrThreads \in 1 .. MaxCPUS /\ MaxCPUS \in Nat
  BY GEMMAssumption, BaseAssumption
<1> QED
  BY <1>1 DEF Min

\* Every announced thread is started, so that there are no more of them, and
\* as many only when all are.
LEMMA AnnouncedBound ==
  ASSUME nrThreads \in NrThreads
  PROVE  /\ IsFiniteSet(Announced) /\ Cardinality(Announced) \in Nat
         /\ Cardinality(Announced) = nrThreads => Announced = Started
<1>1. Announced \in SUBSET Started /\ Started \cap Announced = Announced
  BY DEF Announced
<1>2. IsFiniteSet(Announced) /\ Cardinality(Announced) \in Nat
  BY <1>1, StartedThreads, FS_Subset, FS_CardinalityType
<1>3. /\ IsFiniteSet(Started \ Announced)
      /\ Cardinality(Started \ Announced) = nrThreads - Cardinality(Announced)
  <2>1. IsFiniteSet(Started) /\ Cardinality(Started) = nrThreads
    BY StartedThreads
  <2> QED BY <1>1, <2>1, FS_Difference, ZenonT(30)
<1>4. Cardinality(Announced) = nrThreads => Started \ Announced = {}
  BY <1>2, <1>3, StartedThreads, FS_EmptySet
<1> QED
  BY <1>1, <1>2, <1>4

\* GEMM starts in its invariant.
LEMMA InitGEMMInv == Init => GEMMInv
<1> SUFFICES ASSUME Init PROVE GEMMInv
  OBVIOUS
<1>1. NR_CPUS = nrThreads /\ BagIsEmpty
  BY AllThreadsCounted DEF Init, BaseInit, BenchInit, BagIsEmpty
<1>2. GEMMTypes
  BY <1>1, BaseAssumption DEF Init, BaseInit, GEMMTypes
<1>3. \A t \in Started : pc[t] = "none"
  BY StartedThreads DEF Init, BaseInit, BenchInit
<1>4. AddedCounts
  BY <1>1, <1>3 DEF AddedCounts, Init, BaseInit, BenchInit
<1>5. ExitingBound /\ LeaversLast
  BY <1>1, <1>3 DEF ExitingBound, LeaversLast, Leaving, Init
<1> QED
  BY <1>2, <1>4, <1>5 DEF GEMMInv

\* A step of a started thread changes Announced only by that thread.
LEMMA StepAnnounced ==
  ASSUME BenchIInv, NEW t \in Started, NEW there,
         pc' = [pc EXCEPT ![t] = there], nrThreads' = nrThreads
  PROVE  /\ Started' = Started
         /\ \A u \in Threads : pc'[u] = IF u = t THEN there ELSE pc[u]
         /\ Announced' = IF there \in Working \cup Leaving
                         THEN Announced \cup {t} ELSE Announced \ {t}
<1>1. Started' = Started /\ t \in Threads /\ Started \subseteq Threads
  BY StartedThreads DEF Started, BenchIInv, BenchTypes
<1>2. \A u \in Threads : pc'[u] = IF u = t THEN there ELSE pc[u]
  BY <1>1 DEF BenchIInv, BenchTypes
<1> QED
  BY <1>1, <1>2 DEF Announced

\* The harness keeps the invariant: it only starts threads, lets them go and
\* prepares the counter when there are none.
LEMMA HarnessKeepsGEMMInv == BenchIInv /\ GEMMInv /\ HarnessStep => GEMMInv'
<1> SUFFICES ASSUME BenchIInv, GEMMInv, HarnessStep PROVE GEMMInv'
  OBVIOUS
<1> USE DEF BenchIInv, GEMMInv, bagVars
<1>0. /\ nrThreads' = nrThreads /\ NR_CPUS' = NR_CPUS /\ Started' = Started
      /\ Started \subseteq Threads /\ nrThreads \in NrThreads
  BY StartedThreads DEF HarnessStep, Prepare, BasePrepare, BenchPrepare,
     BenchHarnessStep, Create, Go, Stop, Join, Report, Started, BenchTypes
<1>1. CASE Prepare
  <2>1. harness = "prepare" /\ harness' = "create" /\ added' = 0
        /\ bag' = [i \in Items |-> 0] /\ misses' = [t \in Threads |-> 0]
        /\ exiting' = [t \in Threads |-> 0] /\ pc' = pc
    BY <1>1 DEF Prepare, BasePrepare, BenchPrepare
  <2>2. \A t \in Threads : pc[t] = "none"
    BY <2>1 DEF BenchCreation
  <2>3. Announced' = {} /\ BagIsEmpty'
    BY <1>0, <2>1, <2>2 DEF Announced, Working, Leaving, BagIsEmpty
  <2>4. GEMMTypes'
    BY <1>0, <2>1, BaseAssumption DEF GEMMTypes
  <2>5. AddedCounts'
    BY <1>0, <2>1, <2>2, <2>3, FS_EmptySet DEF AddedCounts
  <2>6. ExitingBound' /\ LeaversLast'
    BY <1>0, <2>1, <2>2, <2>3 DEF ExitingBound, LeaversLast, Leaving
  <2> QED BY <2>4, <2>5, <2>6
<1>2. ASSUME BenchHarnessStep, UNCHANGED <<bagVars, added, locals, C>>
      PROVE  GEMMInv'
  <2>1. /\ GEMMTypes' /\ BagIsEmpty' = BagIsEmpty
        /\ UNCHANGED <<added, exiting, misses>>
    BY <1>0, <1>2 DEF GEMMTypes, locals, BagIsEmpty
  <2>2. CASE Go \/ Stop \/ Join
    <3>1. pc' = pc /\ harness \notin {"prepare", "end"} /\ Announced' = Announced
      BY <1>0, <2>2 DEF Go, Stop, Join, Announced
    <3> QED BY <1>0, <2>1, <3>1 DEF AddedCounts, ExitingBound, LeaversLast
  <2>3. CASE Create
    <3>1. PICK i \in Started : pc' = [pc EXCEPT ![i] = "start"] /\ pc[i] = "none"
      BY <2>3, CreateNext
    <3>2. /\ \A u \in Threads : pc'[u] = IF u = i THEN "start" ELSE pc[u]
          /\ Announced' = Announced
      <4>1. i \notin Announced /\ "start" \notin Working \cup Leaving
        BY <3>1 DEF Announced, Working, Leaving
      <4>2. /\ \A u \in Threads : pc'[u] = IF u = i THEN "start" ELSE pc[u]
            /\ Announced' = Announced \ {i}
        BY <1>0, <3>1, <4>1, StepAnnounced
      <4> QED BY <4>1, <4>2
    <3>3. harness = "create"
      BY <2>3 DEF Create
    <3>4. AddedCounts'
      BY <1>0, <2>1, <3>1, <3>2, <3>3 DEF AddedCounts
    <3>5. ExitingBound'
      BY <1>0, <2>1, <3>1, <3>2 DEF ExitingBound
    <3>6. LeaversLast'
      BY <1>0, <2>1, <3>1, <3>2 DEF LeaversLast, Leaving
    <3> QED BY <2>1, <3>4, <3>5, <3>6
  <2>4. CASE Report
    <3>1. harness' \in {"prepare", "end"} /\ \A t \in Threads : pc'[t] = "none"
      BY <2>4 DEF Report
    <3>2. AddedCounts'
      BY <1>0, <2>1, <3>1 DEF AddedCounts
    <3>3. ExitingBound'
      <4>1. \A t \in Threads : pc'[t] /= "check"
        BY <3>1
      <4>2. \A t \in Threads : exiting[t] \in Nat /\ misses[t] \in Nat
        BY BaseAssumption DEF GEMMTypes
      <4> QED BY <1>0, <2>1, <4>1, <4>2 DEF ExitingBound
    <3>4. LeaversLast'
      BY <1>0, <2>1, <3>1 DEF LeaversLast, Leaving
    <3> QED BY <2>1, <3>2, <3>3, <3>4
  <2> QED BY <1>2, <2>2, <2>3, <2>4 DEF BenchHarnessStep
<1> QED
  BY <1>1, <1>2 DEF HarnessStep

-----------------------------------------------------------------------------
\* A step that only moves a thread, within the announced or within the others,
\* and lets none leave that did not before unless it is the only one.
LEMMA MoveKeepsGEMMInv ==
  ASSUME BenchIInv, GEMMInv, NEW t \in Started, NEW there,
         pc' = [pc EXCEPT ![t] = there],
         UNCHANGED <<harness, nrThreads, NR_CPUS, added, bag, misses, exiting>>,
         there /= "check",
         NR_CPUS = 1 => there \in {"spin", "blas"} \cup Leaving,
         NR_CPUS /= 1 =>
           /\ there /= "blas"
           /\ there \in Leaving => pc[t] \in Leaving
           /\ there \in Working \cup Leaving <=> pc[t] \in Working \cup Leaving
  PROVE  GEMMInv'
<1> USE DEF GEMMInv
<1>1. /\ Started' = Started /\ Started \subseteq Threads
      /\ \A u \in Threads : pc'[u] = IF u = t THEN there ELSE pc[u]
      /\ Announced' = IF there \in Working \cup Leaving
                      THEN Announced \cup {t} ELSE Announced \ {t}
  BY StepAnnounced, StartedThreads DEF BenchIInv, BenchTypes
<1>2. NR_CPUS /= 1 => Announced' = Announced
  BY <1>1 DEF Announced
<1>3. GEMMTypes' /\ BagIsEmpty' = BagIsEmpty
  BY DEF GEMMTypes, BagIsEmpty
<1>4. AddedCounts'
  BY <1>1, <1>2, <1>3 DEF AddedCounts
<1>5. ExitingBound'
  <2>1. \A u \in Threads : exiting[u] \in Nat /\ misses[u] \in Nat
    BY BaseAssumption DEF GEMMTypes
  <2> QED BY <1>1, <1>3, <2>1 DEF ExitingBound
<1>6. LeaversLast'
  BY <1>1, <1>3 DEF LeaversLast
<1> QED
  BY <1>3, <1>4, <1>5, <1>6

\* While a thread of several inserts blocks not all are announced.
LEMMA InsertingNotAnnounced ==
  ASSUME BenchIInv, GEMMInv, NEW t \in Started, pc[t] = "insert"
  PROVE  /\ NR_CPUS /= 1 /\ added /= NR_CPUS
         /\ added = Cardinality(Announced) /\ t \notin Announced
         /\ \A u \in Started : pc[u] \notin Leaving
<1> USE DEF BenchIInv, GEMMInv
<1>1. t \in Threads /\ nrThreads \in NrThreads /\ NR_CPUS = nrThreads
  BY StartedThreads DEF BenchTypes, GEMMTypes
<1>2. NR_CPUS /= 1
  BY DEF AddedCounts, Leaving
<1>3. added = Cardinality(Announced) /\ t \notin Announced
  BY <1>1, <1>2, RunningThread DEF AddedCounts, Announced, Working, Leaving
<1>4. added /= NR_CPUS
  BY <1>1, <1>3, AnnouncedBound
<1> QED
  BY <1>2, <1>3, <1>4 DEF LeaversLast

\* The steps of the threads keep the invariant.
LEMMA StepKeepsGEMMInv ==
  ASSUME BenchIInv, GEMMInv, NEW t \in Threads, Step(t)
  PROVE  GEMMInv'
<1> USE DEF GEMMInv
<1>0. pc[t] /= "none"
  BY DEF Step, BenchThreadStep, CountIn, CountOut, WriteEndTime, Begin, SeeGo,
     MultiplyAll, InsertBlock, Announce, TakeBlock, FindNoBlock, CopyFrom, CopyTo,
     Check, SaveStatistics, SaveInserts, SaveRemoves
<1>1. t \in Started /\ harness \notin {"prepare", "end"}
  BY <1>0, RunningThread
<1>2. /\ nrThreads \in NrThreads /\ Started \subseteq Threads
      /\ NR_CPUS = nrThreads /\ added \in Nat
      /\ \A u \in Threads : exiting[u] \in Nat /\ misses[u] \in 0 .. MaxMisses
                              /\ misses[u] \in Nat
  BY StartedThreads, BaseAssumption DEF BenchIInv, BenchTypes, GEMMTypes
<1>3. pc[t] \in Working => NR_CPUS /= 1
  BY <1>1 DEF AddedCounts, Working, Leaving
<1>4. pc[t] = "blas" => NR_CPUS = 1
  BY <1>1 DEF AddedCounts
<1>5. CASE BenchThreadStep(t) /\ UNCHANGED <<bagVars, added, locals, C>>
  <2>1. PICK there \in {"spin", "end_time", "exit"} :
          /\ pc' = [pc EXCEPT ![t] = there]
          /\ \/ there = "spin" /\ pc[t] = "start"
             \/ there /= "spin" /\ pc[t] \in {"finish", "end_time"}
          /\ UNCHANGED <<harness, nrThreads>>
    BY <1>5 DEF BenchThreadStep, CountIn, CountOut, WriteEndTime
  <2> QED
    BY <1>1, <1>5, <2>1, MoveKeepsGEMMInv DEF Working, Leaving, bagVars, locals
<1>6. CASE Begin(t)
  <2>1. PICK there \in {"blas", "insert"} :
          /\ pc' = [pc EXCEPT ![t] = there] /\ pc[t] = "spin"
          /\ there = "blas" <=> NR_CPUS = 1
          /\ UNCHANGED <<harness, nrThreads>>
    BY <1>6 DEF Begin, SeeGo
  <2> QED
    BY <1>1, <1>6, <2>1, MoveKeepsGEMMInv DEF Working, Leaving, bagVars, locals, Begin
<1>7. CASE MultiplyAll(t)
  BY <1>1, <1>4, <1>7, MoveKeepsGEMMInv
     DEF MultiplyAll, Working, Leaving, Goto, baseVars, bagVars, bench, locals
<1>8. CASE SaveStatistics(t)
  <2>1. PICK there \in {"save_removes", "finish"} :
          /\ pc' = [pc EXCEPT ![t] = there]
          /\ pc[t] \in {"save_inserts", "save_removes"}
          /\ UNCHANGED <<harness, nrThreads, NR_CPUS, added, bag, misses, exiting>>
    BY <1>8 DEF SaveStatistics, SaveInserts, SaveRemoves, Goto, bench, locals
  <2> QED
    BY <1>1, <2>1, MoveKeepsGEMMInv DEF Working, Leaving
<1>9. CASE CopyFrom(t) \/ CopyTo(t)
  <2>1. PICK there \in {"copy_to", "remove"} :
          /\ pc' = [pc EXCEPT ![t] = there] /\ pc[t] \in Working
          /\ UNCHANGED <<harness, nrThreads, NR_CPUS, added, bag, misses, exiting>>
    BY <1>9 DEF CopyFrom, CopyTo, Goto, baseVars, bagVars, bench, Working
  <2> QED
    BY <1>1, <1>3, <2>1, MoveKeepsGEMMInv DEF Working, Leaving
<1>10. CASE InsertBlock(t)
  <2>1. PICK b : bag' = [bag EXCEPT ![b] = bag[b] + 1]
    BY <1>10 DEF InsertBlock, Insert
  <2>2. pc[t] = "insert"
        /\ UNCHANGED <<pc, harness, nrThreads, NR_CPUS, added, misses, exiting>>
    BY <1>10 DEF InsertBlock, Insert, bench
  <2>3. Started' = Started /\ Announced' = Announced
    BY <2>2 DEF Started, Announced
  <2>4. /\ NR_CPUS /= 1 /\ added /= NR_CPUS
        /\ \A u \in Started : pc[u] \notin Leaving
    BY <1>1, <2>2, InsertingNotAnnounced
  <2>5. GEMMTypes'
    <3>1. CASE b \in Items BY <2>1, <2>2, <3>1 DEF GEMMTypes
    <3>2. CASE b \notin Items
      <4>1. bag' = bag BY <2>1, <3>2 DEF GEMMTypes
      <4> QED BY <2>2, <4>1 DEF GEMMTypes
    <3> QED BY <3>1, <3>2
  <2>6. AddedCounts'
    BY <2>2, <2>3, <2>4 DEF AddedCounts
  <2>7. ExitingBound'
    BY <1>2, <2>2, <2>4 DEF ExitingBound
  <2>8. LeaversLast'
    BY <2>2, <2>3, <2>4 DEF LeaversLast
  <2> QED BY <2>5, <2>6, <2>7, <2>8
<1>11. CASE Announce(t)
  <2>1. /\ pc[t] = "insert" /\ added' = added + 1
        /\ pc' = [pc EXCEPT ![t] = "remove"]
        /\ UNCHANGED <<harness, nrThreads, NR_CPUS, bag, misses, exiting>>
    BY <1>11 DEF Announce, Goto, baseVars, bagVars, bench, locals
  <2>2. /\ NR_CPUS /= 1 /\ added /= NR_CPUS
        /\ added = Cardinality(Announced) /\ t \notin Announced
        /\ \A u \in Started : pc[u] \notin Leaving
    BY <1>1, <2>1, InsertingNotAnnounced
  <2>3. /\ Started' = Started /\ Announced' = Announced \cup {t}
        /\ \A u \in Threads : pc'[u] = IF u = t THEN "remove" ELSE pc[u]
    BY <1>1, <2>1, StepAnnounced, "remove" \in Working \cup Leaving DEF Working
  <2>4. Cardinality(Announced') = added'
    BY <1>2, <2>1, <2>2, <2>3, AnnouncedBound, FS_AddElement
  <2>5. GEMMTypes' /\ BagIsEmpty' = BagIsEmpty
    BY <1>2, <2>1 DEF GEMMTypes, BagIsEmpty
  <2>6. AddedCounts'
    BY <1>2, <2>1, <2>2, <2>3, <2>4 DEF AddedCounts
  <2>7. ExitingBound'
    BY <1>2, <2>1, <2>2, <2>3 DEF ExitingBound
  <2>8. LeaversLast'
    BY <1>2, <2>1, <2>2, <2>3 DEF LeaversLast, Leaving
  <2> QED BY <2>5, <2>6, <2>7, <2>8
<1>12. ASSUME NEW there \in {"copy_from", "check", "remove", "save_inserts"},
              pc' = [pc EXCEPT ![t] = there], pc[t] \in Working,
              UNCHANGED <<harness, nrThreads, NR_CPUS, added>>
       PROVE  /\ NR_CPUS /= 1 /\ Started' = Started /\ AddedCounts'
              /\ \A u \in Threads : pc'[u] = IF u = t THEN there ELSE pc[u]
  <2>1. t \in Announced /\ there \in Working \cup Leaving
    BY <1>1, <1>12 DEF Announced, Working, Leaving
  <2>2. /\ Started' = Started /\ Announced' = Announced \cup {t}
        /\ \A u \in Threads : pc'[u] = IF u = t THEN there ELSE pc[u]
    BY <1>1, <1>12, <2>1, StepAnnounced
  <2>3. Announced' = Announced /\ NR_CPUS /= 1
    BY <1>3, <1>12, <2>1, <2>2
  <2>4. AddedCounts'
    BY <1>2, <1>12, <2>2, <2>3 DEF AddedCounts
  <2> QED BY <2>2, <2>3, <2>4
<1>13. CASE TakeBlock(t)
  <2>1. PICK b \in Items : bag[b] > 0 /\ bag' = [bag EXCEPT ![b] = bag[b] - 1]
    BY <1>13 DEF TakeBlock, TryRemove, Blocks
  <2>2. /\ pc[t] = "remove" /\ pc' = [pc EXCEPT ![t] = "copy_from"]
        /\ UNCHANGED <<harness, nrThreads, NR_CPUS, added, misses, exiting>>
    BY <1>13 DEF TakeBlock, TryRemove, Goto, bench
  <2>3. /\ NR_CPUS /= 1 /\ Started' = Started /\ AddedCounts'
        /\ \A u \in Threads : pc'[u] = IF u = t THEN "copy_from" ELSE pc[u]
    BY <1>12, <2>2 DEF Working
  <2>4. ~BagIsEmpty
    BY <2>1 DEF BagIsEmpty, GEMMTypes
  <2>5. GEMMTypes'
    BY <2>1, <2>2 DEF GEMMTypes
  <2>6. ExitingBound'
    BY <1>2, <2>2, <2>3, <2>4 DEF ExitingBound
  <2>7. LeaversLast'
    BY <1>2, <2>2, <2>3, <2>4 DEF LeaversLast, Leaving
  <2> QED BY <2>3, <2>5, <2>6, <2>7
<1>14. CASE FindNoBlock(t)
  <2>1. /\ pc[t] = "remove" /\ pc' = [pc EXCEPT ![t] = "check"]
        /\ UNCHANGED <<harness, nrThreads, NR_CPUS, added, bag, exiting>>
        /\ \/ BagIsEmpty /\ misses' = misses
           \/ /\ misses[t] < MaxMisses
              /\ misses' = [misses EXCEPT ![t] = misses[t] + 1]
    BY <1>14 DEF FindNoBlock, TryRemoveFails, Goto, bench, locals
  <2>2. /\ NR_CPUS /= 1 /\ Started' = Started /\ AddedCounts'
        /\ \A u \in Threads : pc'[u] = IF u = t THEN "check" ELSE pc[u]
    BY <1>12, <2>1 DEF Working
  <2>3. GEMMTypes' /\ BagIsEmpty' = BagIsEmpty
    BY <1>2, <2>1, BaseAssumption DEF GEMMTypes, BagIsEmpty
  <2>4. ExitingBound'
    <3>1. \A u \in Threads : u /= t => misses'[u] = misses[u]
      BY <2>1 DEF GEMMTypes
    <3>2. ~BagIsEmpty => misses'[t] = misses[t] + 1
      BY <1>1, <1>2, <2>1 DEF GEMMTypes
    <3> QED BY <1>1, <1>2, <2>1, <2>2, <2>3, <3>1, <3>2 DEF ExitingBound
  <2>5. LeaversLast'
    BY <1>2, <2>1, <2>2, <2>3 DEF LeaversLast, Leaving
  <2> QED BY <2>2, <2>3, <2>4, <2>5
<1>15. CASE Check(t)
  <2>1. PICK there \in {"remove", "save_inserts"} :
          /\ pc[t] = "check" /\ pc' = [pc EXCEPT ![t] = there]
          /\ there = "save_inserts" => added = NR_CPUS /\ exiting[t] > MaxExiting
          /\ UNCHANGED <<harness, nrThreads, NR_CPUS, added, bag, misses>>
          /\ \/ exiting' = exiting
             \/ /\ there = "remove" /\ added = NR_CPUS
                /\ exiting' = [exiting EXCEPT ![t] = exiting[t] + 1]
    <3> USE <1>15 DEF Check, Goto, baseVars, bagVars, bench
    <3>1. CASE added = NR_CPUS /\ exiting[t] > MaxExiting
      BY <3>1
    <3>2. CASE added = NR_CPUS /\ ~(exiting[t] > MaxExiting)
      BY <3>2
    <3>3. CASE added /= NR_CPUS
      <4>1. exiting' = exiting
        BY <3>3 DEF GEMMTypes
      <4> QED BY <3>3, <4>1
    <3> QED BY <3>1, <3>2, <3>3
  <2>2. /\ NR_CPUS /= 1 /\ Started' = Started /\ AddedCounts'
        /\ \A u \in Threads : pc'[u] = IF u = t THEN there ELSE pc[u]
    BY <1>12, <2>1 DEF Working
  <2>3. GEMMTypes' /\ BagIsEmpty' = BagIsEmpty
    BY <1>2, <2>1 DEF GEMMTypes, BagIsEmpty
  <2>4. ExitingBound'
    <3>1. /\ \A u \in Threads : u /= t => exiting'[u] = exiting[u]
          /\ added /= NR_CPUS => exiting' = exiting
      BY <1>2, <2>1 DEF GEMMTypes
    <3>2. exiting'[t] = exiting[t] \/ exiting'[t] = exiting[t] + 1
      BY <1>1, <1>2, <2>1 DEF GEMMTypes
    <3>3. exiting'[t] \in Nat /\ \A u \in Threads : exiting'[u] \in Nat
      BY <1>1, <1>2, <2>3 DEF GEMMTypes
    <3>4. added' /= NR_CPUS' => \A u \in Threads : exiting'[u] = 0
      BY <2>1, <3>1 DEF ExitingBound
    <3>5. ASSUME ~BagIsEmpty', NEW u \in Threads
          PROVE  /\ exiting'[u] <= misses'[u] + 1
                 /\ pc'[u] = "check" => exiting'[u] <= misses'[u]
      <4>1. /\ misses' = misses /\ exiting[u] <= misses[u] + 1
            /\ pc[u] = "check" => exiting[u] <= misses[u]
        BY <2>1, <2>3, <3>5 DEF ExitingBound
      <4>2. CASE u = t
        BY <1>2, <2>1, <2>2, <3>3, <3>2, <4>1, <4>2
      <4>3. CASE u /= t
        BY <2>2, <3>1, <4>1, <4>3
      <4> QED BY <4>2, <4>3
    <3> QED BY <3>4, <3>5 DEF ExitingBound
  <2>5. there = "save_inserts" => BagIsEmpty
    BY <1>1, <1>2, <2>1, GEMMAssumption, BaseAssumption DEF ExitingBound
  <2>6. LeaversLast'
    BY <1>2, <2>1, <2>2, <2>3, <2>5 DEF LeaversLast, Leaving
  <2> QED BY <2>2, <2>3, <2>4, <2>6
<1> QED
  BY <1>5, <1>6, <1>7, <1>8, <1>9, <1>10, <1>11, <1>13, <1>14, <1>15
     DEF Step

\* Stuttering keeps the invariant.
LEMMA StutterKeepsGEMMInv ==
  ASSUME GEMMInv, UNCHANGED vars
  PROVE  GEMMInv'
<1> USE DEF vars, baseVars, bagVars, bench, locals
<1>1. Started' = Started /\ Announced' = Announced /\ BagIsEmpty' = BagIsEmpty
  BY DEF Started, Announced, BagIsEmpty
<1> QED
  BY <1>1 DEF GEMMInv, GEMMTypes, AddedCounts, ExitingBound, LeaversLast

-----------------------------------------------------------------------------
\* Who has left knows that no block is left and none to come: those that leave
\* are announced, and all are.
LEMMA InvLeavesWhenDrained == BenchIInv /\ GEMMInv => LeavesWhenDrained
<1> SUFFICES ASSUME BenchIInv, GEMMInv,
                    NEW t \in Threads, pc[t] \in Leaving
             PROVE  BagIsEmpty /\ \A u \in Started : pc[u] \notin {"start", "spin", "insert"}
  BY DEF LeavesWhenDrained, Leaving
<1> USE DEF BenchIInv, GEMMInv
<1>1. /\ t \in Started /\ nrThreads \in NrThreads /\ NR_CPUS = nrThreads
      /\ harness \notin {"prepare", "end"}
  BY RunningThread DEF Leaving, BenchTypes, GEMMTypes
<1>2. CASE NR_CPUS = 1
  <2>1. \A u \in Started : u = t
    BY <1>1, <1>2 DEF Started
  <2> QED BY <1>1, <1>2, <2>1 DEF AddedCounts, Leaving
<1>3. CASE NR_CPUS /= 1
  <2>1. added = NR_CPUS /\ BagIsEmpty
    BY <1>1, <1>3 DEF LeaversLast
  <2>2. Announced = Started
    BY <1>1, <1>3, <2>1, AnnouncedBound DEF AddedCounts
  <2> QED BY <2>1, <2>2 DEF Announced, Working, Leaving
<1> QED
  BY <1>2, <1>3

\* A thread stops only when the bag is empty and every thread has put its
\* blocks there, although the bag may miss items as often as the thread checks.
THEOREM GEMMLeavesWhenDrained == Spec => []LeavesWhenDrained
<1>1. Init => GEMMInv
  BY InitGEMMInv
<1>2. BenchIInv /\ GEMMInv /\ [Next]_vars => GEMMInv'
  BY HarnessKeepsGEMMInv, StepKeepsGEMMInv, StutterKeepsGEMMInv DEF Next
<1> QED
  BY <1>1, <1>2, BenchIInvHolds, InvLeavesWhenDrained, PTL DEF Spec
-----------------------------------------------------------------------------
Underway == harness \notin {"prepare", "end"}

\* A thread goes through its own rows only, and is through when it announces
\* itself.
OwnRows ==
  /\ next \in [Threads -> Nat \X Nat]
  /\ \A t \in Started :
       /\ next[t][1] % NR_CPUS = t /\ next[t][2] < NB
       /\ Underway /\ NR_CPUS /= 1 /\ pc[t] \in Working \cup Leaving =>
            next[t][1] >= NB

\* The first row of a thread is one of its rows.
LEMMA FirstRows ==
  ASSUME nrThreads \in NrThreads, NEW first, first = [t \in Threads |-> <<t, 0>>]
  PROVE  /\ first \in [Threads -> Nat \X Nat]
         /\ \A t \in Started : first[t][1] % nrThreads = t /\ first[t][2] < NB
<1>1. nrThreads \in Nat \ {0}
  BY StartedThreads
<1>2. \A t \in Threads : t \in Nat
  BY BenchAssumption DEF Threads
<1>3. first \in [Threads -> Nat \X Nat]
  BY <1>2
<1>4. ASSUME NEW t \in Started PROVE first[t][1] % nrThreads = t /\ first[t][2] < NB
  <2>1. first[t][1] = t /\ first[t][2] = 0 /\ t \in Nat /\ t < nrThreads
    BY <1>1, StartedThreads DEF Started
  <2>2. t % nrThreads = t
    BY <1>1, <2>1
  <2> QED BY <2>1, <2>2, GEMMAssumption
<1> QED
  BY <1>3, <1>4

\* GEMM starts each thread on its first row.
LEMMA InitOwnRows == Init => OwnRows
<1> SUFFICES ASSUME Init PROVE OwnRows
  OBVIOUS
<1>1. /\ nrThreads \in NrThreads /\ NR_CPUS = nrThreads
      /\ next = [t \in Threads |-> <<t, 0>>]
      /\ \A t \in Threads : pc[t] = "none"
  BY AllThreadsCounted DEF Init, BaseInit, BenchInit
<1>2. \A t \in Started : pc[t] \notin Working \cup Leaving
  BY <1>1, StartedThreads DEF Working, Leaving
<1> QED
  BY <1>1, <1>2, FirstRows DEF OwnRows

\* Every step keeps to the rows of the thread that takes it.
LEMMA StepKeepsOwnRows ==
  ASSUME BenchIInv, GEMMInv, OwnRows, [Next]_vars
  PROVE  OwnRows'
<1> USE DEF GEMMInv
<1>0. /\ nrThreads' = nrThreads /\ NR_CPUS' = NR_CPUS /\ Started' = Started
      /\ nrThreads \in NrThreads /\ NR_CPUS = nrThreads /\ NR_CPUS \in Nat \ {0}
      /\ Started \subseteq Threads
  <2>1. nrThreads' = nrThreads /\ NR_CPUS' = NR_CPUS
    BY DEF Next, HarnessStep, Prepare, BasePrepare, BenchPrepare, BenchHarnessStep,
       Create, Go, Stop, Join, Report, Step, BenchThreadStep, CountIn, CountOut,
       WriteEndTime, Begin, SeeGo, MultiplyAll, InsertBlock, Insert, Announce,
       TakeBlock, TryRemove, FindNoBlock, TryRemoveFails, CopyFrom, CopyTo, Check,
       SaveStatistics, SaveInserts, SaveRemoves, baseVars, bagVars, bench, vars
  <2> QED
    BY <2>1, StartedThreads DEF Started, BenchIInv, BenchTypes, GEMMTypes
<1>1. CASE Prepare
  <2>1. pc' = pc /\ harness = "prepare" /\ next' = [t \in Threads |-> <<t, 0>>]
    BY <1>1 DEF Prepare, BasePrepare, BenchPrepare
  <2>2. \A t \in Started' : pc'[t] \notin Working \cup Leaving
    BY <1>0, <2>1 DEF BenchIInv, BenchCreation, Working, Leaving
  <2>3. /\ next' \in [Threads -> Nat \X Nat]
        /\ \A t \in Started : next'[t][1] % nrThreads = t /\ next'[t][2] < NB
    BY <1>0, <2>1, FirstRows
  <2> QED
    BY <1>0, <2>2, <2>3 DEF OwnRows
<1>2. ASSUME next' = next, Underway' => Underway,
             Underway' => \A t \in Started :
               pc'[t] \in Working \cup Leaving => \/ pc[t] \in Working \cup Leaving
                                                  \/ next[t][1] >= NB
                                                  \/ NR_CPUS = 1
      PROVE  OwnRows'
  BY <1>0, <1>2 DEF OwnRows
<1>3. ASSUME BenchHarnessStep, next' = next PROVE OwnRows'
  <2>1. CASE Go \/ Stop \/ Join
    BY <1>2, <1>3, <2>1 DEF Go, Stop, Join, Underway
  <2>2. CASE Create
    <3>1. PICK i \in Started : pc' = [pc EXCEPT ![i] = "start"]
      BY <2>2, CreateNext
    <3>2. \A u \in Threads : pc'[u] = IF u = i THEN "start" ELSE pc[u]
      BY <1>0, <3>1 DEF BenchIInv, BenchTypes
    <3> QED BY <1>0, <1>2, <1>3, <2>2, <3>2 DEF Create, Underway, Working, Leaving
  <2>3. CASE Report
    BY <1>2, <1>3, <2>3 DEF Report, Underway
  <2> QED
    BY <1>3, <2>1, <2>2, <2>3 DEF BenchHarnessStep
<1>4. ASSUME NEW t \in Threads, Step(t) PROVE OwnRows'
  <2>0. harness' = harness
    BY <1>4 DEF Step, BenchThreadStep, CountIn, CountOut, WriteEndTime, Begin, SeeGo,
       MultiplyAll, InsertBlock, Insert, Announce, TakeBlock, TryRemove, FindNoBlock,
       TryRemoveFails, CopyFrom, CopyTo, Check, SaveStatistics, SaveInserts,
       SaveRemoves, baseVars, bench
  <2>1. ASSUME NEW there, pc' = [pc EXCEPT ![t] = there], next' = next,
               there \in Working \cup Leaving => \/ pc[t] \in Working \cup Leaving
                                                 \/ next[t][1] >= NB
                                                 \/ NR_CPUS = 1
        PROVE  OwnRows'
    <3>1. \A u \in Threads : pc'[u] = IF u = t THEN there ELSE pc[u]
      BY <2>1 DEF BenchIInv, BenchTypes
    <3> QED BY <1>0, <1>2, <2>0, <2>1, <3>1 DEF Underway
  <2>2. CASE BenchThreadStep(t) /\ UNCHANGED <<bagVars, added, locals, C>>
    <3>1. PICK there \in {"spin", "end_time", "exit"} :
            /\ pc' = [pc EXCEPT ![t] = there]
            /\ there = "spin" \/ pc[t] \in {"finish", "end_time"}
      BY <2>2 DEF BenchThreadStep, CountIn, CountOut, WriteEndTime
    <3> QED BY <2>1, <2>2, <3>1 DEF Working, Leaving, locals
  <2>3. CASE Begin(t)
    <3>1. PICK there \in {"blas", "insert"} : pc' = [pc EXCEPT ![t] = there]
      BY <2>3 DEF Begin, SeeGo
    <3> QED BY <2>1, <2>3, <3>1 DEF Begin, Working, Leaving, locals
  <2>4. CASE MultiplyAll(t)
    <3>1. NR_CPUS = 1
      BY <1>0, <2>4, RunningThread DEF MultiplyAll, AddedCounts
    <3> QED BY <2>1, <2>4, <3>1 DEF MultiplyAll, Goto, locals
  <2>5. CASE Announce(t)
    BY <2>1, <2>5 DEF Announce, Goto, locals
  <2>6. CASE TakeBlock(t)
    BY <2>1, <2>6 DEF TakeBlock, Goto, Working
  <2>7. CASE FindNoBlock(t)
    BY <2>1, <2>7 DEF FindNoBlock, Goto, Working, locals
  <2>8. CASE CopyFrom(t) \/ CopyTo(t)
    BY <2>1, <2>8 DEF CopyFrom, CopyTo, Goto, Working
  <2>9. CASE Check(t)
    <3>1. PICK there : pc' = [pc EXCEPT ![t] = there]
      BY <2>9 DEF Check, Goto
    <3> QED BY <2>1, <2>9, <3>1 DEF Check, Working
  <2>10. CASE SaveStatistics(t)
    <3>1. PICK there \in {"save_removes", "finish"} :
            /\ pc' = [pc EXCEPT ![t] = there]
            /\ pc[t] \in {"save_inserts", "save_removes"}
      BY <2>10 DEF SaveStatistics, SaveInserts, SaveRemoves, Goto
    <3> QED BY <2>1, <2>10, <3>1 DEF SaveStatistics, Leaving, locals
  <2>11. CASE InsertBlock(t)
    <3> DEFINE r == next[t][1]
               c == next[t][2]
    <3>1. /\ pc[t] = "insert" /\ pc' = pc /\ r < NB
          /\ next' = [next EXCEPT ![t] = BlockAfter(r, c)]
      BY <2>11 DEF InsertBlock
    <3>2. t \in Started /\ r \in Nat /\ c \in Nat /\ NB \in Nat /\ c < NB
      BY <3>1, RunningThread, GEMMAssumption DEF OwnRows
    <3>3. /\ BlockAfter(r, c) \in Nat \X Nat
          /\ BlockAfter(r, c)[2] < NB
          /\ BlockAfter(r, c)[1] = r \/ BlockAfter(r, c)[1] = r + NR_CPUS
      <4>1. CASE c + 1 < NB
        BY <3>2, <4>1 DEF BlockAfter
      <4>2. CASE ~(c + 1 < NB)
        BY <1>0, <3>2, <4>2, GEMMAssumption DEF BlockAfter
      <4> QED BY <4>1, <4>2
    <3>4. BlockAfter(r, c)[1] % NR_CPUS = r % NR_CPUS
      BY <1>0, <3>2, <3>3, NextSameRemainder
    <3>5. next' \in [Threads -> Nat \X Nat]
      BY <3>1, <3>3 DEF OwnRows
    <3>6. \A u \in Threads : next'[u] = IF u = t THEN BlockAfter(r, c) ELSE next[u]
      BY <3>1 DEF OwnRows
    <3>7. pc[t] \notin Working \cup Leaving
      BY <3>1 DEF Working, Leaving
    <3> QED
      BY <1>0, <2>0, <3>1, <3>3, <3>4, <3>5, <3>6, <3>7 DEF OwnRows, Underway
  <2> QED
    BY <1>4, <2>2, <2>3, <2>4, <2>5, <2>6, <2>7, <2>8, <2>9, <2>10, <2>11 DEF Step
<1>5. CASE UNCHANGED vars
  BY <1>2, <1>5 DEF vars, baseVars, bench, locals, Underway
<1> QED
  <2>1. CASE HarnessStep
    BY <1>1, <1>3, <2>1 DEF HarnessStep, locals
  <2> QED BY <1>4, <1>5, <2>1 DEF Next

\* A block that is put in the bag is a block of C.
LEMMA InsertsBlock ==
  ASSUME BenchIInv, OwnRows, NEW t \in Threads, InsertBlock(t)
  PROVE  next[t] \in Items /\ next[t] = <<next[t][1], next[t][2]>> /\ t \in Started
<1>1. t \in Started
  BY RunningThread DEF InsertBlock
<1>2. next[t] \in Nat \X Nat /\ next[t][1] < NB /\ next[t][2] < NB /\ NB \in Nat
  BY <1>1, GEMMAssumption DEF OwnRows, InsertBlock
<1> QED
  BY <1>1, <1>2, GEMMAssumption

-----------------------------------------------------------------------------
\* The threads whose counters the object does not have yet, and what they are.
Saved == {"finish", "end_time", "exit"}
InsertsPending == {t \in Started : pc[t] \notin Saved \cup {"save_removes"}}
RemovesPending == {t \in Started : pc[t] \notin Saved}
Inserts == [t \in Threads |-> count[t].insert]
Removes == [t \in Threads |-> count[t].remove]

CountTypes ==
  /\ count \in [Threads -> [insert : Nat, remove : Nat]]
  /\ total \in [insert : Nat, remove : Nat]

\* Whatever was inserted and counted, by the object or still by a thread, was
\* removed and counted or is in the bag.
CountsAddUp ==
  Underway =>
    total.insert + SumOver(InsertsPending, Inserts) =
      total.remove + SumOver(RemovesPending, Removes) + SumOver(Items, bag)

CountInv == CountTypes /\ CountsAddUp

\* There are finitely many blocks.
LEMMA BlocksFinite == IsFiniteSet(Items)
<1>1. IsFiniteSet(0 .. NB - 1)
  BY GEMMAssumption, FS_Interval
<1>2. IsFiniteSet((0 .. NB - 1) \X (0 .. NB - 1))
  BY <1>1, FS_Product
<1> QED
  BY <1>2, GEMMAssumption

\* All sums are of finitely many numbers.
LEMMA CountsFinite ==
  ASSUME nrThreads \in NrThreads, GEMMTypes, CountTypes
  PROVE  /\ IsFiniteSet(InsertsPending) /\ IsFiniteSet(RemovesPending)
         /\ InsertsPending \subseteq Started /\ RemovesPending \subseteq Started
         /\ \A t \in Started : t \in Threads /\ Inserts[t] \in Nat /\ Removes[t] \in Nat
         /\ \A b \in Items : bag[b] \in Nat
         /\ total.insert \in Nat /\ total.remove \in Nat
         /\ SumOver(InsertsPending, Inserts) \in Nat
         /\ SumOver(RemovesPending, Removes) \in Nat
         /\ SumOver(Items, bag) \in Nat
<1>1. InsertsPending \in SUBSET Started /\ RemovesPending \in SUBSET Started
  BY DEF InsertsPending, RemovesPending
<1>2. IsFiniteSet(InsertsPending) /\ IsFiniteSet(RemovesPending)
  BY <1>1, StartedThreads, FS_Subset
<1>3. \A t \in Started : t \in Threads
  BY StartedThreads
<1>4. \A t \in Threads : Inserts[t] \in Nat /\ Removes[t] \in Nat
  BY DEF CountTypes, Inserts, Removes
<1>5. \A b \in Items : bag[b] \in Nat
  BY DEF GEMMTypes
<1>6. SumOver(InsertsPending, Inserts) \in Nat /\ SumOver(RemovesPending, Removes) \in Nat
  BY <1>1, <1>2, <1>3, <1>4, SumType
<1>7. SumOver(Items, bag) \in Nat
  BY <1>5, BlocksFinite, SumType
<1> QED
  BY <1>1, <1>2, <1>3, <1>4, <1>5, <1>6, <1>7 DEF CountTypes

\* A step that counts nothing and saves nothing.
LEMMA SameCounts ==
  ASSUME CountInv, UNCHANGED <<count, total, bag>>,
         Underway' => /\ Underway
                      /\ InsertsPending' = InsertsPending
                      /\ RemovesPending' = RemovesPending
  PROVE  CountInv'
<1>1. Inserts' = Inserts /\ Removes' = Removes
  BY DEF Inserts, Removes
<1> QED
  BY <1>1 DEF CountInv, CountTypes, CountsAddUp

\* A thread that moves without counting anything, on the same side of saving.
LEMMA MoveKeepsCounts ==
  ASSUME BenchIInv, CountInv, NEW t \in Started, NEW there,
         pc' = [pc EXCEPT ![t] = there],
         UNCHANGED <<harness, nrThreads, count, total, bag>>,
         there \in Saved <=> pc[t] \in Saved,
         there = "save_removes" <=> pc[t] = "save_removes"
  PROVE  CountInv'
<1>1. Started' = Started /\ \A u \in Threads : pc'[u] = IF u = t THEN there ELSE pc[u]
  BY StartedThreads DEF Started, BenchIInv, BenchTypes
<1>2. Started \subseteq Threads
  BY StartedThreads DEF BenchIInv, BenchTypes
<1>3. InsertsPending' = InsertsPending /\ RemovesPending' = RemovesPending
  BY <1>1, <1>2 DEF InsertsPending, RemovesPending
<1> QED
  BY <1>3, SameCounts DEF Underway

\* GEMM starts with nothing counted.
LEMMA InitCounts == Init => CountInv
  BY DEF Init, BaseInit, BenchInit, NoCount, CountInv, CountTypes, CountsAddUp, Underway

\* The harness resets the counters with the bag and touches them nowhere else.
LEMMA HarnessKeepsCounts ==
  ASSUME BenchIInv, GEMMInv, CountInv, HarnessStep
  PROVE  CountInv'
<1>0. /\ Started' = Started /\ Started \subseteq Threads /\ nrThreads \in NrThreads
      /\ nrThreads' = nrThreads
  BY StartedThreads DEF HarnessStep, Prepare, BasePrepare, BenchPrepare,
     BenchHarnessStep, Create, Go, Stop, Join, Report, Started, BenchIInv, BenchTypes
<1>1. CASE Prepare
  <2>1. /\ bag' = [i \in Items |-> 0]
        /\ count' = [t \in Threads |-> NoCount] /\ total' = NoCount
    BY <1>1 DEF Prepare, BasePrepare
  <2>2. CountTypes' /\ total'.insert = 0 /\ total'.remove = 0
    BY <2>1 DEF CountTypes, NoCount
  <2>3. GEMMTypes'
    BY <1>1, HarnessKeepsGEMMInv DEF HarnessStep, GEMMInv
  <2>4. /\ \A t \in Threads : Inserts'[t] = 0 /\ Removes'[t] = 0
        /\ \A b \in Items : bag'[b] = 0
    BY <2>1 DEF Inserts, Removes, NoCount
  <2>5. /\ InsertsPending' \subseteq Threads /\ RemovesPending' \subseteq Threads
        /\ IsFiniteSet(InsertsPending') /\ IsFiniteSet(RemovesPending')
    <3>1. InsertsPending' \in SUBSET Started /\ RemovesPending' \in SUBSET Started
      BY <1>0 DEF InsertsPending, RemovesPending
    <3> QED BY <1>0, <3>1, StartedThreads, FS_Subset
  <2>6. SumOver(InsertsPending', Inserts') = 0
    BY <2>4, <2>5, SumZero
  <2>7. SumOver(RemovesPending', Removes') = 0
    BY <2>4, <2>5, SumZero
  <2>8. SumOver(Items, bag') = 0
    BY <2>4, BlocksFinite, SumZero
  <2> QED
    BY <2>2, <2>6, <2>7, <2>8 DEF CountInv, CountsAddUp
<1>2. ASSUME BenchHarnessStep, UNCHANGED <<bagVars, added, locals, C>>
      PROVE  CountInv'
  <2>1. UNCHANGED <<count, total, bag>>
    BY <1>2 DEF bagVars
  <2>2. CASE Go \/ Stop \/ Join
    <3>1. pc' = pc /\ Underway
      BY <2>2 DEF Go, Stop, Join, Underway
    <3>2. InsertsPending' = InsertsPending /\ RemovesPending' = RemovesPending
      BY <1>0, <3>1 DEF InsertsPending, RemovesPending
    <3> QED BY <2>1, <3>1, <3>2, SameCounts
  <2>3. CASE Create
    <3>1. PICK i \in Started : pc' = [pc EXCEPT ![i] = "start"] /\ pc[i] = "none"
      BY <2>3, CreateNext
    <3>2. \A u \in Threads : pc'[u] = IF u = i THEN "start" ELSE pc[u]
      BY <1>0, <3>1 DEF BenchIInv, BenchTypes
    <3>3. InsertsPending' = InsertsPending /\ RemovesPending' = RemovesPending
      BY <1>0, <3>1, <3>2 DEF InsertsPending, RemovesPending, Saved
    <3>4. Underway
      BY <2>3 DEF Create, Underway
    <3> QED BY <2>1, <3>3, <3>4, SameCounts
  <2>4. CASE Report
    <3>1. ~Underway'
      BY <2>4 DEF Report, Underway
    <3> QED BY <2>1, <3>1, SameCounts
  <2> QED
    BY <1>2, <2>2, <2>3, <2>4 DEF BenchHarnessStep
<1> QED
  BY <1>1, <1>2 DEF HarnessStep

\* What is inserted or removed is counted by the thread, once, and what a
\* thread counted is added to the object's counters once.
LEMMA StepKeepsCounts ==
  ASSUME BenchIInv, GEMMInv, GEMMInv', OwnRows, CountInv, NEW t \in Threads, Step(t)
  PROVE  CountInv'
<1> USE DEF GEMMInv, CountInv
<1>0. t \in Started /\ Underway /\ nrThreads \in NrThreads /\ Started \subseteq Threads
  <2>1. pc[t] /= "none"
    BY DEF Step, BenchThreadStep, CountIn, CountOut, WriteEndTime, Begin, SeeGo,
       MultiplyAll, InsertBlock, Announce, TakeBlock, FindNoBlock, CopyFrom, CopyTo,
       Check, SaveStatistics, SaveInserts, SaveRemoves
  <2> QED
    BY <2>1, RunningThread, StartedThreads DEF Underway, BenchIInv, BenchTypes
<1>1. UNCHANGED <<harness, nrThreads>> /\ Started' = Started /\ Underway'
  BY <1>0 DEF Step, BenchThreadStep, CountIn, CountOut, WriteEndTime, Begin, SeeGo,
     MultiplyAll, InsertBlock, Insert, Announce, TakeBlock, TryRemove, FindNoBlock,
     TryRemoveFails, CopyFrom, CopyTo, Check, SaveStatistics, SaveInserts, SaveRemoves,
     baseVars, bench, Started, Underway
<1>2. \A there : pc' = [pc EXCEPT ![t] = there] =>
                   \A u \in Threads : pc'[u] = IF u = t THEN there ELSE pc[u]
  BY DEF BenchIInv, BenchTypes
<1>3. /\ total.insert + SumOver(InsertsPending, Inserts) =
           total.remove + SumOver(RemovesPending, Removes) + SumOver(Items, bag)
      /\ \A u \in Threads : count[u].insert \in Nat /\ count[u].remove \in Nat
      /\ total.insert \in Nat /\ total.remove \in Nat
  BY <1>0 DEF CountsAddUp, CountTypes
<1>4. CASE BenchThreadStep(t) /\ UNCHANGED <<bagVars, added, locals, C>>
  <2>1. PICK there \in {"spin", "end_time", "exit"} :
          /\ pc' = [pc EXCEPT ![t] = there]
          /\ \/ there = "spin" /\ pc[t] = "start"
             \/ there /= "spin" /\ pc[t] \in {"finish", "end_time"}
    BY <1>4 DEF BenchThreadStep, CountIn, CountOut, WriteEndTime
  <2> QED
    BY <1>0, <1>1, <1>4, <2>1, MoveKeepsCounts DEF Saved, bagVars
<1>5. CASE Begin(t)
  <2>1. PICK there \in {"blas", "insert"} :
          pc' = [pc EXCEPT ![t] = there] /\ pc[t] = "spin"
    BY <1>5 DEF Begin, SeeGo
  <2> QED
    BY <1>0, <1>1, <1>5, <2>1, MoveKeepsCounts DEF Saved, bagVars, Begin
<1>6. CASE MultiplyAll(t) \/ Announce(t) \/ FindNoBlock(t) \/ CopyFrom(t) \/ CopyTo(t)
           \/ Check(t)
  <2>1. PICK there \in {"save_inserts", "remove", "check", "copy_to"} :
          /\ pc' = [pc EXCEPT ![t] = there]
          /\ pc[t] \in {"blas", "insert"} \cup Working
          /\ UNCHANGED <<count, total, bag>>
    BY <1>6 DEF MultiplyAll, Announce, FindNoBlock, TryRemoveFails, CopyFrom, CopyTo,
       Check, Goto, baseVars, bagVars, Working
  <2> QED
    BY <1>0, <1>1, <2>1, MoveKeepsCounts DEF Saved, Working
<1>7. CASE InsertBlock(t)
  <2> DEFINE b == next[t]
  <2>1. /\ pc[t] = "insert" /\ pc' = pc /\ total' = total
        /\ bag' = [bag EXCEPT ![b] = @ + 1]
        /\ count' = [count EXCEPT ![t].insert = @ + 1]
        /\ b \in Items
    BY <1>7, InsertsBlock DEF InsertBlock, Insert
  <2>2. /\ InsertsPending' = InsertsPending /\ RemovesPending' = RemovesPending
        /\ t \in InsertsPending
    BY <1>0, <1>1, <2>1 DEF InsertsPending, RemovesPending, Saved
  <2>3. /\ CountTypes' /\ Removes' = Removes
        /\ Inserts'[t] = Inserts[t] + 1
        /\ \A u \in Threads \ {t} : Inserts'[u] = Inserts[u]
    BY <1>3, <2>1 DEF CountTypes, Inserts, Removes
  <2>4. /\ \A u \in InsertsPending : Inserts[u] \in Nat /\ Inserts'[u] \in Nat
        /\ IsFiniteSet(InsertsPending) /\ InsertsPending \subseteq Threads
    BY <1>0, <2>3, CountsFinite DEF CountTypes, Inserts
  <2>5. SumOver(InsertsPending, Inserts') + Inserts[t] =
          SumOver(InsertsPending, Inserts) + Inserts'[t]
    BY <2>2, <2>3, <2>4, SumChange
  <2>6. bag \in [Items -> Nat]
    BY DEF GEMMTypes
  <2>7. SumOver(Items, bag') = SumOver(Items, bag) + 1
    BY <2>1, <2>6, BlocksFinite, SumOneMore
  <2>8. /\ Inserts[t] \in Nat
        /\ SumOver(InsertsPending, Inserts) \in Nat
        /\ SumOver(InsertsPending, Inserts') \in Nat
        /\ SumOver(Items, bag) \in Nat
        /\ SumOver(RemovesPending, Removes) \in Nat
    BY <1>0, <2>2, <2>4, CountsFinite, SumType
  <2> HIDE DEF b
  <2>9. SumOver(InsertsPending, Inserts') = SumOver(InsertsPending, Inserts) + 1
    BY <2>3, <2>5, <2>8
  <2>10. /\ SumOver(InsertsPending', Inserts') = SumOver(InsertsPending, Inserts) + 1
         /\ SumOver(RemovesPending', Removes') = SumOver(RemovesPending, Removes)
    BY <2>2, <2>3, <2>9
  <2>11. total.insert + SumOver(InsertsPending', Inserts') =
           total.remove + SumOver(RemovesPending', Removes') + SumOver(Items, bag')
    BY <1>3, <2>7, <2>8, <2>10
  <2> QED
    BY <2>1, <2>3, <2>11 DEF CountsAddUp
<1>8. CASE TakeBlock(t)
  <2>1. PICK b \in Items : bag[b] > 0 /\ bag' = [bag EXCEPT ![b] = @ - 1]
    BY <1>8 DEF TakeBlock, TryRemove, Blocks
  <2>2. /\ pc[t] = "remove" /\ pc' = [pc EXCEPT ![t] = "copy_from"] /\ total' = total
        /\ count' = [count EXCEPT ![t].remove = @ + 1]
    BY <1>8 DEF TakeBlock, TryRemove, Goto
  <2>3. /\ InsertsPending' = InsertsPending /\ RemovesPending' = RemovesPending
        /\ t \in RemovesPending
    BY <1>0, <1>1, <1>2, <2>2 DEF InsertsPending, RemovesPending, Saved
  <2>4. /\ CountTypes' /\ Inserts' = Inserts
        /\ Removes'[t] = Removes[t] + 1
        /\ \A u \in Threads \ {t} : Removes'[u] = Removes[u]
    BY <1>3, <2>2 DEF CountTypes, Inserts, Removes
  <2>5. /\ \A u \in RemovesPending : Removes[u] \in Nat /\ Removes'[u] \in Nat
        /\ IsFiniteSet(RemovesPending) /\ RemovesPending \subseteq Threads
    BY <1>0, <2>4, CountsFinite DEF CountTypes, Removes
  <2>6. SumOver(RemovesPending, Removes') + Removes[t] =
          SumOver(RemovesPending, Removes) + Removes'[t]
    BY <2>3, <2>4, <2>5, SumChange
  <2>7. bag \in [Items -> Nat] /\ bag' \in [Items -> Nat]
    BY DEF GEMMTypes
  <2>8. SumOver(Items, bag') + 1 = SumOver(Items, bag)
    BY <2>1, <2>7, BlocksFinite, SumOneLess
  <2>9. /\ Removes[t] \in Nat
        /\ SumOver(RemovesPending, Removes) \in Nat
        /\ SumOver(RemovesPending, Removes') \in Nat
        /\ SumOver(Items, bag) \in Nat /\ SumOver(Items, bag') \in Nat
        /\ SumOver(InsertsPending, Inserts) \in Nat
    BY <1>0, <2>3, <2>5, <2>7, CountsFinite, SumType, BlocksFinite
  <2>10. SumOver(RemovesPending, Removes') = SumOver(RemovesPending, Removes) + 1
    BY <2>4, <2>6, <2>9
  <2>11. /\ SumOver(RemovesPending', Removes') = SumOver(RemovesPending, Removes) + 1
         /\ SumOver(InsertsPending', Inserts') = SumOver(InsertsPending, Inserts)
    BY <2>3, <2>4, <2>10
  <2>12. total.insert + SumOver(InsertsPending', Inserts') =
           total.remove + SumOver(RemovesPending', Removes') + SumOver(Items, bag')
    BY <1>3, <2>8, <2>9, <2>11
  <2> QED
    BY <2>2, <2>4, <2>12 DEF CountsAddUp
<1>9. CASE SaveInserts(t, "save_inserts", "save_removes")
  <2>1. /\ pc[t] = "save_inserts" /\ pc' = [pc EXCEPT ![t] = "save_removes"]
        /\ total' = [total EXCEPT !.insert = @ + count[t].insert]
        /\ UNCHANGED <<bag, count>>
    BY <1>9 DEF SaveInserts, Goto
  <2>2. /\ t \in InsertsPending /\ InsertsPending' = InsertsPending \ {t}
        /\ RemovesPending' = RemovesPending
    <3>1. /\ pc'[t] = "save_removes" /\ Started' = Started /\ t \in Started
          /\ \A u \in Started : u /= t => pc'[u] = pc[u]
      BY <1>0, <1>1, <1>2, <2>1
    <3>2. t \in InsertsPending /\ t \notin InsertsPending'
      BY <2>1, <3>1 DEF InsertsPending, Saved
    <3>3. t \in RemovesPending /\ t \in RemovesPending'
      BY <2>1, <3>1 DEF RemovesPending, Saved
    <3>4. \A u : u /= t => (u \in InsertsPending' <=> u \in InsertsPending)
      BY <3>1 DEF InsertsPending
    <3>5. \A u : u /= t => (u \in RemovesPending' <=> u \in RemovesPending)
      BY <3>1 DEF RemovesPending
    <3> QED BY <3>2, <3>3, <3>4, <3>5
  <2>3. /\ CountTypes' /\ Inserts' = Inserts /\ Removes' = Removes
        /\ total'.insert = total.insert + Inserts[t] /\ total'.remove = total.remove
    BY <1>3, <2>1 DEF CountTypes, Inserts, Removes
  <2>4. SumOver(InsertsPending, Inserts) =
          SumOver(InsertsPending', Inserts) + Inserts[t]
    BY <1>0, <2>2, CountsFinite, SumSplit
  <2>5. SumOver(InsertsPending', Inserts) \in Nat /\ Inserts[t] \in Nat
    <3>1. /\ IsFiniteSet(InsertsPending')
          /\ \A u \in InsertsPending' : Inserts[u] \in Nat
      BY <1>0, <2>2, CountsFinite, FS_RemoveElement
    <3> QED BY <1>0, <3>1, CountsFinite, SumType
  <2> QED
    BY <1>3, <2>1, <2>2, <2>3, <2>4, <2>5 DEF CountsAddUp
<1>10. CASE SaveRemoves(t, "save_removes", "finish")
  <2>1. /\ pc[t] = "save_removes" /\ pc' = [pc EXCEPT ![t] = "finish"]
        /\ total' = [total EXCEPT !.remove = @ + count[t].remove]
        /\ UNCHANGED <<bag, count>>
    BY <1>10 DEF SaveRemoves, Goto
  <2>2. /\ t \in RemovesPending /\ RemovesPending' = RemovesPending \ {t}
        /\ InsertsPending' = InsertsPending
    <3>1. /\ pc'[t] = "finish" /\ Started' = Started /\ t \in Started
          /\ \A u \in Started : u /= t => pc'[u] = pc[u]
      BY <1>0, <1>1, <1>2, <2>1
    <3>2. t \in RemovesPending /\ t \notin RemovesPending'
      BY <2>1, <3>1 DEF RemovesPending, Saved
    <3>3. t \notin InsertsPending /\ t \notin InsertsPending'
      BY <2>1, <3>1 DEF InsertsPending, Saved
    <3>4. \A u : u /= t => (u \in InsertsPending' <=> u \in InsertsPending)
      BY <3>1 DEF InsertsPending
    <3>5. \A u : u /= t => (u \in RemovesPending' <=> u \in RemovesPending)
      BY <3>1 DEF RemovesPending
    <3> QED BY <3>2, <3>3, <3>4, <3>5
  <2>3. /\ CountTypes' /\ Inserts' = Inserts /\ Removes' = Removes
        /\ total'.remove = total.remove + Removes[t] /\ total'.insert = total.insert
    BY <1>3, <2>1 DEF CountTypes, Inserts, Removes
  <2>4. SumOver(RemovesPending, Removes) =
          SumOver(RemovesPending', Removes) + Removes[t]
    BY <1>0, <2>2, CountsFinite, SumSplit
  <2>5. /\ SumOver(RemovesPending', Removes) \in Nat /\ Removes[t] \in Nat
        /\ SumOver(Items, bag) \in Nat
    <3>1. /\ IsFiniteSet(RemovesPending')
          /\ \A u \in RemovesPending' : Removes[u] \in Nat
      BY <1>0, <2>2, CountsFinite, FS_RemoveElement
    <3> QED BY <1>0, <3>1, CountsFinite, SumType
  <2> QED
    BY <1>3, <2>1, <2>2, <2>3, <2>4, <2>5 DEF CountsAddUp
<1> QED
  BY <1>4, <1>5, <1>6, <1>7, <1>8, <1>9, <1>10 DEF Step, SaveStatistics

-----------------------------------------------------------------------------
\* A thread that is at the block n is past block b.
Behind(b, n) == b[1] < n[1] \/ (b[1] = n[1] /\ b[2] < n[2])

\* The blocks that have been put in the bag so far.
Inserted == {b \in Blocks : Behind(b, next[b[1] % NR_CPUS])}

Copying == {"copy_from", "copy_to"}

WorkTypes ==
  /\ impl \in Nat \ {0}
  /\ C \in [Blocks -> Nat]
  /\ work \in [Threads -> Blocks \cup {NoBlock}]
  /\ tempC \in [Threads -> Nat]

\* Before and after an implementation C is as the ones before it left it.
BetweenRuns == ~Underway => \A b \in Blocks : C[b] = impl - 1

\* A single thread multiplies all blocks at once.
AloneMultiplies ==
  Underway /\ NR_CPUS = 1 =>
    \A b \in Blocks : (pc[0] \in Leaving => C[b] = impl)
                      /\ (pc[0] \notin Leaving => C[b] = impl - 1)

\* The block a thread works on is nobody else's, is not in the bag and has not
\* been multiplied.
WorkersHold ==
  Underway /\ NR_CPUS /= 1 =>
    \A t \in Started :
      /\ pc[t] \in Copying <=> work[t] /= NoBlock
      /\ pc[t] = "copy_to" => tempC[t] = impl
      /\ work[t] /= NoBlock =>
           /\ \A u \in Started : work[u] = work[t] => u = t
           /\ work[t] \in Inserted /\ bag[work[t]] = 0 /\ C[work[t]] = impl - 1

\* A block is yet to be inserted, or in the bag once, or with a thread, or
\* multiplied.
BlocksOnce ==
  Underway /\ NR_CPUS /= 1 =>
    \A b \in Blocks :
      /\ b \notin Inserted => bag[b] = 0 /\ C[b] = impl - 1
      /\ bag[b] /= 0 => bag[b] = 1 /\ C[b] = impl - 1
      /\ b \in Inserted /\ bag[b] = 0 =>
           C[b] = impl \/ \E t \in Started : work[t] = b

WorkInv == WorkTypes /\ BetweenRuns /\ AloneMultiplies /\ WorkersHold /\ BlocksOnce

\* A block is a pair of numbers below NB, and none of them NoBlock.
LEMMA BlockTypes ==
  /\ \A b \in Blocks : b[1] \in Nat /\ b[2] \in Nat /\ b[1] < NB /\ b[2] < NB
                       /\ b = <<b[1], b[2]>>
  /\ NoBlock \notin Blocks /\ NB \in Nat
<1>1. Blocks = (0 .. NB - 1) \X (0 .. NB - 1) /\ NB \in Nat \ {0}
  BY GEMMAssumption DEF Blocks
<1>2. \A b \in Blocks : b[1] \in 0 .. NB - 1 /\ b[2] \in 0 .. NB - 1 /\ b = <<b[1], b[2]>>
  BY <1>1
<1>3. NoBlock \notin Blocks
  BY <1>1 DEF NoBlock
<1> QED
  BY <1>1, <1>2, <1>3

\* The block that a thread puts in the bag is the one added to Inserted.
LEMMA InsertedMore ==
  ASSUME BenchIInv, GEMMTypes, OwnRows, NEW t \in Threads, InsertBlock(t)
  PROVE  next[t] \in Blocks /\ next[t] \notin Inserted
         /\ Inserted' = Inserted \cup {next[t]}
<1> DEFINE n == next[t]
           m == BlockAfter(n[1], n[2])
<1>1. t \in Started /\ n \in Blocks /\ n = <<n[1], n[2]>>
  BY InsertsBlock DEF Blocks
<1>2. n[1] \in Nat /\ n[2] \in Nat /\ n[1] < NB /\ n[2] < NB /\ NB \in Nat
  BY <1>1, BlockTypes
<1>3. /\ NR_CPUS' = NR_CPUS /\ NR_CPUS \in Nat \ {0} /\ n[1] % NR_CPUS = t
      /\ next' = [next EXCEPT ![t] = m]
  BY <1>1, StartedThreads DEF InsertBlock, Insert, OwnRows, GEMMTypes, BenchIInv, BenchTypes
<1>4. \A u : u /= t => next'[u] = next[u]
  BY <1>3 DEF OwnRows
<1>5. next'[t] = m
  BY <1>3 DEF OwnRows
<1>6. ASSUME NEW b \in Blocks, b[1] % NR_CPUS = t
      PROVE  Behind(b, m) <=> Behind(b, n) \/ b = n
  <2>1. b[1] \in Nat /\ b[2] \in Nat /\ b[2] < NB /\ b = <<b[1], b[2]>>
    BY BlockTypes
  <2>2. b[1] < n[1] + NR_CPUS => b[1] <= n[1]
    BY <1>2, <1>3, <1>6, <2>1, SameRemainder
  <2>3. b = n <=> b[1] = n[1] /\ b[2] = n[2]
    BY <1>1, <2>1
  <2> HIDE DEF n
  <2>4. CASE n[2] + 1 < NB
    <3>1. m = <<n[1], n[2] + 1>>
      BY <2>4 DEF BlockAfter
    <3>2. m[1] = n[1] /\ m[2] = n[2] + 1
      BY <3>1
    <3> HIDE DEF m
    <3> QED BY <1>2, <2>1, <2>3, <3>2 DEF Behind
  <2>5. CASE ~(n[2] + 1 < NB)
    <3>1. m = <<n[1] + NR_CPUS, 0>>
      BY <2>5 DEF BlockAfter
    <3>2. m[1] = n[1] + NR_CPUS /\ m[2] = 0
      BY <3>1
    <3> HIDE DEF m
    <3> QED BY <1>2, <1>3, <2>1, <2>2, <2>3, <2>5, <3>2 DEF Behind
  <2> QED BY <2>4, <2>5
<1>7. ~Behind(n, n)
  BY <1>2 DEF Behind
<1> HIDE DEF n, m
<1>8. ASSUME NEW b \in Blocks PROVE b \in Inserted' <=> b \in Inserted \/ b = n
  <2>1. CASE b[1] % NR_CPUS = t
    BY <1>3, <1>5, <1>6, <2>1 DEF Inserted, n
  <2>2. CASE b[1] % NR_CPUS /= t
    BY <1>3, <1>4, <2>2 DEF Inserted
  <2> QED BY <2>1, <2>2
<1>9. n \notin Inserted
  BY <1>1, <1>3, <1>7 DEF Inserted, n
<1>10. Inserted \subseteq Blocks /\ Inserted' \subseteq Blocks
  BY DEF Inserted, Blocks
<1> QED
  BY <1>1, <1>8, <1>9, <1>10 DEF n

\* No block is inserted as long as the threads are on their first blocks.
LEMMA NoneInserted ==
  ASSUME NEW n \in Nat \ {0}, NEW b \in Blocks
  PROVE  ~Behind(b, <<b[1] % n, 0>>)
<1>1. b[1] \in Nat /\ b[2] \in Nat
  BY BlockTypes
<1>2. PICK q \in Nat : \E a \in 0 .. n - 1 : b[1] = n * q + a /\ a = b[1] % n
  BY <1>1, Division
<1>3. PICK a \in 0 .. n - 1 : b[1] = n * q + a /\ a = b[1] % n
  BY <1>2
<1>4. n * q \in Nat
  OBVIOUS
<1>5. b[1] >= a
  BY <1>3, <1>4
<1> QED
  BY <1>1, <1>3, <1>5 DEF Behind

\* All blocks are inserted when all threads are through.
LEMMA AllInserted ==
  ASSUME nrThreads \in NrThreads, NR_CPUS = nrThreads, OwnRows,
         \A t \in Started : next[t][1] >= NB
  PROVE  Inserted = Blocks
<1>1. ASSUME NEW b \in Blocks PROVE b \in Inserted
  <2>1. b[1] \in Nat /\ b[1] < NB /\ NB \in Nat
    BY BlockTypes
  <2>2. NR_CPUS \in Nat \ {0}
    BY StartedThreads
  <2>3. b[1] % NR_CPUS \in 0 .. NR_CPUS - 1
    BY <2>1, <2>2
  <2>4. b[1] % NR_CPUS \in Started
    BY <2>3 DEF Started
  <2>5. next[b[1] % NR_CPUS][1] \in Nat
    BY <2>4, StartedThreads DEF OwnRows
  <2> QED
    BY <2>1, <2>4, <2>5 DEF Inserted, Behind
<1> QED
  BY <1>1 DEF Inserted

\* GEMM starts with no block multiplied.
LEMMA InitWork == Init => WorkInv
<1> SUFFICES ASSUME Init PROVE WorkInv
  OBVIOUS
<1>1. ~Underway /\ impl = 1 /\ \A b \in Blocks : C[b] = impl - 1
  BY DEF Init, BaseInit, BenchInit, Underway
<1>2. WorkTypes
  BY <1>1 DEF Init, WorkTypes
<1> QED
  BY <1>1, <1>2 DEF WorkInv, BetweenRuns, AloneMultiplies, WorkersHold, BlocksOnce

\* A step that touches no block and moves threads that have none.
LEMMA SameWork ==
  ASSUME WorkInv, Started' = Started,
         UNCHANGED <<impl, NR_CPUS, bag, next, work, tempC, C>>,
         Underway' <=> Underway,
         NR_CPUS = 1 => (pc'[0] \in Leaving <=> pc[0] \in Leaving),
         NR_CPUS /= 1 =>
           \A t \in Started :
             /\ pc'[t] \in Copying <=> pc[t] \in Copying
             /\ pc'[t] = "copy_to" => pc[t] = "copy_to"
  PROVE  WorkInv'
<1>1. Inserted' = Inserted
  BY DEF Inserted
<1> USE <1>1 DEF WorkInv
<1>2. WorkTypes' /\ BetweenRuns'
  BY DEF WorkTypes, BetweenRuns
<1>3. AloneMultiplies'
  BY DEF AloneMultiplies
<1>4. WorkersHold'
  BY DEF WorkersHold
<1>5. BlocksOnce'
  BY DEF BlocksOnce
<1> QED
  BY <1>2, <1>3, <1>4, <1>5

\* A thread that moves and has no block.
LEMMA MoveKeepsWork ==
  ASSUME BenchIInv, WorkInv, NEW t \in Started, NEW there,
         pc' = [pc EXCEPT ![t] = there],
         UNCHANGED <<harness, nrThreads, impl, NR_CPUS, bag, next, work, tempC, C>>,
         pc[t] \notin Copying, there \notin Copying,
         NR_CPUS = 1 => (there \in Leaving <=> pc[t] \in Leaving)
  PROVE  WorkInv'
<1>1. Started' = Started /\ Started \subseteq Threads
  BY StartedThreads DEF Started, BenchIInv, BenchTypes
<1>2. \A u \in Threads : pc'[u] = IF u = t THEN there ELSE pc[u]
  BY <1>1 DEF BenchIInv, BenchTypes
<1>3. 0 \in Threads
  BY StartedThreads DEF BenchIInv, BenchTypes
<1> QED
  BY <1>1, <1>2, <1>3, SameWork DEF Copying, Underway

\* The harness leaves C alone; the implementation is over when all blocks are
\* multiplied.
LEMMA HarnessKeepsWork ==
  ASSUME BenchIInv, GEMMInv, OwnRows, WorkInv, HarnessStep
  PROVE  WorkInv'
<1>0. /\ nrThreads \in NrThreads /\ nrThreads' = nrThreads /\ Started' = Started
      /\ NR_CPUS' = NR_CPUS /\ NR_CPUS = nrThreads /\ NR_CPUS \in Nat \ {0}
      /\ Started \subseteq Threads /\ 0 \in Started
  BY StartedThreads DEF HarnessStep, Prepare, BasePrepare, BenchPrepare, bagVars,
     BenchHarnessStep, Create, Go, Stop, Join, Report, Started, BenchIInv, BenchTypes,
     GEMMInv, GEMMTypes
<1>1. CASE Prepare
  <2>1. /\ ~Underway /\ Underway' /\ impl' = impl /\ C' = C /\ pc' = pc
        /\ bag' = [i \in Items |-> 0]
        /\ next' = [t \in Threads |-> <<t, 0>>]
        /\ work' = [t \in Threads |-> NoBlock]
        /\ tempC' = [t \in Threads |-> 0]
    BY <1>1 DEF Prepare, BasePrepare, BenchPrepare, Underway
  <2>2. /\ \A t \in Threads : pc[t] = "none"
        /\ \A b \in Blocks : C[b] = impl - 1
    BY <2>1 DEF BenchIInv, BenchCreation, Underway, WorkInv, BetweenRuns
  <2>3. WorkTypes'
    BY <2>1 DEF WorkInv, WorkTypes
  <2>4. ASSUME NEW b \in Blocks PROVE b \notin Inserted'
    <3>1. b[1] \in Nat
      BY BlockTypes
    <3>2. b[1] % NR_CPUS \in 0 .. NR_CPUS - 1
      BY <1>0, <3>1
    <3>3. b[1] % NR_CPUS \in Threads
      BY <1>0, <3>2 DEF Started
    <3>4. next'[b[1] % NR_CPUS] = <<b[1] % NR_CPUS, 0>>
      BY <2>1, <3>3
    <3> QED BY <1>0, <3>4, NoneInserted DEF Inserted
  <2>5. AloneMultiplies'
    BY <1>0, <2>1, <2>2 DEF AloneMultiplies, Leaving
  <2>6. WorkersHold'
    BY <1>0, <2>1, <2>2 DEF WorkersHold, Copying
  <2>7. BlocksOnce'
    BY <2>1, <2>2, <2>4 DEF BlocksOnce, Blocks
  <2> QED
    BY <2>1, <2>3, <2>5, <2>6, <2>7 DEF WorkInv, BetweenRuns
<1>2. ASSUME BenchHarnessStep, UNCHANGED <<bagVars, added, locals, C>>
      PROVE  WorkInv'
  <2>1. UNCHANGED <<bag, next, work, tempC, C>>
    BY <1>2 DEF bagVars, locals
  <2>2. CASE Go \/ Stop \/ Join
    <3>1. pc' = pc /\ Underway /\ Underway' /\ impl' = impl
      BY <2>2 DEF Go, Stop, Join, Underway
    <3> QED BY <1>0, <2>1, <3>1, SameWork DEF Copying
  <2>3. CASE Create
    <3>1. PICK i \in Started : pc' = [pc EXCEPT ![i] = "start"] /\ pc[i] = "none"
      BY <2>3, CreateNext
    <3>2. \A u \in Threads : pc'[u] = IF u = i THEN "start" ELSE pc[u]
      BY <1>0, <3>1 DEF BenchIInv, BenchTypes
    <3>3. Underway /\ Underway' /\ impl' = impl
      BY <2>3 DEF Create, Underway
    <3>4. \A u \in Started :
            /\ pc'[u] \in Leaving <=> pc[u] \in Leaving
            /\ pc'[u] \in Copying <=> pc[u] \in Copying
            /\ pc'[u] = "copy_to" => pc[u] = "copy_to"
      <4>1. ASSUME NEW u \in Started
            PROVE  pc'[u] = pc[u] \/ (pc'[u] = "start" /\ pc[u] = "none")
        BY <1>0, <3>1, <3>2
      <4> QED BY <4>1 DEF Leaving, Copying
    <3> QED BY <1>0, <2>1, <3>3, <3>4, SameWork
  <2>4. CASE Report
    <3>1. /\ Underway /\ ~Underway' /\ impl' = impl + 1
          /\ \A t \in Started : pc[t] = "exit"
      BY <2>4 DEF Report, Underway, BenchIInv, BenchCreation
    <3>2. ASSUME NEW b \in Blocks PROVE C[b] = impl
      <4>1. CASE NR_CPUS = 1
        BY <1>0, <3>1, <4>1 DEF WorkInv, AloneMultiplies, Leaving
      <4>2. CASE NR_CPUS /= 1
        <5>1. \A t \in Started : pc[t] \in Leaving /\ pc[t] \notin Copying
          BY <3>1 DEF Leaving, Copying
        <5>2. Inserted = Blocks
          BY <1>0, <3>1, <4>2, <5>1, AllInserted DEF OwnRows
        <5>3. bag[b] = 0
          BY <1>0, <4>2, <5>1 DEF GEMMInv, LeaversLast, BagIsEmpty, Blocks
        <5>4. \A t \in Started : work[t] = NoBlock
          BY <3>1, <4>2, <5>1 DEF WorkInv, WorkersHold
        <5>5. \A t \in Started : work[t] /= b
          BY <5>4, BlockTypes
        <5> QED BY <3>1, <4>2, <5>2, <5>3, <5>5 DEF WorkInv, BlocksOnce
      <4> QED BY <4>1, <4>2
    <3>3. WorkTypes'
      BY <2>1, <3>1 DEF WorkInv, WorkTypes
    <3>4. BetweenRuns'
      BY <2>1, <3>1, <3>2 DEF BetweenRuns, WorkInv, WorkTypes
    <3> QED
      BY <3>1, <3>3, <3>4 DEF WorkInv, AloneMultiplies, WorkersHold, BlocksOnce
  <2> QED
    BY <1>2, <2>2, <2>3, <2>4 DEF BenchHarnessStep
<1> QED
  BY <1>1, <1>2 DEF HarnessStep

\* The blocks go from thread to bag to thread to C, none twice or by two ways.
LEMMA StepKeepsWork ==
  ASSUME BenchIInv, GEMMInv, OwnRows, WorkInv, NEW t \in Threads, Step(t)
  PROVE  WorkInv'
<1>0. t \in Started /\ Underway /\ nrThreads \in NrThreads /\ Started \subseteq Threads
  <2>1. pc[t] /= "none"
    BY DEF Step, BenchThreadStep, CountIn, CountOut, WriteEndTime, Begin, SeeGo,
       MultiplyAll, InsertBlock, Announce, TakeBlock, FindNoBlock, CopyFrom, CopyTo,
       Check, SaveStatistics, SaveInserts, SaveRemoves
  <2> QED
    BY <2>1, RunningThread, StartedThreads DEF Underway, BenchIInv, BenchTypes
<1>1. /\ UNCHANGED <<harness, nrThreads, impl, NR_CPUS>>
      /\ Started' = Started /\ Underway'
  BY <1>0 DEF Step, BenchThreadStep, CountIn, CountOut, WriteEndTime, Begin, SeeGo,
     MultiplyAll, InsertBlock, Insert, Announce, TakeBlock, TryRemove, FindNoBlock,
     TryRemoveFails, CopyFrom, CopyTo, Check, SaveStatistics, SaveInserts, SaveRemoves,
     baseVars, bagVars, bench, Started, Underway
<1>2. \A there : pc' = [pc EXCEPT ![t] = there] =>
                   \A u \in Threads : pc'[u] = IF u = t THEN there ELSE pc[u]
  BY DEF BenchIInv, BenchTypes
<1>3. /\ pc[t] \in Working => NR_CPUS /= 1
      /\ pc[t] = "blas" => NR_CPUS = 1
      /\ pc[t] = "insert" => NR_CPUS /= 1
  BY <1>0 DEF GEMMInv, AddedCounts, Working, Leaving
<1>4. CASE BenchThreadStep(t) /\ UNCHANGED <<bagVars, added, locals, C>>
  <2>1. PICK there \in {"spin", "end_time", "exit"} :
          /\ pc' = [pc EXCEPT ![t] = there]
          /\ \/ there = "spin" /\ pc[t] = "start"
             \/ there /= "spin" /\ pc[t] \in {"finish", "end_time"}
    BY <1>4 DEF BenchThreadStep, CountIn, CountOut, WriteEndTime
  <2> QED
    BY <1>0, <1>1, <1>4, <2>1, MoveKeepsWork DEF Leaving, Copying, bagVars, locals
<1>5. CASE Begin(t)
  <2>1. PICK there \in {"blas", "insert"} :
          pc' = [pc EXCEPT ![t] = there] /\ pc[t] = "spin"
    BY <1>5 DEF Begin, SeeGo
  <2> QED
    BY <1>0, <1>1, <1>5, <2>1, MoveKeepsWork DEF Leaving, Copying, bagVars, locals, Begin
<1>6. CASE Announce(t) \/ FindNoBlock(t) \/ Check(t)
  <2>1. PICK there \in {"remove", "check", "save_inserts"} :
          /\ pc' = [pc EXCEPT ![t] = there]
          /\ pc[t] \in {"insert", "remove", "check"}
          /\ UNCHANGED <<bag, next, work, tempC, C>>
    BY <1>6 DEF Announce, FindNoBlock, TryRemoveFails, Check, Goto, baseVars, bagVars,
       locals
  <2>2. NR_CPUS /= 1
    BY <1>3, <2>1 DEF Working
  <2> QED
    BY <1>0, <1>1, <2>1, <2>2, MoveKeepsWork DEF Copying
<1>7. CASE SaveStatistics(t)
  <2>1. PICK there \in {"save_removes", "finish"} :
          /\ pc' = [pc EXCEPT ![t] = there]
          /\ pc[t] \in {"save_inserts", "save_removes"}
          /\ UNCHANGED <<bag, next, work, tempC, C>>
    BY <1>7 DEF SaveStatistics, SaveInserts, SaveRemoves, Goto, locals
  <2> QED
    BY <1>0, <1>1, <2>1, MoveKeepsWork DEF Leaving, Copying
<1>8. CASE MultiplyAll(t)
  <2>1. /\ pc[t] = "blas" /\ pc' = [pc EXCEPT ![t] = "save_inserts"]
        /\ C' = [b \in Blocks |-> C[b] + 1]
        /\ UNCHANGED <<bag, next, work, tempC>>
    BY <1>8 DEF MultiplyAll, Goto, baseVars, bagVars, locals
  <2>2. NR_CPUS = 1 /\ t = 0
    BY <1>0, <1>3, <2>1 DEF GEMMInv, GEMMTypes, Started
  <2>3. \A b \in Blocks : C[b] = impl - 1 /\ C[b] \in Nat /\ impl \in Nat
    BY <1>0, <2>1, <2>2 DEF WorkInv, AloneMultiplies, WorkTypes, Leaving
  <2>4. WorkTypes'
    BY <1>1, <2>1, <2>3 DEF WorkInv, WorkTypes
  <2>5. AloneMultiplies'
    <3>1. pc'[0] = "save_inserts"
      BY <1>2, <2>1, <2>2
    <3>2. \A b \in Blocks : C'[b] = impl
      BY <2>1, <2>3
    <3> QED BY <1>1, <3>1, <3>2 DEF AloneMultiplies, Leaving
  <2> QED
    BY <1>1, <2>2, <2>4, <2>5 DEF WorkInv, BetweenRuns, WorkersHold, BlocksOnce
<1>9. CASE InsertBlock(t)
  <2> DEFINE b == next[t]
  <2>1. /\ pc[t] = "insert" /\ pc' = pc
        /\ bag' = [bag EXCEPT ![b] = @ + 1]
        /\ UNCHANGED <<work, tempC, C>>
        /\ b \in Blocks /\ b \notin Inserted /\ Inserted' = Inserted \cup {b}
    BY <1>9, InsertsBlock, InsertedMore DEF InsertBlock, Insert, GEMMInv
  <2>2. NR_CPUS /= 1
    BY <1>3, <2>1
  <2>3. bag[b] = 0 /\ C[b] = impl - 1 /\ bag'[b] = 1
        /\ \A x \in Blocks : x /= b => bag'[x] = bag[x]
    BY <1>0, <2>1, <2>2 DEF WorkInv, BlocksOnce, GEMMInv, GEMMTypes, Blocks
  <2> HIDE DEF b
  <2>4. WorkTypes' /\ BetweenRuns' /\ AloneMultiplies'
    BY <1>1, <2>1, <2>2 DEF WorkInv, WorkTypes, BetweenRuns, AloneMultiplies
  <2>5. WorkersHold'
    <3>1. ASSUME NEW u \in Started, work[u] /= NoBlock
          PROVE  work[u] \in Blocks /\ work[u] /= b
      BY <1>0, <2>1, <2>2, <3>1 DEF WorkInv, WorkersHold, Inserted
    <3> QED
      BY <1>0, <1>1, <2>1, <2>2, <2>3, <3>1 DEF WorkInv, WorkersHold
  <2>6. BlocksOnce'
    BY <1>0, <1>1, <2>1, <2>2, <2>3 DEF WorkInv, BlocksOnce
  <2> QED
    BY <2>4, <2>5, <2>6 DEF WorkInv
<1>10. CASE TakeBlock(t)
  <2>1. PICK b \in Blocks :
          bag[b] > 0 /\ bag' = [bag EXCEPT ![b] = @ - 1]
          /\ work' = [work EXCEPT ![t] = b]
    BY <1>10 DEF TakeBlock, TryRemove
  <2>2. /\ pc[t] = "remove" /\ pc' = [pc EXCEPT ![t] = "copy_from"]
        /\ UNCHANGED <<next, tempC, C>>
    BY <1>10 DEF TakeBlock, TryRemove, Goto
  <2>3. NR_CPUS /= 1 /\ Inserted' = Inserted
    BY <1>1, <1>3, <2>2 DEF Working, Inserted
  <2>4. /\ bag[b] = 1 /\ C[b] = impl - 1 /\ b \in Inserted /\ bag'[b] = 0
        /\ \A x \in Blocks : x /= b => bag'[x] = bag[x]
    <3>1. bag \in [Blocks -> Nat]
      BY DEF GEMMInv, GEMMTypes, Blocks
    <3>2. bag[b] = 1 /\ C[b] = impl - 1 /\ b \in Inserted
      BY <1>0, <2>1, <2>3, <3>1 DEF WorkInv, BlocksOnce
    <3> QED BY <2>1, <3>1, <3>2
  <2>5. work'[t] = b /\ \A u \in Threads : u /= t => work'[u] = work[u]
    BY <2>1 DEF WorkInv, WorkTypes
  <2>6. /\ b /= NoBlock /\ \A u \in Started : work[u] /= b
        /\ work[t] = NoBlock
    <3>1. b /= NoBlock
      BY BlockTypes
    <3>2. work[t] = NoBlock
      BY <1>0, <2>2, <2>3 DEF WorkInv, WorkersHold, Copying
    <3> QED BY <1>0, <2>3, <2>4, <3>1, <3>2 DEF WorkInv, WorkersHold
  <2>7. WorkTypes' /\ BetweenRuns' /\ AloneMultiplies'
    BY <1>1, <2>1, <2>2, <2>3 DEF WorkInv, WorkTypes, BetweenRuns, AloneMultiplies
  <2>8. \A u \in Threads : pc'[u] = IF u = t THEN "copy_from" ELSE pc[u]
    BY <1>2, <2>2
  <2>9. WorkersHold'
    <3>1. ASSUME NEW u \in Started
          PROVE  /\ pc'[u] \in Copying <=> work'[u] /= NoBlock
                 /\ pc'[u] = "copy_to" => tempC'[u] = impl'
                 /\ work'[u] /= NoBlock =>
                      /\ \A v \in Started : work'[v] = work'[u] => v = u
                      /\ work'[u] \in Inserted' /\ bag'[work'[u]] = 0
                      /\ C'[work'[u]] = impl' - 1
      <4>1. CASE u = t
        BY <1>0, <1>1, <2>2, <2>3, <2>4, <2>5, <2>6, <2>8, <4>1 DEF Copying
      <4>2. CASE u /= t
        <5>1. work'[u] = work[u] /\ pc'[u] = pc[u] /\ work[u] /= b
          BY <1>0, <2>5, <2>6, <2>8, <4>2
        <5>2. work[u] /= NoBlock => work[u] \in Blocks
          BY <1>0 DEF WorkInv, WorkTypes
        <5> QED
          BY <1>0, <1>1, <2>2, <2>3, <2>4, <2>5, <2>6, <4>2, <5>1, <5>2
             DEF WorkInv, WorkersHold
      <4> QED BY <4>1, <4>2
    <3> QED BY <1>1, <3>1 DEF WorkersHold
  <2>10. BlocksOnce'
    <3>1. ASSUME NEW x \in Blocks
          PROVE  /\ x \notin Inserted' => bag'[x] = 0 /\ C'[x] = impl' - 1
                 /\ bag'[x] /= 0 => bag'[x] = 1 /\ C'[x] = impl' - 1
                 /\ x \in Inserted' /\ bag'[x] = 0 =>
                      C'[x] = impl' \/ \E u \in Started : work'[u] = x
      <4>1. CASE x = b
        BY <1>0, <1>1, <2>2, <2>3, <2>4, <2>5, <4>1
      <4>2. CASE x /= b
        <5>1. \A u \in Started : work[u] = x => u /= t
          BY <2>6, BlockTypes
        <5> QED
          BY <1>0, <1>1, <2>2, <2>3, <2>4, <2>5, <4>2, <5>1 DEF WorkInv, BlocksOnce
      <4> QED BY <4>1, <4>2
    <3> QED BY <1>1, <3>1 DEF BlocksOnce
  <2> QED
    BY <2>7, <2>9, <2>10 DEF WorkInv
<1>11. CASE CopyFrom(t)
  <2>1. /\ pc[t] = "copy_from" /\ pc' = [pc EXCEPT ![t] = "copy_to"]
        /\ tempC' = [tempC EXCEPT ![t] = C[work[t]] + 1]
        /\ UNCHANGED <<bag, next, work, C>>
    BY <1>11 DEF CopyFrom, Goto, baseVars, bagVars
  <2>2. NR_CPUS /= 1 /\ Inserted' = Inserted
    BY <1>1, <1>3, <2>1 DEF Working, Inserted
  <2>3. work[t] \in Blocks /\ C[work[t]] = impl - 1 /\ C[work[t]] + 1 = impl
    <3>1. work[t] /= NoBlock /\ C[work[t]] = impl - 1
      BY <1>0, <2>1, <2>2 DEF WorkInv, WorkersHold, Copying
    <3> QED BY <3>1 DEF WorkInv, WorkTypes
  <2>4. tempC'[t] = impl /\ \A u \in Threads : u /= t => tempC'[u] = tempC[u]
    BY <2>1, <2>3 DEF WorkInv, WorkTypes
  <2>5. WorkTypes' /\ BetweenRuns' /\ AloneMultiplies'
    BY <1>1, <2>1, <2>2, <2>3 DEF WorkInv, WorkTypes, BetweenRuns, AloneMultiplies
  <2>6. WorkersHold'
    BY <1>0, <1>1, <1>2, <2>1, <2>2, <2>4 DEF WorkInv, WorkersHold, Copying
  <2>7. BlocksOnce'
    BY <1>0, <1>1, <2>1, <2>2 DEF WorkInv, BlocksOnce
  <2> QED
    BY <2>5, <2>6, <2>7 DEF WorkInv
<1>12. CASE CopyTo(t)
  <2> DEFINE b == work[t]
  <2>1. /\ pc[t] = "copy_to" /\ pc' = [pc EXCEPT ![t] = "remove"]
        /\ C' = [C EXCEPT ![b] = tempC[t]]
        /\ work' = [work EXCEPT ![t] = NoBlock]
        /\ tempC' = [tempC EXCEPT ![t] = 0]
        /\ UNCHANGED <<bag, next>>
    BY <1>12 DEF CopyTo, Goto, baseVars, bagVars
  <2>2. NR_CPUS /= 1 /\ Inserted' = Inserted
    BY <1>1, <1>3, <2>1 DEF Working, Inserted
  <2>3. /\ tempC[t] = impl /\ b /= NoBlock /\ b \in Inserted /\ bag[b] = 0
        /\ \A u \in Started : u /= t => work[u] /= b
    BY <1>0, <2>1, <2>2 DEF WorkInv, WorkersHold, Copying
  <2>4. b \in Blocks
    BY <2>3 DEF Inserted
  <2> HIDE DEF b
  <2>5. C'[b] = impl /\ \A x \in Blocks : x /= b => C'[x] = C[x]
    BY <2>1, <2>3, <2>4 DEF WorkInv, WorkTypes
  <2>6. work'[t] = NoBlock /\ \A u \in Threads : u /= t => work'[u] = work[u]
    BY <2>1 DEF WorkInv, WorkTypes
  <2>7. WorkTypes' /\ BetweenRuns' /\ AloneMultiplies'
    BY <1>1, <2>1, <2>2, <2>3, <2>4
       DEF WorkInv, WorkTypes, BetweenRuns, AloneMultiplies
  <2>8. \A u \in Threads : /\ pc'[u] = IF u = t THEN "remove" ELSE pc[u]
                           /\ u /= t => tempC'[u] = tempC[u]
    BY <1>2, <2>1 DEF WorkInv, WorkTypes
  <2>9. WorkersHold'
    <3>1. ASSUME NEW u \in Started
          PROVE  /\ pc'[u] \in Copying <=> work'[u] /= NoBlock
                 /\ pc'[u] = "copy_to" => tempC'[u] = impl'
                 /\ work'[u] /= NoBlock =>
                      /\ \A v \in Started : work'[v] = work'[u] => v = u
                      /\ work'[u] \in Inserted' /\ bag'[work'[u]] = 0
                      /\ C'[work'[u]] = impl' - 1
      <4>1. CASE u = t
        BY <1>0, <2>6, <2>8, <4>1 DEF Copying
      <4>2. CASE u /= t
        <5>1. work'[u] = work[u] /\ pc'[u] = pc[u] /\ work[u] /= b /\ tempC'[u] = tempC[u]
          BY <1>0, <2>3, <2>6, <2>8, <4>2
        <5>2. work[u] /= NoBlock => work[u] \in Blocks
          BY <1>0 DEF WorkInv, WorkTypes
        <5> QED
          BY <1>0, <1>1, <2>1, <2>2, <2>5, <2>6, <4>2, <5>1, <5>2
             DEF WorkInv, WorkersHold
      <4> QED BY <4>1, <4>2
    <3> QED BY <1>1, <3>1 DEF WorkersHold
  <2>10. BlocksOnce'
    <3>1. ASSUME NEW x \in Blocks
          PROVE  /\ x \notin Inserted' => bag'[x] = 0 /\ C'[x] = impl' - 1
                 /\ bag'[x] /= 0 => bag'[x] = 1 /\ C'[x] = impl' - 1
                 /\ x \in Inserted' /\ bag'[x] = 0 =>
                      C'[x] = impl' \/ \E u \in Started : work'[u] = x
      <4>1. CASE x = b
        BY <1>0, <1>1, <2>1, <2>2, <2>3, <2>5, <4>1
      <4>2. CASE x /= b
        <5>1. C'[x] = C[x] /\ bag'[x] = bag[x]
          BY <2>1, <2>5, <4>2
        <5>2. \A u \in Started : work[u] = x => work'[u] = x
          BY <1>0, <2>6, <4>2 DEF b
        <5> QED
          BY <1>0, <1>1, <2>2, <5>1, <5>2 DEF WorkInv, BlocksOnce
      <4> QED BY <4>1, <4>2
    <3> QED BY <1>1, <3>1 DEF BlocksOnce
  <2> QED
    BY <2>7, <2>9, <2>10 DEF WorkInv
<1> QED
  BY <1>4, <1>5, <1>6, <1>7, <1>8, <1>9, <1>10, <1>11, <1>12 DEF Step

-----------------------------------------------------------------------------
\* The whole invariant of GEMM.
GEMMIInv == GEMMInv /\ OwnRows /\ CountInv /\ WorkInv

LEMMA GEMMInvariance == Spec => [](BenchIInv /\ GEMMIInv)
<1>1. Init => GEMMIInv
  BY InitGEMMInv, InitOwnRows, InitCounts, InitWork DEF GEMMIInv
<1>2. BenchIInv /\ GEMMIInv /\ [Next]_vars => GEMMIInv'
  <2> SUFFICES ASSUME BenchIInv, GEMMIInv, [Next]_vars PROVE GEMMIInv'
    OBVIOUS
  <2> USE DEF GEMMIInv
  <2>1. GEMMInv'
    BY HarnessKeepsGEMMInv, StepKeepsGEMMInv, StutterKeepsGEMMInv DEF Next
  <2>2. OwnRows'
    BY StepKeepsOwnRows
  <2>3. CASE HarnessStep
    BY <2>1, <2>2, <2>3, HarnessKeepsCounts, HarnessKeepsWork
  <2>4. ASSUME NEW t \in Threads, Step(t) PROVE GEMMIInv'
    BY <2>1, <2>2, <2>4, StepKeepsCounts, StepKeepsWork
  <2>5. CASE UNCHANGED vars
    <3>1. /\ UNCHANGED <<harness, impl, nrThreads, pc, NR_CPUS, bag, count, total>>
          /\ UNCHANGED <<next, work, tempC, C>>
      BY <2>5 DEF vars, baseVars, bagVars, bench, locals
    <3>2. /\ Started' = Started /\ Underway' = Underway
          /\ InsertsPending' = InsertsPending /\ RemovesPending' = RemovesPending
      BY <3>1 DEF Started, Underway, InsertsPending, RemovesPending
    <3>3. CountInv'
      BY <3>1, <3>2, SameCounts
    <3>4. WorkInv'
      BY <3>1, <3>2, SameWork
    <3> QED BY <2>1, <2>2, <3>3, <3>4
  <2> QED BY <2>3, <2>4, <2>5 DEF Next
<1> QED
  BY <1>1, <1>2, BenchIInvHolds, PTL DEF Spec

\* When an implementation is reported every block has been multiplied once
\* more, none is left in the bag, and the counters of the object agree.
THEOREM GEMMMultipliesOnce == Spec => []MultipliedOnce
<1>1. ASSUME BenchIInv, GEMMIInv PROVE MultipliedOnce
  <2> SUFFICES ASSUME harness = "report"
               PROVE  /\ \A b \in Blocks : C[b] = impl
                      /\ BagIsEmpty
                      /\ total.insert = total.remove
    BY DEF MultipliedOnce
  <2> USE <1>1 DEF GEMMIInv
  <2>1. /\ Underway /\ nrThreads \in NrThreads /\ NR_CPUS = nrThreads
        /\ 0 \in Started /\ Started \subseteq Threads
        /\ \A t \in Started : pc[t] = "exit"
    BY StartedThreads
       DEF Underway, BenchIInv, BenchTypes, BenchCreation, GEMMInv, GEMMTypes
  <2>2. BagIsEmpty
    BY <2>1, InvLeavesWhenDrained DEF LeavesWhenDrained
  <2>3. ASSUME NEW b \in Blocks PROVE C[b] = impl
    <3>1. CASE NR_CPUS = 1
      BY <2>1, <3>1 DEF WorkInv, AloneMultiplies, Leaving
    <3>2. CASE NR_CPUS /= 1
      <4>1. \A t \in Started : pc[t] \in Leaving /\ pc[t] \notin Copying
        BY <2>1 DEF Leaving, Copying
      <4>2. Inserted = Blocks
        BY <2>1, <3>2, <4>1, AllInserted DEF OwnRows
      <4>3. \A t \in Started : work[t] /= b
        BY <2>1, <3>2, <4>1, BlockTypes DEF WorkInv, WorkersHold
      <4> QED
        BY <2>1, <2>2, <3>2, <4>2, <4>3 DEF WorkInv, BlocksOnce, BagIsEmpty, Blocks
    <3> QED BY <3>1, <3>2
  <2>4. total.insert = total.remove
    <3>1. InsertsPending = {} /\ RemovesPending = {}
      BY <2>1 DEF InsertsPending, RemovesPending, Saved
    <3>2. SumOver({}, Inserts) = 0 /\ SumOver({}, Removes) = 0
      BY SumZero, FS_EmptySet
    <3>3. SumOver(Items, bag) = 0
      BY <2>2, BlocksFinite, SumZero DEF BagIsEmpty, GEMMInv, GEMMTypes
    <3> QED
      BY <2>1, <3>1, <3>2, <3>3 DEF CountInv, CountsAddUp, CountTypes
  <2> QED BY <2>2, <2>3, <2>4
<1> QED
  BY <1>1, GEMMInvariance, PTL
=============================================================================
