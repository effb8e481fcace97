-------------------------- MODULE MandelbrotProofs --------------------------
(***************************************************************************)
(* What holds of Mandelbrot for any image, contention level and number of  *)
(* implementations, any even numbers of threads, and any bag that misses   *)
(* few enough items: when threads leave (MandelbrotInv), and where each    *)
(* region of the image is until its pixels show it (ImageInv).             *)
(***************************************************************************)
EXTENDS Mandelbrot, TestBenchProofs, FunctionTheorems

\* As many consumers as producers.
EvenThreads == \A n \in NrThreads : n % 2 = 0

\* Mandelbrot does not touch the variables of the bench in RunImplementationNr
\* and returns from it to "finish".
LEMMA StepImplementsBench ==
  ASSUME BenchTypes, [Next]_vars
  PROVE  [BenchNext]_<<bench, pc>>
<1> USE DEF baseVars, bagVars, Goto, Outside
<1>0. ASSUME NEW t \in Threads, NEW there PROVE [pc EXCEPT ![t] = there][t] = there
  BY DEF BenchTypes
<1>1. CASE HarnessStep
  BY <1>1 DEF HarnessStep, Prepare, BasePrepare, BenchNext
<1>2. ASSUME NEW t \in Threads, Step(t) PROVE [BenchNext]_<<bench, pc>>
  <2> SUFFICES \/ BenchThreadStep(t) \/ Run(t) \/ UNCHANGED <<bench, pc>>
               \/ SeeGo(t, pc'[t]) /\ pc'[t] \notin Outside
    BY DEF BenchNext
  <2>1. CASE Begin(t)
    <3>1. PICK there \in {"produce", "remove"} : SeeGo(t, there)
      BY <2>1 DEF Begin
    <3>2. pc'[t] = there
      BY <3>1, <1>0 DEF SeeGo
    <3> QED BY <3>1, <3>2
  <2>2. CASE Produce(t) BY <2>2, <1>0 DEF Produce, Run
  <2>3. CASE InsertRegion(t) BY <2>3, <1>0 DEF InsertRegion, Insert, Run
  <2>4. CASE Added(t) BY <2>4, <1>0 DEF Added, Run
  <2>5. CASE TakeRegion(t) BY <2>5, <1>0 DEF TakeRegion, TryRemove, Run
  <2>6. CASE FindNoRegion(t) BY <2>6, <1>0 DEF FindNoRegion, TryRemoveFails, Run
  <2>7. CASE Consume(t) BY <2>7, <1>0 DEF Consume, Run
  <2>8. CASE Check(t)
    <3>1. PICK there \in {"sum", "remove"} : Goto(t, there)
      BY <2>8 DEF Check
    <3> QED BY <2>8, <3>1, <1>0 DEF Check, Run
  <2>9. CASE Summed(t) BY <2>9, <1>0 DEF Summed, Run
  <2>10. CASE WaitAll(t) BY <2>10, <1>0 DEF WaitAll, Run
  <2>11. CASE SaveStatistics(t)
    BY <2>11, <1>0 DEF SaveStatistics, SaveInserts, SaveRemoves, Run
  <2>12. CASE BenchThreadStep(t) BY <2>12
  <2> QED
    BY <1>2, <2>1, <2>2, <2>3, <2>4, <2>5, <2>6, <2>7, <2>8, <2>9, <2>10, <2>11,
       <2>12
       DEF Step
<1>3. CASE UNCHANGED vars
  BY <1>3 DEF vars
<1> QED
  BY <1>1, <1>2, <1>3 DEF Next

\* Mandelbrot is an experiment of the bench.
LEMMA InitImplementsBench == Init => BenchInit
  BY DEF Init, BaseInit

\* The invariant of the bench holds in Mandelbrot.
LEMMA BenchIInvHolds == Spec => []BenchIInv
<1>1. BenchIInv /\ [Next]_vars => BenchIInv'
  BY StepImplementsBench, BenchStepKeepsIInv DEF BenchIInv
<1>2. Init => BenchIInv
  BY InitImplementsBench, InitBenchInv
<1> QED
  BY <1>1, <1>2, PTL DEF Spec

\* Mandelbrot in the bench is the bench with some experiment: whatever is
\* proved of the bench holds of it.
THEOREM MandelbrotImplementsBench == Spec => BenchSpec
<1>1. BenchIInv /\ [Next]_vars => [BenchNext]_<<bench, pc>>
  BY StepImplementsBench DEF BenchIInv
<1> QED
  BY <1>1, BenchIInvHolds, InitImplementsBench, PTL DEF Spec, BenchSpec

-----------------------------------------------------------------------------
Half == nrThreads \div 2

Producers == {t \in Started : Produces(t)}

Done == {"wait"} \cup PastWait

\* The producers that have counted themselves in nrAdders.
ProducersDone == {t \in Producers : pc[t] \in Done}

MandelbrotTypes ==
  /\ NR_CPUS = nrThreads
  /\ nrAdders \in Nat
  /\ nrSums \in Nat
  /\ bag \in [Items -> Nat]
  /\ misses \in [Threads -> 0 .. MaxMisses]
  /\ checks \in [Threads -> Nat]

Roles ==
  \A t \in Threads :
    IF Produces(t) THEN pc[t] \notin {"remove", "consume", "check", "sum"}
                   ELSE pc[t] \notin {"produce", "insert"}

AddersCount ==
  harness \notin {"prepare", "end"} => nrAdders = Cardinality(ProducersDone)

\* As long as there are regions a consumer has seen no more empty bags after
\* the last producer finished than the bag missed items for it, and one more
\* at most.
ChecksBound ==
  /\ nrAdders /= Half => \A t \in Threads : checks[t] = 0
  /\ ~BagIsEmpty =>
       \A t \in Threads :
         /\ checks[t] <= misses[t] + 1
         /\ pc[t] = "check" => checks[t] <= misses[t]

Summing == {"sum"} \cup PastWait

\* A consumer counts itself in nrSums when all producers have finished and the
\* bag is empty, and nobody is past the wait before.
SummedLast ==
  nrSums /= 0 \/ (\E t \in Started : pc[t] \in Summing) =>
    nrAdders = Half /\ BagIsEmpty

MandelbrotInv ==
  MandelbrotTypes /\ Roles /\ AddersCount /\ ChecksBound /\ SummedLast

-----------------------------------------------------------------------------
\* The object counts all threads the bench may start.
LEMMA AllThreadsCounted ==
  ASSUME nrThreads \in NrThreads
  PROVE  Min({nrThreads, MaxCPUS}) = nrThreads
<1>1. nrThreads \in 2 .. MaxCPUS /\ MaxCPUS \in Nat
  BY MandelbrotAssumption, BaseAssumption
<1> QED
  BY <1>1 DEF Min

\* Of an even number of threads no more than half produce.
LEMMA HalfProduce ==
  ASSUME nrThreads \in NrThreads, EvenThreads
  PROVE  /\ Half \in Nat \ {0} /\ nrThreads = 2 * Half
         /\ (nrThreads + 1) \div 2 = Half
         /\ IsFiniteSet(Producers)
         /\ Cardinality(Producers) \in Nat /\ Cardinality(Producers) <= Half
<1>1. nrThreads \in Nat /\ nrThreads >= 2 /\ nrThreads % 2 = 0
  BY MandelbrotAssumption, BaseAssumption DEF EvenThreads
<1>2. Half \in Nat \ {0} /\ nrThreads = 2 * Half /\ (nrThreads + 1) \div 2 = Half
  BY <1>1 DEF Half
<1> DEFINE f == [i \in 0 .. Half - 1 |-> 2 * i]
<1>3. f \in Surjection(0 .. Half - 1, Producers)
  <2>1. ASSUME NEW i \in 0 .. Half - 1 PROVE f[i] \in Producers
    BY <1>2 DEF Producers, Started, Produces
  <2>2. ASSUME NEW t \in Producers PROVE \E i \in 0 .. Half - 1 : f[i] = t
    <3>1. t \in Int /\ 0 <= t /\ t < 2 * Half /\ t % 2 = 0
      BY <1>2 DEF Producers, Started, Produces
    <3>2. t \div 2 \in 0 .. Half - 1 /\ 2 * (t \div 2) = t
      BY <1>2, <3>1
    <3> QED BY <3>2
  <2> QED BY <2>1, <2>2, Fun_IsSurj
<1>4. IsFiniteSet(0 .. Half - 1) /\ Cardinality(0 .. Half - 1) = Half
  <2>1. ASSUME NEW n \in Nat \ {0}
        PROVE  IsFiniteSet(0 .. n - 1) /\ Cardinality(0 .. n - 1) = n
    BY FS_Interval
  <2> QED BY <1>2, <2>1
<1>5. IsFiniteSet(Producers) /\ Cardinality(Producers) <= Half
  BY <1>3, <1>4, FS_Surjection
<1> QED
  BY <1>2, <1>5, FS_CardinalityType

\* As many producers have finished as nrAdders waits for only when all have.
LEMMA DoneBound ==
  ASSUME nrThreads \in NrThreads, EvenThreads
  PROVE  /\ IsFiniteSet(ProducersDone) /\ Cardinality(ProducersDone) \in Nat
         /\ Cardinality(ProducersDone) = Half => ProducersDone = Producers
<1>1. ProducersDone \in SUBSET Producers /\ Producers \cap ProducersDone = ProducersDone
  BY DEF ProducersDone
<1>2. IsFiniteSet(ProducersDone) /\ Cardinality(ProducersDone) \in Nat
  BY <1>1, HalfProduce, FS_Subset, FS_CardinalityType
<1>3. /\ IsFiniteSet(Producers \ ProducersDone)
      /\ Cardinality(Producers \ ProducersDone) =
           Cardinality(Producers) - Cardinality(ProducersDone)
  <2>1. IsFiniteSet(Producers)
    BY HalfProduce
  <2> QED BY <1>1, <2>1, FS_Difference
<1>4. Cardinality(Producers \ ProducersDone) \in Nat
  BY <1>3, FS_CardinalityType
<1>5. ASSUME Cardinality(ProducersDone) = Half
      PROVE  Producers \ ProducersDone = {}
  <2>1. Cardinality(Producers) \in Nat /\ Cardinality(Producers) <= Half /\ Half \in Nat
    BY HalfProduce
  <2>2. Cardinality(Producers \ ProducersDone) = 0
    BY <1>3, <1>4, <1>5, <2>1
  <2> QED BY <1>3, <2>2, FS_EmptySet
<1> QED
  BY <1>1, <1>2, <1>5

\* Mandelbrot starts in its invariant.
LEMMA InitMandelbrotInv == Init => MandelbrotInv
<1> SUFFICES ASSUME Init PROVE MandelbrotInv
  OBVIOUS
<1>1. NR_CPUS = nrThreads /\ BagIsEmpty
  BY AllThreadsCounted DEF Init, BaseInit, BenchInit, BagIsEmpty
<1>2. MandelbrotTypes
  BY <1>1, BaseAssumption DEF Init, BaseInit, MandelbrotTypes
<1>3. \A t \in Threads : pc[t] = "none"
  BY DEF Init, BaseInit, BenchInit
<1>4. Started \subseteq Threads
  BY StartedThreads DEF Init, BaseInit, BenchInit
<1>5. Roles /\ AddersCount
  BY <1>3 DEF Roles, AddersCount, Init, BaseInit, BenchInit
<1>6. ChecksBound /\ SummedLast
  BY <1>1, <1>3, <1>4 DEF ChecksBound, SummedLast, Summing, PastWait, Init
<1> QED
  BY <1>2, <1>5, <1>6 DEF MandelbrotInv

\* A step of a started thread changes ProducersDone only by that thread.
LEMMA StepDone ==
  ASSUME BenchIInv, NEW t \in Started, NEW there,
         pc' = [pc EXCEPT ![t] = there], nrThreads' = nrThreads
  PROVE  /\ Started' = Started /\ Started \subseteq Threads /\ Half' = Half
         /\ \A u \in Threads : pc'[u] = IF u = t THEN there ELSE pc[u]
         /\ ProducersDone' = IF Produces(t) /\ there \in Done
                             THEN ProducersDone \cup {t} ELSE ProducersDone \ {t}
<1>1. Started' = Started /\ t \in Threads /\ Started \subseteq Threads /\ Half' = Half
  BY StartedThreads DEF Started, Half, BenchIInv, BenchTypes
<1>2. \A u \in Threads : pc'[u] = IF u = t THEN there ELSE pc[u]
  BY <1>1 DEF BenchIInv, BenchTypes
<1>3. Producers' = Producers
  BY <1>1 DEF Producers, Produces
<1>4. \A u : u \in ProducersDone' <=> u \in Producers /\ pc'[u] \in Done
  BY <1>3 DEF ProducersDone, Done, PastWait
<1>5. \A u \in Producers : u \in Threads
  BY <1>1 DEF Producers
<1> QED
  BY <1>1, <1>2, <1>4, <1>5 DEF ProducersDone, Producers

\* A step that only moves a thread, and neither finishes a producer nor lets a
\* thread sum or leave that did not before.
LEMMA MoveKeepsMandelbrotInv ==
  ASSUME BenchIInv, MandelbrotInv, NEW t \in Started, NEW there,
         pc' = [pc EXCEPT ![t] = there],
         UNCHANGED <<harness, nrThreads, NR_CPUS, nrAdders, nrSums, bag, misses,
                     checks>>,
         there /= "check",
         there \in Summing => pc[t] \in Summing,
         IF Produces(t) THEN there \notin {"remove", "consume", "sum"}
                        ELSE there \notin {"produce", "insert"},
         Produces(t) => (there \in Done <=> pc[t] \in Done)
  PROVE  MandelbrotInv'
<1> USE DEF MandelbrotInv
<1>1. /\ Started' = Started /\ Started \subseteq Threads /\ Half' = Half
      /\ \A u \in Threads : pc'[u] = IF u = t THEN there ELSE pc[u]
      /\ ProducersDone' = IF Produces(t) /\ there \in Done
                          THEN ProducersDone \cup {t} ELSE ProducersDone \ {t}
  BY StepDone
<1>2. ProducersDone' = ProducersDone
  BY <1>1 DEF ProducersDone, Producers
<1>3. MandelbrotTypes' /\ BagIsEmpty' = BagIsEmpty
  BY DEF MandelbrotTypes, BagIsEmpty
<1>4. Roles'
  BY <1>1 DEF Roles, Produces
<1>5. AddersCount'
  BY <1>2 DEF AddersCount
<1>6. ChecksBound'
  <2>1. \A u \in Threads : checks[u] \in Nat /\ misses[u] \in Nat
    BY BaseAssumption DEF MandelbrotTypes
  <2> QED BY <1>1, <1>3, <2>1 DEF ChecksBound
<1>7. SummedLast'
  <2>1. ASSUME NEW u \in Started, pc'[u] \in Summing'
        PROVE  \E v \in Started : pc[v] \in Summing
    BY <1>1, <2>1 DEF Summing, PastWait
  <2> QED BY <1>1, <1>3, <2>1 DEF SummedLast
<1> QED
  BY <1>3, <1>4, <1>5, <1>6, <1>7

\* The harness keeps the invariant: it only starts threads, lets them go and
\* prepares the counters when there are none.
LEMMA HarnessKeepsMandelbrotInv ==
  BenchIInv /\ MandelbrotInv /\ HarnessStep => MandelbrotInv'
<1> SUFFICES ASSUME BenchIInv, MandelbrotInv, HarnessStep PROVE MandelbrotInv'
  OBVIOUS
<1> USE DEF BenchIInv, MandelbrotInv, bagVars
<1>0. /\ nrThreads' = nrThreads /\ NR_CPUS' = NR_CPUS /\ Started' = Started
      /\ Half' = Half /\ Started \subseteq Threads /\ nrThreads \in NrThreads
  BY StartedThreads DEF HarnessStep, Prepare, BasePrepare, BenchPrepare,
     BenchHarnessStep, Create, Go, Stop, Join, Report, Started, Half, BenchTypes
<1>1. CASE Prepare
  <2>1. harness = "prepare" /\ harness' = "create" /\ nrAdders' = 0 /\ nrSums' = 0
        /\ bag' = [i \in Items |-> 0] /\ misses' = [t \in Threads |-> 0]
        /\ checks' = [t \in Threads |-> 0] /\ pc' = pc
    BY <1>1 DEF Prepare, BasePrepare, BenchPrepare
  <2>2. \A t \in Threads : pc[t] = "none"
    BY <2>1 DEF BenchCreation
  <2>3. ProducersDone' = {} /\ BagIsEmpty'
    BY <1>0, <2>1, <2>2 DEF ProducersDone, Producers, Done, PastWait, BagIsEmpty
  <2>4. MandelbrotTypes'
    BY <1>0, <2>1, BaseAssumption DEF MandelbrotTypes
  <2>5. Roles' /\ AddersCount'
    BY <1>0, <2>1, <2>2, <2>3, FS_EmptySet DEF Roles, AddersCount
  <2>6. ChecksBound' /\ SummedLast'
    BY <1>0, <2>1, <2>2, <2>3 DEF ChecksBound, SummedLast, Summing, PastWait
  <2> QED BY <2>4, <2>5, <2>6
<1>2. ASSUME BenchHarnessStep,
             UNCHANGED <<bagVars, nrAdders, nrSums, locals, regionVars>>
      PROVE  MandelbrotInv'
  <2>1. /\ MandelbrotTypes' /\ BagIsEmpty' = BagIsEmpty
        /\ UNCHANGED <<NR_CPUS, nrAdders, nrSums, bag, checks, misses>>
    BY <1>0, <1>2 DEF MandelbrotTypes, locals, BagIsEmpty
  <2>2. CASE Go \/ Stop \/ Join
    <3>1. pc' = pc /\ harness \notin {"prepare", "end"}
          /\ ProducersDone' = ProducersDone
      BY <1>0, <2>2 DEF Go, Stop, Join, ProducersDone, Producers, Done, PastWait
    <3> QED
      BY <1>0, <2>1, <3>1 DEF Roles, AddersCount, ChecksBound, SummedLast, Summing
  <2>3. CASE Create
    <3>1. PICK i \in Started : pc' = [pc EXCEPT ![i] = "start"] /\ pc[i] = "none"
      BY <2>3, CreateNext
    <3>2. harness' \in {"create", "wait"} /\ harness = "create"
      BY <2>3 DEF Create
    <3>3. ProducersDone' = ProducersDone
      <4>1. i \notin ProducersDone /\ "start" \notin Done
        BY <3>1 DEF ProducersDone, Done, PastWait
      <4>2. ProducersDone' = IF Produces(i) /\ "start" \in Done
                             THEN ProducersDone \cup {i} ELSE ProducersDone \ {i}
        BY <1>0, <3>1, StepDone
      <4> QED BY <4>1, <4>2
    <3>4. \A u \in Threads : pc'[u] = IF u = i THEN "start" ELSE pc[u]
      BY <1>0, <3>1, StepDone
    <3>5. Roles' /\ AddersCount'
      BY <2>1, <3>2, <3>3, <3>4 DEF Roles, AddersCount
    <3>6. ChecksBound'
      BY <1>0, <2>1, <3>4 DEF ChecksBound
    <3>7. SummedLast'
      BY <1>0, <2>1, <3>4 DEF SummedLast, Summing, PastWait
    <3> QED BY <2>1, <3>5, <3>6, <3>7
  <2>4. CASE Report
    <3>1. harness' \in {"prepare", "end"} /\ \A t \in Threads : pc'[t] = "none"
      BY <2>4 DEF Report
    <3>2. Roles' /\ AddersCount'
      BY <3>1 DEF Roles, AddersCount
    <3>3. ChecksBound'
      <4>1. \A t \in Threads : pc'[t] /= "check"
        BY <3>1
      <4>2. \A t \in Threads : checks[t] \in Nat /\ misses[t] \in Nat
        BY BaseAssumption DEF MandelbrotTypes
      <4> QED BY <1>0, <2>1, <4>1, <4>2 DEF ChecksBound
    <3>4. SummedLast'
      BY <1>0, <2>1, <3>1 DEF SummedLast, Summing, PastWait
    <3> QED BY <2>1, <3>2, <3>3, <3>4
  <2> QED BY <1>2, <2>2, <2>3, <2>4 DEF BenchHarnessStep
<1> QED
  BY <1>1, <1>2 DEF HarnessStep

\* While a producer produces not all have finished.
LEMMA ProducingNotDone ==
  ASSUME EvenThreads, BenchIInv, MandelbrotInv,
         NEW t \in Started, pc[t] \in {"produce", "insert"}
  PROVE  /\ Produces(t) /\ t \notin ProducersDone
         /\ nrAdders = Cardinality(ProducersDone) /\ nrAdders /= Half
         /\ nrSums = 0 /\ \A u \in Started : pc[u] \notin Summing
<1> USE DEF BenchIInv, MandelbrotInv
<1>1. t \in Threads /\ nrThreads \in NrThreads
  BY StartedThreads DEF BenchTypes
<1>2. Produces(t) /\ t \in Producers /\ t \notin ProducersDone
  BY <1>1 DEF Roles, Producers, ProducersDone, Done, PastWait
<1>3. nrAdders = Cardinality(ProducersDone)
  BY <1>1, RunningThread DEF AddersCount
<1>4. nrAdders /= Half
  BY <1>1, <1>2, <1>3, DoneBound
<1> QED
  BY <1>2, <1>3, <1>4 DEF SummedLast

\* The steps of the threads keep the invariant.
LEMMA StepKeepsMandelbrotInv ==
  ASSUME EvenThreads, BenchIInv, MandelbrotInv, NEW t \in Threads, Step(t)
  PROVE  MandelbrotInv'
<1> USE DEF MandelbrotInv
<1>0. pc[t] /= "none"
  BY DEF Step, BenchThreadStep, CountIn, CountOut, WriteEndTime, Begin, SeeGo,
     Produce, InsertRegion, Added, TakeRegion, FindNoRegion, Consume, Check,
     Summed, WaitAll, SaveStatistics, SaveInserts, SaveRemoves
<1>1. t \in Started /\ harness \notin {"prepare", "end"}
  BY <1>0, RunningThread
<1>2. /\ nrThreads \in NrThreads /\ Started \subseteq Threads
      /\ NR_CPUS = nrThreads /\ nrAdders \in Nat /\ nrSums \in Nat
      /\ \A u \in Threads : checks[u] \in Nat /\ misses[u] \in 0 .. MaxMisses
                              /\ misses[u] \in Nat
  BY StartedThreads, BaseAssumption DEF BenchIInv, BenchTypes, MandelbrotTypes
<1>3. /\ Produces(t) => pc[t] \notin {"remove", "consume", "check", "sum"}
      /\ ~Produces(t) => pc[t] \notin {"produce", "insert"}
  BY DEF Roles
<1>4. /\ NR_CPUS \div 2 = Half /\ (NR_CPUS + 1) \div 2 = Half /\ Half \in Nat \ {0}
  BY <1>2, HalfProduce DEF Half
<1>5. CASE BenchThreadStep(t)
           /\ UNCHANGED <<bagVars, nrAdders, nrSums, locals, regionVars>>
  <2>1. PICK there \in {"spin", "end_time", "exit"} :
          /\ pc' = [pc EXCEPT ![t] = there]
          /\ \/ there = "spin" /\ pc[t] = "start"
             \/ there /= "spin" /\ pc[t] \in {"finish", "end_time"}
          /\ UNCHANGED <<harness, nrThreads>>
    BY <1>5 DEF BenchThreadStep, CountIn, CountOut, WriteEndTime
  <2> QED
    BY <1>1, <1>5, <2>1, MoveKeepsMandelbrotInv
       DEF Summing, Done, PastWait, bagVars, locals
<1>6. CASE Begin(t)
  <2>1. PICK there \in {"produce", "remove"} :
          /\ pc' = [pc EXCEPT ![t] = there] /\ pc[t] = "spin"
          /\ there = "produce" <=> Produces(t)
          /\ UNCHANGED <<harness, nrThreads>>
    BY <1>6 DEF Begin, SeeGo
  <2> QED
    BY <1>1, <1>6, <2>1, MoveKeepsMandelbrotInv
       DEF Summing, Done, PastWait, bagVars, locals, Begin
<1>7. CASE Produce(t)
  BY <1>1, <1>3, <1>7, MoveKeepsMandelbrotInv
     DEF Produce, Summing, Done, PastWait, Goto, baseVars, bagVars, bench, locals
<1>8. CASE Consume(t)
  BY <1>1, <1>3, <1>8, MoveKeepsMandelbrotInv
     DEF Consume, Summing, Done, PastWait, Goto, baseVars, bagVars, bench, locals
<1>9. CASE SaveStatistics(t)
  <2>1. PICK there \in {"save_removes", "finish"} :
          /\ pc' = [pc EXCEPT ![t] = there]
          /\ pc[t] \in {"save_inserts", "save_removes"}
          /\ UNCHANGED <<harness, nrThreads, NR_CPUS, nrAdders, nrSums, bag, misses,
                         checks>>
    BY <1>9 DEF SaveStatistics, SaveInserts, SaveRemoves, Goto, bench, locals
  <2> QED
    BY <1>1, <2>1, MoveKeepsMandelbrotInv DEF Summing, Done, PastWait
<1>10. CASE InsertRegion(t)
  <2>1. /\ pc[t] = "insert" /\ pc' = [pc EXCEPT ![t] = "produce"]
        /\ UNCHANGED <<harness, nrThreads, NR_CPUS, nrAdders, nrSums, misses, checks>>
    BY <1>10 DEF InsertRegion, Insert, Goto, bench
  <2>2. PICK i : bag' = [bag EXCEPT ![i] = bag[i] + 1]
    BY <1>10 DEF InsertRegion, Insert
  <2>3. /\ Produces(t) /\ t \notin ProducersDone /\ nrAdders /= Half /\ nrSums = 0
        /\ \A u \in Started : pc[u] \notin Summing
    BY <1>1, <2>1, ProducingNotDone
  <2>4. /\ Started' = Started /\ Half' = Half
        /\ \A u \in Threads : pc'[u] = IF u = t THEN "produce" ELSE pc[u]
        /\ ProducersDone' = ProducersDone
    <3>1. "produce" \notin Done
      BY <2>1 DEF Done, PastWait
    <3>2. ProducersDone' = IF Produces(t) /\ "produce" \in Done
                           THEN ProducersDone \cup {t} ELSE ProducersDone \ {t}
      BY <1>1, <2>1, StepDone
    <3>3. /\ Started' = Started /\ Half' = Half
          /\ \A u \in Threads : pc'[u] = IF u = t THEN "produce" ELSE pc[u]
      BY <1>1, <2>1, StepDone
    <3> QED BY <2>3, <3>1, <3>2, <3>3
  <2>5. MandelbrotTypes'
    <3>1. bag' \in [Items -> Nat]
      <4>1. CASE i \in Items BY <2>2, <4>1 DEF MandelbrotTypes
      <4>2. CASE i \notin Items
        <5>1. bag' = bag BY <2>2, <4>2 DEF MandelbrotTypes
        <5> QED BY <5>1 DEF MandelbrotTypes
      <4> QED BY <4>1, <4>2
    <3> QED BY <2>1, <3>1 DEF MandelbrotTypes
  <2>6. Roles' /\ AddersCount'
    BY <2>1, <2>3, <2>4 DEF Roles, AddersCount, Produces
  <2>7. ChecksBound'
    BY <1>2, <2>1, <2>3, <2>4 DEF ChecksBound
  <2>8. SummedLast'
    BY <1>2, <2>1, <2>3, <2>4 DEF SummedLast, Summing, PastWait
  <2> QED BY <2>5, <2>6, <2>7, <2>8
<1>11. CASE Added(t)
  <2>1. /\ pc[t] = "produce" /\ nrAdders' = nrAdders + 1
        /\ pc' = [pc EXCEPT ![t] = "wait"]
        /\ UNCHANGED <<harness, nrThreads, NR_CPUS, nrSums, bag, misses, checks>>
    BY <1>11 DEF Added, Goto, baseVars, bagVars, bench, locals
  <2>2. /\ Produces(t) /\ t \notin ProducersDone /\ nrAdders /= Half /\ nrSums = 0
        /\ nrAdders = Cardinality(ProducersDone)
        /\ \A u \in Started : pc[u] \notin Summing
    BY <1>1, <2>1, ProducingNotDone
  <2>3. /\ Started' = Started /\ Half' = Half
        /\ \A u \in Threads : pc'[u] = IF u = t THEN "wait" ELSE pc[u]
        /\ ProducersDone' = ProducersDone \cup {t}
    <3>1. ProducersDone' = IF Produces(t) /\ "wait" \in Done
                           THEN ProducersDone \cup {t} ELSE ProducersDone \ {t}
      BY <1>1, <2>1, StepDone
    <3> QED BY <1>1, <2>1, <2>2, <3>1, StepDone DEF Done
  <2>4. Cardinality(ProducersDone') = nrAdders'
    BY <1>2, <2>1, <2>2, <2>3, DoneBound, FS_AddElement
  <2>5. MandelbrotTypes' /\ BagIsEmpty' = BagIsEmpty
    BY <1>2, <2>1 DEF MandelbrotTypes, BagIsEmpty
  <2>6. Roles' /\ AddersCount'
    BY <2>2, <2>3, <2>4 DEF Roles, AddersCount, Produces
  <2>7. ChecksBound'
    BY <1>2, <2>1, <2>2, <2>3 DEF ChecksBound
  <2>8. SummedLast'
    BY <1>2, <2>1, <2>2, <2>3 DEF SummedLast, Summing, PastWait
  <2> QED BY <2>5, <2>6, <2>7, <2>8
<1>12. ASSUME NEW there \in {"consume", "check", "remove", "sum", "wait"},
              ~Produces(t), pc' = [pc EXCEPT ![t] = there],
              UNCHANGED <<harness, nrThreads, NR_CPUS, nrAdders>>
       PROVE  /\ Started' = Started /\ Half' = Half
              /\ \A u \in Threads : pc'[u] = IF u = t THEN there ELSE pc[u]
              /\ Roles' /\ AddersCount'
  <2>1. /\ Started' = Started /\ Half' = Half
        /\ \A u \in Threads : pc'[u] = IF u = t THEN there ELSE pc[u]
    BY <1>1, <1>12, StepDone
  <2>2. ProducersDone' = IF Produces(t) /\ there \in Done
                         THEN ProducersDone \cup {t} ELSE ProducersDone \ {t}
    BY <1>1, <1>12, StepDone
  <2>3. ProducersDone' = ProducersDone
    BY <1>12, <2>2 DEF ProducersDone, Producers
  <2> QED BY <1>12, <2>1, <2>3 DEF Roles, AddersCount, Produces
<1>13. CASE TakeRegion(t)
  <2>1. PICK i : bag[i] > 0 /\ bag' = [bag EXCEPT ![i] = bag[i] - 1]
    BY <1>13 DEF TakeRegion, TryRemove
  <2>2. /\ pc[t] = "remove" /\ pc' = [pc EXCEPT ![t] = "consume"]
        /\ UNCHANGED <<harness, nrThreads, NR_CPUS, nrAdders, nrSums, misses, checks>>
    BY <1>13 DEF TakeRegion, TryRemove, Goto, bench
  <2>3. /\ Started' = Started /\ Half' = Half /\ Roles' /\ AddersCount'
        /\ \A u \in Threads : pc'[u] = IF u = t THEN "consume" ELSE pc[u]
    BY <1>3, <1>12, <2>2
  <2>4. bag' \in [Items -> Nat] /\ (BagIsEmpty => BagIsEmpty')
    <3>1. CASE i \in Items
      BY <2>1, <3>1 DEF MandelbrotTypes, BagIsEmpty
    <3>2. CASE i \notin Items
      <4>1. bag' = bag BY <2>1, <3>2 DEF MandelbrotTypes
      <4> QED BY <4>1 DEF MandelbrotTypes, BagIsEmpty
    <3> QED BY <3>1, <3>2
  <2>5. MandelbrotTypes'
    BY <2>2, <2>4 DEF MandelbrotTypes
  <2>6. ChecksBound'
    BY <1>2, <2>2, <2>3, <2>4 DEF ChecksBound
  <2>7. SummedLast'
    BY <1>2, <2>2, <2>3, <2>4 DEF SummedLast, Summing, PastWait
  <2> QED BY <2>3, <2>5, <2>6, <2>7
<1>14. CASE FindNoRegion(t)
  <2>1. /\ pc[t] = "remove" /\ pc' = [pc EXCEPT ![t] = "check"]
        /\ UNCHANGED <<harness, nrThreads, NR_CPUS, nrAdders, nrSums, bag, checks>>
        /\ \/ BagIsEmpty /\ misses' = misses
           \/ /\ misses[t] < MaxMisses
              /\ misses' = [misses EXCEPT ![t] = misses[t] + 1]
    BY <1>14 DEF FindNoRegion, TryRemoveFails, Goto, bench, locals
  <2>2. /\ Started' = Started /\ Half' = Half /\ Roles' /\ AddersCount'
        /\ \A u \in Threads : pc'[u] = IF u = t THEN "check" ELSE pc[u]
    BY <1>3, <1>12, <2>1
  <2>3. MandelbrotTypes' /\ BagIsEmpty' = BagIsEmpty
    BY <1>2, <2>1, BaseAssumption DEF MandelbrotTypes, BagIsEmpty
  <2>4. ChecksBound'
    <3>1. \A u \in Threads : u /= t => misses'[u] = misses[u]
      BY <2>1 DEF MandelbrotTypes
    <3>2. ~BagIsEmpty => misses'[t] = misses[t] + 1
      BY <1>1, <1>2, <2>1 DEF MandelbrotTypes
    <3> QED BY <1>1, <1>2, <2>1, <2>2, <2>3, <3>1, <3>2 DEF ChecksBound
  <2>5. SummedLast'
    BY <1>2, <2>1, <2>2, <2>3 DEF SummedLast, Summing, PastWait
  <2> QED BY <2>2, <2>3, <2>4, <2>5
<1>15. CASE Check(t)
  <2>1. PICK there \in {"remove", "sum"} :
          /\ pc[t] = "check" /\ pc' = [pc EXCEPT ![t] = there]
          /\ there = "sum" => nrAdders = Half /\ checks[t] > MaxChecks
          /\ UNCHANGED <<harness, nrThreads, NR_CPUS, nrAdders, nrSums, bag, misses>>
          /\ \/ checks' = checks
             \/ /\ nrAdders = Half
                /\ checks' = [checks EXCEPT ![t] = checks[t] + 1]
    <3> USE <1>15, <1>4 DEF Check, Goto, baseVars, bagVars, bench
    <3>1. CASE nrAdders = Half /\ checks[t] > MaxChecks
      BY <3>1
    <3>2. CASE nrAdders = Half /\ ~(checks[t] > MaxChecks)
      BY <3>2
    <3>3. CASE nrAdders /= Half
      BY <3>3
    <3> QED BY <3>1, <3>2, <3>3
  <2>2. /\ Started' = Started /\ Half' = Half /\ Roles' /\ AddersCount'
        /\ \A u \in Threads : pc'[u] = IF u = t THEN there ELSE pc[u]
    BY <1>3, <1>12, <2>1
  <2>3. MandelbrotTypes' /\ BagIsEmpty' = BagIsEmpty
    BY <1>2, <2>1 DEF MandelbrotTypes, BagIsEmpty
  <2>4. /\ \A u \in Threads : u /= t => checks'[u] = checks[u]
        /\ checks'[t] = checks[t] \/ checks'[t] = checks[t] + 1
        /\ \A u \in Threads : checks'[u] \in Nat
        /\ nrAdders /= Half => checks' = checks
    BY <1>1, <1>2, <2>1, <2>3 DEF MandelbrotTypes
  <2>5. ChecksBound'
    <3>1. nrAdders' /= Half' => \A u \in Threads : checks'[u] = 0
      BY <2>1, <2>2, <2>4 DEF ChecksBound
    <3>2. ASSUME ~BagIsEmpty', NEW u \in Threads
          PROVE  /\ checks'[u] <= misses'[u] + 1
                 /\ pc'[u] = "check" => checks'[u] <= misses'[u]
      <4>1. /\ misses' = misses /\ checks[u] <= misses[u] + 1
            /\ pc[u] = "check" => checks[u] <= misses[u]
        BY <2>1, <2>3, <3>2 DEF ChecksBound
      <4>2. CASE u = t
        BY <1>2, <2>1, <2>2, <2>4, <4>1, <4>2
      <4>3. CASE u /= t
        BY <2>2, <2>4, <4>1, <4>3
      <4> QED BY <4>2, <4>3
    <3> QED BY <3>1, <3>2 DEF ChecksBound
  <2>6. there = "sum" => BagIsEmpty
    BY <1>1, <1>2, <2>1, MandelbrotAssumption, BaseAssumption DEF ChecksBound
  <2>7. SummedLast'
    BY <1>2, <2>1, <2>2, <2>3, <2>6 DEF SummedLast, Summing, PastWait
  <2> QED BY <2>2, <2>3, <2>5, <2>7
<1>16. CASE Summed(t)
  <2>1. /\ pc[t] = "sum" /\ nrSums' = nrSums + 1 /\ pc' = [pc EXCEPT ![t] = "wait"]
        /\ UNCHANGED <<harness, nrThreads, NR_CPUS, nrAdders, bag, misses, checks>>
    BY <1>16 DEF Summed, Goto, baseVars, bagVars, bench, locals
  <2>2. /\ Started' = Started /\ Half' = Half /\ Roles' /\ AddersCount'
        /\ \A u \in Threads : pc'[u] = IF u = t THEN "wait" ELSE pc[u]
    BY <1>3, <1>12, <2>1
  <2>3. nrAdders = Half /\ BagIsEmpty
    BY <1>1, <2>1 DEF SummedLast, Summing
  <2>4. MandelbrotTypes' /\ BagIsEmpty' = BagIsEmpty
    BY <1>2, <2>1 DEF MandelbrotTypes, BagIsEmpty
  <2>5. ChecksBound' /\ SummedLast'
    BY <2>1, <2>2, <2>3, <2>4 DEF ChecksBound, SummedLast
  <2> QED BY <2>2, <2>4, <2>5
<1>17. CASE WaitAll(t)
  <2>1. /\ pc[t] = "wait" /\ nrAdders = Half /\ nrSums = Half
        /\ pc' = [pc EXCEPT ![t] = "save_inserts"]
        /\ UNCHANGED <<harness, nrThreads, NR_CPUS, nrAdders, nrSums, bag, misses,
                       checks>>
    BY <1>4, <1>17 DEF WaitAll, Goto, baseVars, bagVars, bench, locals
  <2>2. /\ Started' = Started /\ Half' = Half
        /\ \A u \in Threads : pc'[u] = IF u = t THEN "save_inserts" ELSE pc[u]
    BY <1>1, <2>1, StepDone
  <2>3. ProducersDone' = ProducersDone
    <3>1. ProducersDone' = IF Produces(t) /\ "save_inserts" \in Done
                           THEN ProducersDone \cup {t} ELSE ProducersDone \ {t}
      BY <1>1, <2>1, StepDone
    <3> QED BY <1>1, <2>1, <3>1 DEF ProducersDone, Producers, Done, PastWait
  <2>4. MandelbrotTypes' /\ BagIsEmpty' = BagIsEmpty /\ BagIsEmpty
    BY <1>4, <2>1 DEF MandelbrotTypes, BagIsEmpty, SummedLast
  <2>5. Roles' /\ AddersCount'
    BY <2>1, <2>2, <2>3 DEF Roles, AddersCount, Produces
  <2>6. ChecksBound' /\ SummedLast'
    BY <2>1, <2>2, <2>4 DEF ChecksBound, SummedLast
  <2> QED BY <2>4, <2>5, <2>6
<1> QED
  BY <1>5, <1>6, <1>7, <1>8, <1>9, <1>10, <1>11, <1>13, <1>14, <1>15, <1>16, <1>17
     DEF Step

\* Stuttering keeps the invariant.
LEMMA StutterKeepsMandelbrotInv ==
  ASSUME MandelbrotInv, UNCHANGED vars
  PROVE  MandelbrotInv'
<1> USE DEF vars, baseVars, bagVars, bench, locals
<1>1. /\ Started' = Started /\ Half' = Half /\ BagIsEmpty' = BagIsEmpty
      /\ ProducersDone' = ProducersDone
  BY DEF Started, Half, ProducersDone, Producers, Done, PastWait, BagIsEmpty
<1> QED
  BY <1>1 DEF MandelbrotInv, MandelbrotTypes, Roles, AddersCount, ChecksBound,
     SummedLast, Summing

-----------------------------------------------------------------------------
\* Who is past the wait knows that no region is left and none to come: as many
\* producers as there are have counted themselves.
LEMMA InvLeavesWhenDrained ==
  ASSUME EvenThreads, BenchIInv, MandelbrotInv
  PROVE  LeavesWhenDrained
<1> SUFFICES ASSUME NEW t \in Threads, pc[t] \in PastWait
             PROVE  /\ BagIsEmpty
                    /\ \A u \in Started :
                         Produces(u) => pc[u] \notin {"start", "spin", "produce", "insert"}
  BY DEF LeavesWhenDrained
<1> USE DEF BenchIInv, MandelbrotInv
<1>1. /\ t \in Started /\ nrThreads \in NrThreads
      /\ harness \notin {"prepare", "end"}
  BY RunningThread DEF PastWait, BenchTypes
<1>2. nrAdders = Half /\ BagIsEmpty
  BY <1>1 DEF SummedLast, Summing
<1>3. ProducersDone = Producers
  BY <1>1, <1>2, DoneBound DEF AddersCount
<1>4. ASSUME NEW u \in Started, Produces(u)
      PROVE  pc[u] \notin {"start", "spin", "produce", "insert"}
  BY <1>3, <1>4 DEF ProducersDone, Producers, Done, PastWait
<1> QED
  BY <1>2, <1>4

\* If the threads are even in number, one is past the final wait only when the
\* bag is empty and all producers have put their regions there, although the
\* bag may miss items as often as a consumer checks.
THEOREM MandelbrotLeavesWhenDrained ==
  EvenThreads /\ Spec => []LeavesWhenDrained
<1> SUFFICES ASSUME EvenThreads PROVE Spec => []LeavesWhenDrained
  OBVIOUS
<1>1. Init => MandelbrotInv
  BY InitMandelbrotInv
<1>2. BenchIInv /\ MandelbrotInv /\ [Next]_vars => MandelbrotInv'
  BY HarnessKeepsMandelbrotInv, StepKeepsMandelbrotInv, StutterKeepsMandelbrotInv
     DEF Next
<1>3. BenchIInv /\ MandelbrotInv => LeavesWhenDrained
  BY InvLeavesWhenDrained
<1> QED
  BY <1>1, <1>2, <1>3, BenchIInvHolds, PTL DEF Spec

-----------------------------------------------------------------------------
\* Of what the image consists.

Consumers == {t \in Started : ~Produces(t)}

\* The consumers that have counted themselves in nrSums.
ConsumersDone == {t \in Consumers : pc[t] \in Done}

Underway == harness \notin {"prepare", "end"}

\* The region with number i.
Grid(i) ==
  GenerateGrid((i % NR_REGIONS_X) * REGION_SIZE, (i \div NR_REGIONS_X) * REGION_SIZE)

Shown(i) == \A p \in Covers(Grid(i)) : image[p] = CalcZ(p[2], p[1])

ImageTypes ==
  /\ CONTENTION_NR \in ContentionNrs
  /\ next \in [Threads -> Nat]
  /\ region \in [Threads -> Regions \cup {NoRegion}]
  /\ regionBufferGlobal = [i \in Regions |-> regionBufferGlobal[i]]
  /\ image = [p \in Pixels |-> image[p]]
  /\ \A i \in Items : bag[i] > 0 => i \in Regions

\* Who has left the wait has seen all consumers counted.
SumsCount ==
  /\ Underway => nrSums = Cardinality(ConsumersDone)
  /\ \A t \in Threads : pc[t] \in PastWait => nrSums = Half

\* Each producer has the regions of its own remainder, and when it is done
\* none is left to it.
OwnRegions ==
  \A t \in Producers :
    /\ next[t] % Half = t \div 2
    /\ Underway /\ pc[t] \in Done => next[t] \notin Regions
    /\ pc[t] = "insert" => next[t] \in Regions

\* The regions that are in the bag, on the way there or on the way from there
\* are in the buffer.
Generated ==
  Underway =>
    /\ \A i \in Items : bag[i] > 0 => regionBufferGlobal[i] = Grid(i)
    /\ \A t \in Threads :
         /\ pc[t] = "insert" => regionBufferGlobal[next[t]] = Grid(next[t])
         /\ pc[t] = "consume" =>
              region[t] \in Regions /\ regionBufferGlobal[region[t]] = Grid(region[t])

\* A region that its producer has put in the bag is there, with a consumer or
\* to be seen.
Covered ==
  Underway =>
    \A t \in Producers, i \in Regions :
      i % Half = t \div 2 /\ i < next[t] =>
        \/ bag[i] > 0
        \/ \E u \in Threads : pc[u] = "consume" /\ region[u] = i
        \/ Shown(i)

ImageInv == ImageTypes /\ SumsCount /\ OwnRegions /\ Generated /\ Covered

-----------------------------------------------------------------------------
\* A sum of multiple and remainder is divided in only one way.
LEMMA OnlyDivision ==
  ASSUME NEW n \in Nat \ {0}, NEW q \in Nat, NEW a \in 0 .. n - 1
  PROVE  (n * q + a) % n = a /\ (n * q + a) \div n = q
<1>1. n * q + a \in Nat
  OBVIOUS
<1>2. /\ (n * q + a) \div n \in Int /\ (n * q + a) % n \in 0 .. n - 1
      /\ n * q + a = n * ((n * q + a) \div n) + ((n * q + a) % n)
  BY <1>1
<1>3. PICK p \in Int : p = (n * q + a) \div n
  BY <1>2
<1>4. PICK b \in 0 .. n - 1 : b = (n * q + a) % n
  BY <1>2
<1>5. n * q + a = n * p + b
  BY <1>2, <1>3, <1>4
<1>6. q <= p /\ p <= q
  <2>1. n * q + a <= n * p + b /\ n * p + b <= n * q + a
    BY <1>1, <1>5
  <2> QED BY <2>1, QuotientBelow
<1>7. q = p
  BY <1>6
<1>8. n * q \in Int /\ n * q + a = n * q + b
  BY <1>5, <1>7
<1>9. a = b
  BY <1>8
<1> QED
  BY <1>3, <1>4, <1>7, <1>9

\* The greater factors have the greater product.
LEMMA ProductGrows ==
  ASSUME NEW a \in Nat, NEW b \in Nat, NEW c \in Nat, NEW d \in Nat, a <= c, b <= d
  PROVE  a * b <= c * d
<1>1. a * b <= a * d
  <2>1. d - b \in Nat /\ a * (d - b) \in Nat
    OBVIOUS
  <2>2. a * d = a * b + a * (d - b)
    OBVIOUS
  <2> QED BY <2>1, <2>2
<1>2. a * d <= c * d
  <2>1. c - a \in Nat /\ (c - a) * d \in Nat
    OBVIOUS
  <2>2. c * d = a * d + (c - a) * d
    OBVIOUS
  <2> QED BY <2>1, <2>2
<1>3. a * b \in Nat /\ a * d \in Nat /\ c * d \in Nat
  OBVIOUS
<1> QED
  BY <1>1, <1>2, <1>3

\* What is divided without remainder by a number above one is at least halved.
LEMMA AtLeastHalved ==
  ASSUME NEW r \in Nat \ {0, 1}, NEW x \in Nat, x % r = 0
  PROVE  x \div r \in Nat /\ x = r * (x \div r) /\ x \div r <= x \div 2
<1>1. x \div r \in Nat /\ x = r * (x \div r)
  <2>1. PICK q \in Nat : \E a \in 0 .. r - 1 : x = r * q + a /\ a = x % r
    BY Division
  <2>2. x = r * q
    BY <2>1
  <2>3. (r * q + 0) \div r = q
    BY OnlyDivision
  <2> QED BY <2>2, <2>3
<1>2. 2 * (x \div r) <= r * (x \div r)
  BY <1>1, ProductGrows
<1>3. 2 * (x \div r) <= x
  BY <1>1, <1>2
<1> QED
  BY <1>1, <1>3

\* The regions divide the image, and there are no more than the bag can have.
LEMMA RegionsDivide ==
  ASSUME CONTENTION_NR \in ContentionNrs
  PROVE  /\ REGION_SIZE \in Nat \ {0, 1}
         /\ NR_REGIONS_X \in Nat /\ RESOLUTION_X = REGION_SIZE * NR_REGIONS_X
         /\ NR_REGIONS_Y \in Nat /\ RESOLUTION_Y = REGION_SIZE * NR_REGIONS_Y
         /\ NR_REGIONS_X * NR_REGIONS_Y \in Nat
         /\ Regions \subseteq Items /\ Regions \subseteq Nat
<1>1. REGION_SIZE \in Nat \ {0, 1}
  BY RegionSizes DEF REGION_SIZE
<1>2. /\ RESOLUTION_X \in Nat /\ RESOLUTION_Y \in Nat
      /\ RESOLUTION_X % REGION_SIZE = 0 /\ RESOLUTION_Y % REGION_SIZE = 0
      /\ Items = 0 .. (RESOLUTION_X \div 2) * (RESOLUTION_Y \div 2) - 1
  BY MandelbrotAssumption DEF REGION_SIZE
<1>3. /\ NR_REGIONS_X \in Nat /\ RESOLUTION_X = REGION_SIZE * NR_REGIONS_X
      /\ NR_REGIONS_X <= RESOLUTION_X \div 2
  BY <1>1, <1>2, AtLeastHalved DEF NR_REGIONS_X
<1>4. /\ NR_REGIONS_Y \in Nat /\ RESOLUTION_Y = REGION_SIZE * NR_REGIONS_Y
      /\ NR_REGIONS_Y <= RESOLUTION_Y \div 2
  BY <1>1, <1>2, AtLeastHalved DEF NR_REGIONS_Y
<1>5. RESOLUTION_X \div 2 \in Nat /\ RESOLUTION_Y \div 2 \in Nat
  BY <1>2
<1>6. NR_REGIONS_X * NR_REGIONS_Y <= (RESOLUTION_X \div 2) * (RESOLUTION_Y \div 2)
  BY <1>3, <1>4, <1>5, ProductGrows
<1>7. /\ NR_REGIONS_X * NR_REGIONS_Y \in Nat
      /\ (RESOLUTION_X \div 2) * (RESOLUTION_Y \div 2) \in Nat
  BY <1>3, <1>4, <1>5
<1>8. Regions \subseteq Items /\ Regions \subseteq Nat
  BY <1>2, <1>6, <1>7 DEF Regions
<1> QED
  BY <1>1, <1>3, <1>4, <1>7, <1>8

\* Where a region is.
LEMMA RegionPlace ==
  ASSUME CONTENTION_NR \in ContentionNrs, NEW i \in Regions
  PROVE  (i % NR_REGIONS_X) * REGION_SIZE \in Nat /\ (i \div NR_REGIONS_X) * REGION_SIZE \in Nat
<1>1. /\ NR_REGIONS_X \in Nat /\ REGION_SIZE \in Nat /\ NR_REGIONS_Y \in Nat
      /\ i \in Nat /\ i < NR_REGIONS_X * NR_REGIONS_Y
  BY RegionsDivide DEF Regions
<1>2. NR_REGIONS_X /= 0
  <2>1. NR_REGIONS_X = 0 => NR_REGIONS_X * NR_REGIONS_Y = 0
    BY <1>1
  <2> QED BY <1>1, <2>1
<1>3. i % NR_REGIONS_X \in Nat /\ i \div NR_REGIONS_X \in Nat
  BY <1>1, <1>2
<1> QED
  BY <1>1, <1>3

\* A region shows the points it covers.
LEMMA GridShows ==
  ASSUME CONTENTION_NR \in ContentionNrs, NEW x \in Nat, NEW y \in Nat,
         NEW p \in Covers(GenerateGrid(x, y))
  PROVE  GenerateGrid(x, y).values
           [Get(p[2] - GenerateGrid(x, y).X, p[1] - GenerateGrid(x, y).Y)]
         = CalcZ(p[2], p[1])
<1> DEFINE R == REGION_SIZE
           dx == p[2] - x
           dy == p[1] - y
<1>1. R \in Nat \ {0}
  BY RegionsDivide
<1>2. GenerateGrid(x, y).X = x /\ GenerateGrid(x, y).Y = y
  BY DEF GenerateGrid
<1>3. dx \in 0 .. R - 1 /\ dy \in 0 .. R - 1 /\ p[1] \in Int /\ p[2] \in Int
  BY <1>2, MandelbrotAssumption DEF Covers, Pixels
<1> HIDE DEF R, dx, dy
<1>4. /\ (R * dy + dx) % R = dx /\ (R * dy + dx) \div R = dy
  BY <1>1, <1>3, OnlyDivision
<1>5. R * dy \in Nat /\ R * R \in Nat /\ R * dy + R <= R * R /\ dy * R = R * dy
  <2>1. dy + 1 \in Nat /\ dy + 1 <= R /\ R <= R
    BY <1>1, <1>3
  <2>2. R * (dy + 1) <= R * R
    BY <1>1, <2>1, ProductGrows
  <2> QED BY <1>1, <1>3, <2>2
<1>6. Get(dx, dy) = R * dy + dx /\ Get(dx, dy) \in 0 .. R * R - 1
  BY <1>1, <1>3, <1>5 DEF Get, R
<1>7. GenerateGrid(x, y).values[Get(dx, dy)] =
        CalcZ(x + (Get(dx, dy) % R), y + Get(dx, dy) \div R)
  BY <1>6 DEF GenerateGrid, R
<1>8. x + dx = p[2] /\ y + dy = p[1]
  BY <1>3 DEF dx, dy
<1> QED
  BY <1>2, <1>4, <1>6, <1>7, <1>8 DEF dx, dy

\* Every pixel is in a region.
LEMMA PixelCovered ==
  ASSUME CONTENTION_NR \in ContentionNrs, NEW p \in Pixels
  PROVE  \E i \in Regions : p \in Covers(Grid(i))
<1> DEFINE R == REGION_SIZE
           NX == NR_REGIONS_X
           NY == NR_REGIONS_Y
<1>1. /\ R \in Nat \ {0} /\ NX \in Nat /\ NY \in Nat
      /\ RESOLUTION_X = R * NX /\ RESOLUTION_Y = R * NY
      /\ NX * NY \in Nat
  BY RegionsDivide
<1>2. /\ p[1] \in Nat /\ p[2] \in Nat /\ p[1] < R * NY /\ p[2] < R * NX
  BY <1>1 DEF Pixels
<1> HIDE DEF R, NX, NY
<1>3. PICK qx \in Nat : \E a \in 0 .. R - 1 : p[2] = R * qx + a /\ a = p[2] % R
  BY <1>1, <1>2, Division
<1>4. PICK dx \in 0 .. R - 1 : p[2] = R * qx + dx
  BY <1>3
<1>5. PICK qy \in Nat : \E a \in 0 .. R - 1 : p[1] = R * qy + a /\ a = p[1] % R
  BY <1>1, <1>2, Division
<1>6. PICK dy \in 0 .. R - 1 : p[1] = R * qy + dy
  BY <1>5
<1>7. qx < NX /\ qy < NY
  <2>1. ASSUME NEW q \in Nat, NEW n \in Nat, NEW d \in 0 .. R - 1, R * q + d < R * n
        PROVE  q < n
    <3>1. SUFFICES ASSUME n <= q PROVE FALSE
      BY <2>1
    <3>2. R * n <= R * q
      BY <1>1, <3>1, ProductGrows
    <3>3. R * n \in Int /\ R * q \in Int
      BY <1>1
    <3> QED BY <1>1, <2>1, <3>2, <3>3
  <2>2. R * qx + dx < R * NX /\ R * qy + dy < R * NY
    BY <1>2, <1>4, <1>6
  <2> QED BY <1>1, <2>1, <2>2
<1> DEFINE i == NX * qy + qx
<1>8. i \in Nat /\ i < NX * NY
  <2>1. NX * (qy + 1) <= NX * NY
    BY <1>1, <1>7, ProductGrows
  <2>2. NX * (qy + 1) = NX * qy + NX /\ NX * qy \in Nat
    BY <1>1
  <2> QED BY <1>1, <1>7, <2>1, <2>2
<1>9. i % NX = qx /\ i \div NX = qy
  BY <1>1, <1>7, OnlyDivision
<1>10. i \in Regions
  BY <1>1, <1>8 DEF Regions, NX, NY
<1>11. Grid(i).X = qx * R /\ Grid(i).Y = qy * R
  BY <1>9 DEF Grid, GenerateGrid, R, NX
<1>12. qx * R = R * qx /\ qy * R = R * qy /\ R * qx \in Int /\ R * qy \in Int
  BY <1>1
<1>13. p[1] - Grid(i).Y \in 0 .. R - 1 /\ p[2] - Grid(i).X \in 0 .. R - 1
  BY <1>4, <1>6, <1>11, <1>12
<1>14. p \in Covers(Grid(i))
  BY <1>13 DEF Covers, R
<1> QED
  BY <1>10, <1>14

-----------------------------------------------------------------------------
\* Of an even number of threads no more than half consume.
LEMMA HalfConsume ==
  ASSUME nrThreads \in NrThreads, EvenThreads
  PROVE  /\ IsFiniteSet(Consumers)
         /\ Cardinality(Consumers) \in Nat /\ Cardinality(Consumers) <= Half
<1>1. Half \in Nat \ {0} /\ nrThreads = 2 * Half
  BY HalfProduce
<1> DEFINE f == [i \in 0 .. Half - 1 |-> 2 * i + 1]
<1>2. f \in Surjection(0 .. Half - 1, Consumers)
  <2>1. ASSUME NEW i \in 0 .. Half - 1 PROVE f[i] \in Consumers
    <3>1. 2 * i + 1 \in Started
      BY <1>1 DEF Started
    <3>2. (2 * i + 1) % 2 = 1
      BY <1>1
    <3> QED BY <3>1, <3>2 DEF Consumers, Produces
  <2>2. ASSUME NEW t \in Consumers PROVE \E i \in 0 .. Half - 1 : f[i] = t
    <3>1. t \in Int /\ 0 <= t /\ t < 2 * Half /\ t % 2 /= 0
      BY <1>1 DEF Consumers, Started, Produces
    <3>2. t \div 2 \in 0 .. Half - 1 /\ 2 * (t \div 2) + 1 = t
      BY <1>1, <3>1
    <3> QED BY <3>2
  <2> QED BY <2>1, <2>2, Fun_IsSurj
<1>3. IsFiniteSet(0 .. Half - 1) /\ Cardinality(0 .. Half - 1) = Half
  <2>1. ASSUME NEW n \in Nat \ {0}
        PROVE  IsFiniteSet(0 .. n - 1) /\ Cardinality(0 .. n - 1) = n
    BY FS_Interval
  <2> QED BY <1>1, <2>1
<1>4. IsFiniteSet(Consumers) /\ Cardinality(Consumers) <= Half
  BY <1>2, <1>3, FS_Surjection
<1> QED
  BY <1>4, FS_CardinalityType

\* As many consumers are done as nrSums waits for only when all are.
LEMMA SumsBound ==
  ASSUME nrThreads \in NrThreads, EvenThreads
  PROVE  /\ IsFiniteSet(ConsumersDone) /\ Cardinality(ConsumersDone) \in Nat
         /\ Cardinality(ConsumersDone) = Half => ConsumersDone = Consumers
<1>1. ConsumersDone \in SUBSET Consumers /\ Consumers \cap ConsumersDone = ConsumersDone
  BY DEF ConsumersDone
<1>2. IsFiniteSet(ConsumersDone) /\ Cardinality(ConsumersDone) \in Nat
  BY <1>1, HalfConsume, FS_Subset, FS_CardinalityType
<1>3. /\ IsFiniteSet(Consumers \ ConsumersDone)
      /\ Cardinality(Consumers \ ConsumersDone) =
           Cardinality(Consumers) - Cardinality(ConsumersDone)
  <2>1. IsFiniteSet(Consumers)
    BY HalfConsume
  <2> QED BY <1>1, <2>1, FS_Difference
<1>4. Cardinality(Consumers \ ConsumersDone) \in Nat
  BY <1>3, FS_CardinalityType
<1>5. ASSUME Cardinality(ConsumersDone) = Half
      PROVE  Consumers \ ConsumersDone = {}
  <2>1. Cardinality(Consumers) \in Nat /\ Cardinality(Consumers) <= Half /\ Half \in Nat
    BY HalfConsume, HalfProduce
  <2>2. Cardinality(Consumers \ ConsumersDone) = 0
    BY <1>3, <1>4, <1>5, <2>1
  <2> QED BY <1>3, <2>2, FS_EmptySet
<1> QED
  BY <1>1, <1>2, <1>5

\* A step of a started thread changes ConsumersDone only by that thread.
LEMMA StepConsumersDone ==
  ASSUME BenchIInv, NEW t \in Started, NEW there,
         pc' = [pc EXCEPT ![t] = there], nrThreads' = nrThreads
  PROVE  ConsumersDone' = IF ~Produces(t) /\ there \in Done
                          THEN ConsumersDone \cup {t} ELSE ConsumersDone \ {t}
<1>1. Started' = Started /\ t \in Threads /\ Started \subseteq Threads
  BY StartedThreads DEF Started, BenchIInv, BenchTypes
<1>2. \A u \in Threads : pc'[u] = IF u = t THEN there ELSE pc[u]
  BY <1>1 DEF BenchIInv, BenchTypes
<1>3. Consumers' = Consumers
  BY <1>1 DEF Consumers, Produces
<1>4. \A u : u \in ConsumersDone' <=> u \in Consumers /\ pc'[u] \in Done
  BY <1>3 DEF ConsumersDone, Done, PastWait
<1>5. \A u \in Consumers : u \in Threads
  BY <1>1 DEF Consumers
<1> QED
  BY <1>1, <1>2, <1>4, <1>5 DEF ConsumersDone, Consumers

\* The first region of a producer has its remainder.
LEMMA FirstRegion ==
  ASSUME nrThreads \in NrThreads, EvenThreads, NEW t \in Producers
  PROVE  t \div 2 \in Nat /\ (t \div 2) % Half = t \div 2 /\ t \div 2 < Half
<1>1. Half \in Nat \ {0} /\ nrThreads = 2 * Half
  BY HalfProduce
<1>2. t \in Nat /\ t < 2 * Half
  BY <1>1 DEF Producers, Started
<1>3. t \div 2 \in Nat /\ t \div 2 < Half
  BY <1>1, <1>2
<1> QED
  BY <1>1, <1>3

\* The image is what it is for as long as the implementation is.
LEMMA SameGrid ==
  ASSUME UNCHANGED <<impl, CONTENTION_NR>>
  PROVE  /\ Regions' = Regions
         /\ \A i : Grid(i)' = Grid(i) /\ Covers(Grid(i))' = Covers(Grid(i))
         /\ image' = image => \A i : Shown(i)' = Shown(i)
<1>1. /\ REGION_SIZE' = REGION_SIZE
      /\ NR_REGIONS_X' = NR_REGIONS_X /\ NR_REGIONS_Y' = NR_REGIONS_Y
  BY DEF REGION_SIZE, NR_REGIONS_X, NR_REGIONS_Y
<1>2. Regions' = Regions
  BY <1>1 DEF Regions
<1>3. ASSUME NEW x, NEW y
      PROVE  /\ GenerateGrid(x, y)' = GenerateGrid(x, y)
             /\ Covers(GenerateGrid(x, y))' = Covers(GenerateGrid(x, y))
             /\ CalcZ(x, y)' = CalcZ(x, y)
  BY <1>1 DEF GenerateGrid, CalcZ, Covers
<1>4. \A i : Grid(i)' = Grid(i) /\ Covers(Grid(i))' = Covers(Grid(i))
  BY <1>1, <1>3 DEF Grid
<1> QED
  BY <1>2, <1>3, <1>4 DEF Shown

-----------------------------------------------------------------------------
\* Mandelbrot starts in the invariant.
LEMMA InitImageInv == EvenThreads /\ Init => ImageInv
<1> SUFFICES ASSUME EvenThreads, Init PROVE ImageInv
  OBVIOUS
<1>1. nrThreads \in NrThreads /\ ~Underway /\ \A t \in Threads : pc[t] = "none"
  BY DEF Init, BaseInit, BenchInit, Underway
<1>2. Started \subseteq Threads /\ Threads \subseteq Nat
  BY <1>1, StartedThreads, BenchAssumption DEF Threads
<1>3. ImageTypes
  <2>1. next \in [Threads -> Nat]
    <3>1. \A t \in Threads : t \div 2 \in Nat
      BY <1>2
    <3> QED BY <3>1 DEF Init
  <2>2. regionBufferGlobal = [i \in Regions |-> regionBufferGlobal[i]]
        /\ image = [p \in Pixels |-> image[p]]
    BY DEF Init
  <2>3. CONTENTION_NR \in ContentionNrs /\ region \in [Threads -> Regions \cup {NoRegion}]
    BY DEF Init
  <2>4. \A i \in Items : bag[i] > 0 => i \in Regions
    BY DEF Init, BaseInit
  <2> QED BY <2>1, <2>2, <2>3, <2>4 DEF ImageTypes
<1>4. SumsCount /\ Generated /\ Covered
  BY <1>1 DEF SumsCount, Generated, Covered, PastWait
<1>5. OwnRegions
  <2>1. ASSUME NEW t \in Producers PROVE next[t] % Half = t \div 2
    <3>1. t \in Threads
      BY <1>2 DEF Producers
    <3>2. next[t] = t \div 2
      BY <3>1 DEF Init
    <3> QED BY <1>1, <3>2, FirstRegion
  <2>2. \A t \in Producers : t \in Threads
    BY <1>2 DEF Producers
  <2> QED BY <1>1, <2>1, <2>2 DEF OwnRegions
<1> QED
  BY <1>3, <1>4, <1>5 DEF ImageInv

\* The preparation of an implementation brings the invariant about.
LEMMA PrepareKeepsImageInv ==
  ASSUME EvenThreads, BenchIInv, ImageInv, Prepare
  PROVE  ImageInv'
<1> USE DEF BenchIInv, ImageInv
<1>1. /\ nrThreads \in NrThreads /\ nrThreads' = nrThreads /\ impl' = impl
      /\ pc' = pc /\ harness = "prepare" /\ harness' = "create"
      /\ nrSums' = 0 /\ bag' = [i \in Items |-> 0]
      /\ next' = [t \in Threads |-> t \div 2]
      /\ region' = [t \in Threads |-> NoRegion]
      /\ UNCHANGED <<CONTENTION_NR, image>>
      /\ regionBufferGlobal' = [i \in Regions |-> NoGrid]
  BY DEF Prepare, BasePrepare, BenchPrepare, BenchTypes
<1>2. \A t \in Threads : pc[t] = "none"
  BY <1>1 DEF BenchCreation
<1>3. /\ Started' = Started /\ Started \subseteq Threads /\ Threads \subseteq Nat
      /\ Half' = Half /\ Producers' = Producers /\ Consumers' = Consumers
      /\ Regions' = Regions
  BY <1>1, StartedThreads, BenchAssumption, SameGrid
     DEF Threads, Started, Half, Producers, Consumers
<1>4. ImageTypes'
  <2>1. next' \in [Threads -> Nat]
    <3>1. \A t \in Threads : t \div 2 \in Nat
      BY <1>3
    <3> QED BY <1>1, <3>1
  <2>2. region' \in [Threads -> Regions \cup {NoRegion}]
    BY <1>1
  <2>3. regionBufferGlobal' = [i \in Regions |-> regionBufferGlobal'[i]]
    BY <1>1
  <2>4. \A i \in Items : ~(bag'[i] > 0)
    BY <1>1
  <2> QED BY <1>1, <1>3, <2>1, <2>2, <2>3, <2>4 DEF ImageTypes
<1>5. SumsCount'
  <2>1. ConsumersDone' = {}
    BY <1>1, <1>2, <1>3 DEF ConsumersDone, Consumers, Done, PastWait
  <2> QED BY <1>1, <1>2, <2>1, FS_EmptySet DEF SumsCount, PastWait
<1>6. OwnRegions'
  <2>1. ASSUME NEW t \in Producers PROVE next'[t] % Half = t \div 2
    <3>1. t \in Threads
      BY <1>3 DEF Producers
    <3>2. next'[t] = t \div 2
      BY <1>1, <3>1
    <3> QED BY <1>1, <3>2, FirstRegion
  <2>2. \A t \in Producers : pc'[t] = "none"
    BY <1>1, <1>2, <1>3 DEF Producers
  <2> QED BY <1>3, <2>1, <2>2 DEF OwnRegions, Done, PastWait
<1>7. Generated'
  BY <1>1, <1>2 DEF Generated
<1>8. Covered'
  <2>1. ASSUME NEW t \in Producers, NEW i \in Regions, i % Half = t \div 2, i < next'[t]
        PROVE  FALSE
    <3>1. t \in Threads
      BY <1>3 DEF Producers
    <3>2. next'[t] = t \div 2 /\ Half \in Nat \ {0} /\ i \in Nat /\ t \div 2 < Half
          /\ t \div 2 \in Nat
      BY <1>1, <3>1, FirstRegion, HalfProduce, RegionsDivide DEF ImageTypes
    <3>3. i % Half = i
      BY <2>1, <3>2
    <3> QED BY <2>1, <3>2, <3>3
  <2> QED BY <1>3, <2>1 DEF Covered
<1> QED
  BY <1>4, <1>5, <1>6, <1>7, <1>8

\* What a step leaves as it is, if it leaves the implementation and the numbers
\* the user has chosen.
LEMMA ImageFrame ==
  ASSUME UNCHANGED <<impl, nrThreads, CONTENTION_NR>>
  PROVE  /\ Started' = Started /\ Half' = Half
         /\ Producers' = Producers /\ Consumers' = Consumers
         /\ Regions' = Regions
         /\ \A i : Grid(i)' = Grid(i) /\ Covers(Grid(i))' = Covers(Grid(i))
         /\ image' = image => \A i : Shown(i)' = Shown(i)
<1>1. Started' = Started /\ Half' = Half
  BY DEF Started, Half
<1>2. Producers' = Producers /\ Consumers' = Consumers
  BY <1>1 DEF Producers, Consumers, Produces
<1> QED
  BY <1>1, <1>2, SameGrid

\* A step that moves a thread, neither to insert nor to or from consume, and
\* with the number of those that are done only where it may.
LEMMA MoveKeepsImageInv ==
  ASSUME BenchIInv, ImageInv, NEW t \in Started, NEW there,
         pc' = [pc EXCEPT ![t] = there], Underway' = Underway,
         UNCHANGED <<impl, nrThreads, CONTENTION_NR, nrSums, bag, next, region,
                     regionBufferGlobal, image>>,
         there \notin {"insert", "consume"}, pc[t] /= "consume",
         there \in PastWait => nrSums = Half,
         ~Produces(t) => (there \in Done <=> pc[t] \in Done),
         Produces(t) /\ there \in Done => pc[t] \in Done \/ next[t] \notin Regions
  PROVE  ImageInv'
<1> USE DEF ImageInv
<1>1. /\ Started' = Started /\ Half' = Half /\ Producers' = Producers
      /\ Regions' = Regions
      /\ \A i : Grid(i)' = Grid(i) /\ Shown(i)' = Shown(i)
  BY ImageFrame
<1>2. /\ Started \subseteq Threads
      /\ \A u \in Threads : pc'[u] = IF u = t THEN there ELSE pc[u]
      /\ Producers \subseteq Threads
  BY StepDone DEF Producers
<1>3. ImageTypes'
  BY <1>1 DEF ImageTypes, Pixels
<1>4. SumsCount'
  <2>1. ConsumersDone' = IF ~Produces(t) /\ there \in Done
                         THEN ConsumersDone \cup {t} ELSE ConsumersDone \ {t}
    BY StepConsumersDone
  <2>2. ConsumersDone' = ConsumersDone
    BY <2>1 DEF ConsumersDone, Consumers
  <2> QED BY <1>1, <1>2, <2>2 DEF SumsCount, PastWait
<1>5. OwnRegions'
  BY <1>1, <1>2 DEF OwnRegions, Done, PastWait
<1>6. Generated'
  BY <1>1, <1>2 DEF Generated
<1>7. Covered'
  <2>1. ASSUME Underway, NEW u \in Producers, NEW i \in Regions,
               i % Half = u \div 2, i < next[u]
        PROVE  \/ bag'[i] > 0
               \/ \E v \in Threads : pc'[v] = "consume" /\ region'[v] = i
               \/ Shown(i)'
    <3>1. CASE \E v \in Threads : pc[v] = "consume" /\ region[v] = i
      BY <1>2, <3>1
    <3>2. CASE ~(\E v \in Threads : pc[v] = "consume" /\ region[v] = i)
      BY <1>1, <2>1, <3>2 DEF Covered
    <3> QED BY <3>1, <3>2
  <2> QED BY <1>1, <2>1 DEF Covered
<1> QED
  BY <1>3, <1>4, <1>5, <1>6, <1>7

\* A producer has generated the region it is to insert.
LEMMA ProduceKeepsImageInv ==
  ASSUME BenchIInv, Roles, ImageInv, NEW t \in Started, Produce(t)
  PROVE  ImageInv'
<1> USE DEF ImageInv
<1>0. /\ pc[t] = "produce" /\ next[t] \in Regions
      /\ regionBufferGlobal' = [regionBufferGlobal EXCEPT ![next[t]] = Grid(next[t])]
      /\ pc' = [pc EXCEPT ![t] = "insert"] /\ Underway' = Underway
      /\ UNCHANGED <<impl, nrThreads, CONTENTION_NR, nrSums, bag, next, region,
                     image>>
  BY DEF Produce, Grid, Goto, baseVars, bench, bagVars, locals, Underway
<1>1. /\ Started' = Started /\ Half' = Half /\ Producers' = Producers
      /\ Regions' = Regions
      /\ \A i : Grid(i)' = Grid(i) /\ Shown(i)' = Shown(i)
  BY <1>0, ImageFrame
<1>2. /\ Started \subseteq Threads
      /\ \A u \in Threads : pc'[u] = IF u = t THEN "insert" ELSE pc[u]
      /\ Producers \subseteq Threads
  BY <1>0, StepDone DEF Producers
<1>3. ImageTypes'
  <2>1. regionBufferGlobal' = [i \in Regions |-> regionBufferGlobal'[i]]
    BY <1>0 DEF ImageTypes
  <2> QED BY <1>0, <1>1, <2>1 DEF ImageTypes, Pixels
<1>4. SumsCount'
  <2>1. ConsumersDone' = IF ~Produces(t) /\ "insert" \in Done
                         THEN ConsumersDone \cup {t} ELSE ConsumersDone \ {t}
    BY <1>0, StepConsumersDone
  <2>2. ConsumersDone' = ConsumersDone
    BY <1>0, <2>1 DEF ConsumersDone, Consumers, Done, PastWait
  <2> QED BY <1>0, <1>1, <1>2, <2>2 DEF SumsCount, PastWait
<1>5. OwnRegions'
  BY <1>0, <1>1, <1>2 DEF OwnRegions, Done, PastWait
<1>6. Generated'
  <2>1. \A i \in Regions : regionBufferGlobal'[i] =
          IF i = next[t] THEN Grid(next[t]) ELSE regionBufferGlobal[i]
    BY <1>0 DEF ImageTypes
  <2>2. \A i \in Items : bag[i] > 0 => i \in Regions
    BY DEF ImageTypes
  <2>3. ASSUME NEW u \in Threads, pc[u] = "insert" PROVE next[u] \in Regions
    <3>1. u \in Started
      BY <2>3, RunningThread
    <3>2. Produces(u)
      BY <2>3 DEF Roles
    <3> QED BY <2>3, <3>1, <3>2 DEF OwnRegions, Producers
  <2> QED BY <1>0, <1>1, <1>2, <2>1, <2>2, <2>3 DEF Generated
<1>7. Covered'
  <2>1. ASSUME Underway, NEW u \in Producers, NEW i \in Regions,
               i % Half = u \div 2, i < next[u]
        PROVE  \/ bag'[i] > 0
               \/ \E v \in Threads : pc'[v] = "consume" /\ region'[v] = i
               \/ Shown(i)'
    <3>1. CASE \E v \in Threads : pc[v] = "consume" /\ region[v] = i
      BY <1>0, <1>2, <3>1
    <3>2. CASE ~(\E v \in Threads : pc[v] = "consume" /\ region[v] = i)
      BY <1>0, <1>1, <2>1, <3>2 DEF Covered
    <3> QED BY <3>1, <3>2
  <2> QED BY <1>0, <1>1, <2>1 DEF Covered
<1> QED
  BY <1>3, <1>4, <1>5, <1>6, <1>7

\* With a region in the bag the producer goes on to the next of its remainder.
LEMMA InsertKeepsImageInv ==
  ASSUME EvenThreads, BenchIInv, MandelbrotInv, ImageInv, NEW t \in Started,
         InsertRegion(t)
  PROVE  ImageInv'
<1> USE DEF ImageInv
<1>0. /\ pc[t] = "insert"
      /\ bag' = [bag EXCEPT ![next[t]] = bag[next[t]] + 1]
      /\ next' = [next EXCEPT ![t] = next[t] + NR_CPUS \div 2]
      /\ pc' = [pc EXCEPT ![t] = "produce"] /\ Underway' = Underway
      /\ UNCHANGED <<impl, nrThreads, CONTENTION_NR, nrSums, region,
                     regionBufferGlobal, image>>
  BY DEF InsertRegion, Insert, Goto, bench, regionVars, Underway
<1>1. /\ Started' = Started /\ Half' = Half /\ Producers' = Producers
      /\ Regions' = Regions
      /\ \A i : Grid(i)' = Grid(i) /\ Shown(i)' = Shown(i)
  BY <1>0, ImageFrame
<1>2. /\ Started \subseteq Threads
      /\ \A u \in Threads : pc'[u] = IF u = t THEN "produce" ELSE pc[u]
      /\ Producers \subseteq Threads
  BY <1>0, StepDone DEF Producers
<1>3. Produces(t) /\ t \in Producers /\ t \in Threads /\ Underway
  BY <1>0, <1>2, RunningThread DEF Roles, MandelbrotInv, Producers, Underway
<1>4. next[t] \in Regions /\ next[t] \in Items /\ next[t] \in Nat
      /\ Regions \subseteq Items /\ Regions \subseteq Nat
  BY <1>0, <1>3, RegionsDivide DEF OwnRegions, ImageTypes
<1>5. Half \in Nat \ {0} /\ NR_CPUS \div 2 = Half
  BY HalfProduce DEF BenchIInv, BenchTypes, MandelbrotInv, MandelbrotTypes, Half
<1>6. next' = [next EXCEPT ![t] = next[t] + Half]
  BY <1>0, <1>5
<1>7. /\ next' \in [Threads -> Nat]
      /\ \A u \in Threads : next'[u] = IF u = t THEN next[t] + Half ELSE next[u]
  <2>1. next[t] + Half \in Nat /\ next \in [Threads -> Nat]
    BY <1>4, <1>5 DEF ImageTypes
  <2> QED BY <1>6, <2>1
<1>8. \A i \in Items : bag'[i] = IF i = next[t] THEN bag[i] + 1 ELSE bag[i]
  BY <1>0 DEF MandelbrotInv, MandelbrotTypes
<1>9. \A i \in Items : bag[i] \in Nat
  BY DEF MandelbrotInv, MandelbrotTypes
<1>10. ImageTypes'
  BY <1>0, <1>1, <1>4, <1>7, <1>8 DEF ImageTypes, Pixels
<1>11. SumsCount'
  <2>1. ConsumersDone' = IF ~Produces(t) /\ "produce" \in Done
                         THEN ConsumersDone \cup {t} ELSE ConsumersDone \ {t}
    BY <1>0, StepConsumersDone
  <2>2. ConsumersDone' = ConsumersDone
    BY <1>0, <2>1 DEF ConsumersDone, Consumers, Done, PastWait
  <2> QED BY <1>0, <1>1, <1>2, <2>2 DEF SumsCount, PastWait
<1>12. OwnRegions'
  <2>1. next'[t] % Half = t \div 2
    <3>1. next[t] % Half = t \div 2
      BY <1>3 DEF OwnRegions
    <3>2. (next[t] + Half) % Half = next[t] % Half
      BY <1>4, <1>5, NextSameRemainder
    <3> QED BY <1>3, <1>7, <3>1, <3>2
  <2> QED BY <1>0, <1>1, <1>2, <1>3, <1>7, <2>1 DEF OwnRegions, Done, PastWait
<1>13. Generated'
  <2>1. regionBufferGlobal[next[t]] = Grid(next[t])
    BY <1>0, <1>3 DEF Generated
  <2> QED BY <1>0, <1>1, <1>2, <1>3, <1>7, <1>8, <2>1 DEF Generated
<1>14. Covered'
  <2>1. ASSUME NEW u \in Producers, NEW i \in Regions,
               i % Half = u \div 2, i < next'[u], i /= next[t]
        PROVE  \/ bag'[i] > 0
               \/ \E v \in Threads : pc'[v] = "consume" /\ region'[v] = i
               \/ Shown(i)'
    <3>1. i < next[u]
      <4>1. CASE u = t
        <5>1. i \in Nat /\ next[t] % Half = t \div 2 /\ i < next[t] + Half
          BY <1>3, <1>4, <1>7, <2>1, <4>1 DEF OwnRegions
        <5>2. i <= next[t]
          BY <1>4, <1>5, <2>1, <4>1, <5>1, SameRemainder
        <5> QED BY <1>4, <2>1, <4>1, <5>1, <5>2
      <4>2. CASE u /= t
        BY <1>2, <1>7, <2>1, <4>2
      <4> QED BY <4>1, <4>2
    <3>2. CASE \E v \in Threads : pc[v] = "consume" /\ region[v] = i
      BY <1>0, <1>2, <3>2
    <3>3. CASE ~(\E v \in Threads : pc[v] = "consume" /\ region[v] = i)
      BY <1>1, <1>3, <1>4, <1>8, <2>1, <3>1, <3>3 DEF Covered
    <3> QED BY <3>2, <3>3
  <2>2. bag'[next[t]] > 0
    BY <1>4, <1>8, <1>9
  <2> QED BY <1>1, <2>1, <2>2 DEF Covered
<1> QED
  BY <1>10, <1>11, <1>12, <1>13, <1>14

\* A consumer has the region that is no longer in the bag.
LEMMA TakeKeepsImageInv ==
  ASSUME BenchIInv, MandelbrotInv, ImageInv, NEW t \in Started, TakeRegion(t)
  PROVE  ImageInv'
<1> USE DEF ImageInv
<1>0. PICK k \in Regions :
        /\ pc[t] = "remove" /\ bag[k] > 0
        /\ bag' = [bag EXCEPT ![k] = bag[k] - 1]
        /\ region' = [region EXCEPT ![t] = k]
        /\ pc' = [pc EXCEPT ![t] = "consume"] /\ Underway' = Underway
        /\ UNCHANGED <<impl, nrThreads, CONTENTION_NR, nrSums, next,
                       regionBufferGlobal, image>>
  BY DEF TakeRegion, TryRemove, Goto, bench, regionVars, Underway
<1>1. /\ Started' = Started /\ Half' = Half /\ Producers' = Producers
      /\ Regions' = Regions
      /\ \A i : Grid(i)' = Grid(i) /\ Shown(i)' = Shown(i)
  BY <1>0, ImageFrame
<1>2. /\ Started \subseteq Threads
      /\ \A u \in Threads : pc'[u] = IF u = t THEN "consume" ELSE pc[u]
      /\ Producers \subseteq Threads
  BY <1>0, StepDone DEF Producers
<1>3. Regions \subseteq Items /\ \A i \in Items : bag[i] \in Nat
  BY RegionsDivide DEF ImageTypes, MandelbrotInv, MandelbrotTypes
<1>4. /\ \A u \in Threads : region'[u] = IF u = t THEN k ELSE region[u]
      /\ region' \in [Threads -> Regions \cup {NoRegion}]
  BY <1>0, <1>2 DEF ImageTypes
<1>5. \A i \in Items : bag'[i] = IF i = k THEN bag[i] - 1 ELSE bag[i]
  BY <1>0 DEF MandelbrotInv, MandelbrotTypes
<1>6. ImageTypes'
  BY <1>0, <1>1, <1>3, <1>4, <1>5 DEF ImageTypes, Pixels
<1>7. SumsCount'
  <2>1. ConsumersDone' = IF ~Produces(t) /\ "consume" \in Done
                         THEN ConsumersDone \cup {t} ELSE ConsumersDone \ {t}
    BY <1>0, StepConsumersDone
  <2>2. ConsumersDone' = ConsumersDone
    BY <1>0, <2>1 DEF ConsumersDone, Consumers, Done, PastWait
  <2> QED BY <1>0, <1>1, <1>2, <2>2 DEF SumsCount, PastWait
<1>8. OwnRegions'
  BY <1>0, <1>1, <1>2 DEF OwnRegions, Done, PastWait
<1>9. Generated'
  <2>1. \A i \in Items : bag'[i] > 0 => bag[i] > 0
    BY <1>3, <1>5
  <2> QED BY <1>0, <1>1, <1>2, <1>3, <1>4, <2>1 DEF Generated
<1>10. Covered'
  <2>1. ASSUME Underway, NEW u \in Producers, NEW i \in Regions,
               i % Half = u \div 2, i < next[u]
        PROVE  \/ bag'[i] > 0
               \/ \E v \in Threads : pc'[v] = "consume" /\ region'[v] = i
               \/ Shown(i)'
    <3>1. CASE i = k
      BY <1>2, <1>4, <3>1
    <3>2. CASE \E v \in Threads : pc[v] = "consume" /\ region[v] = i
      BY <1>0, <1>2, <1>4, <3>2
    <3>3. CASE i /= k /\ ~(\E v \in Threads : pc[v] = "consume" /\ region[v] = i)
      BY <1>1, <1>3, <1>5, <2>1, <3>3 DEF Covered
    <3> QED BY <3>1, <3>2, <3>3
  <2> QED BY <1>0, <1>1, <2>1 DEF Covered
<1> QED
  BY <1>6, <1>7, <1>8, <1>9, <1>10

\* What a consumer has coloured shows what it should, and what showed that
\* before still does.
LEMMA ConsumeKeepsImageInv ==
  ASSUME BenchIInv, ImageInv, NEW t \in Started, Consume(t)
  PROVE  ImageInv'
<1> USE DEF ImageInv
<1> DEFINE k == region[t]
           grid == regionBufferGlobal[k]
<1>0. /\ pc[t] = "consume"
      /\ image' = [p \in Pixels |->
                     IF p \in Covers(grid)
                     THEN grid.values[Get(p[2] - grid.X, p[1] - grid.Y)]
                     ELSE image[p]]
      /\ region' = [region EXCEPT ![t] = NoRegion]
      /\ pc' = [pc EXCEPT ![t] = "remove"] /\ Underway' = Underway
      /\ UNCHANGED <<impl, nrThreads, CONTENTION_NR, nrSums, bag, next,
                     regionBufferGlobal>>
  BY DEF Consume, Goto, baseVars, bagVars, bench, Underway
<1>1. /\ Started' = Started /\ Half' = Half /\ Producers' = Producers
      /\ Regions' = Regions
      /\ \A i : Grid(i)' = Grid(i) /\ Covers(Grid(i))' = Covers(Grid(i))
  BY <1>0, ImageFrame
<1>2. /\ Started \subseteq Threads
      /\ \A u \in Threads : pc'[u] = IF u = t THEN "remove" ELSE pc[u]
      /\ Producers \subseteq Threads
  BY <1>0, StepDone DEF Producers
<1>3. Underway /\ k \in Regions /\ grid = Grid(k)
  BY <1>0, <1>2, RunningThread DEF Generated, Underway
<1>4. /\ \A u \in Threads : region'[u] = IF u = t THEN NoRegion ELSE region[u]
      /\ region' \in [Threads -> Regions \cup {NoRegion}]
  BY <1>0, <1>2 DEF ImageTypes
<1> HIDE DEF k, grid
<1>5. ASSUME NEW p \in Pixels
      PROVE  image'[p] = IF p \in Covers(Grid(k)) THEN CalcZ(p[2], p[1]) ELSE image[p]
  <2>1. CASE p \in Covers(Grid(k))
    <3>1. image'[p] = Grid(k).values[Get(p[2] - Grid(k).X, p[1] - Grid(k).Y)]
      BY <1>0, <1>3, <2>1
    <3>2. Grid(k).values[Get(p[2] - Grid(k).X, p[1] - Grid(k).Y)] = CalcZ(p[2], p[1])
      BY <1>3, <2>1, RegionPlace, GridShows DEF Grid, ImageTypes
    <3> QED BY <2>1, <3>1, <3>2
  <2>2. CASE p \notin Covers(Grid(k))
    BY <1>0, <1>3, <2>2
  <2> QED BY <2>1, <2>2
<1>6. ASSUME NEW i \in Regions, i = k \/ Shown(i)
      PROVE  Shown(i)'
  <2>1. \A p \in Covers(Grid(i)) : p \in Pixels
    BY DEF Covers
  <2>2. \A p \in Covers(Grid(i)) : image'[p] = CalcZ(p[2], p[1])
    BY <1>5, <1>6, <2>1 DEF Shown
  <2>3. \A x, y : CalcZ(x, y)' = CalcZ(x, y)
    BY <1>0 DEF CalcZ
  <2> QED BY <1>1, <2>2, <2>3 DEF Shown
<1>7. ImageTypes'
  <2>1. image' = [p \in Pixels |-> image'[p]]
    BY <1>0
  <2> QED BY <1>0, <1>1, <1>4, <2>1 DEF ImageTypes, Pixels
<1>8. SumsCount'
  <2>1. ConsumersDone' = IF ~Produces(t) /\ "remove" \in Done
                         THEN ConsumersDone \cup {t} ELSE ConsumersDone \ {t}
    BY <1>0, StepConsumersDone
  <2>2. ConsumersDone' = ConsumersDone
    BY <1>0, <2>1 DEF ConsumersDone, Consumers, Done, PastWait
  <2> QED BY <1>0, <1>1, <1>2, <2>2 DEF SumsCount, PastWait
<1>9. OwnRegions'
  BY <1>0, <1>1, <1>2 DEF OwnRegions, Done, PastWait
<1>10. Generated'
  BY <1>0, <1>1, <1>2, <1>4 DEF Generated
<1>11. Covered'
  <2>1. ASSUME NEW u \in Producers, NEW i \in Regions, i % Half = u \div 2, i < next[u]
        PROVE  \/ bag'[i] > 0
               \/ \E v \in Threads : pc'[v] = "consume" /\ region'[v] = i
               \/ Shown(i)'
    <3>1. CASE i = k \/ Shown(i)
      BY <1>6, <3>1
    <3>2. CASE i /= k /\ \E v \in Threads : pc[v] = "consume" /\ region[v] = i
      BY <1>2, <1>4, <3>2 DEF k
    <3>3. CASE /\ ~Shown(i)
               /\ ~(\E v \in Threads : pc[v] = "consume" /\ region[v] = i)
      BY <1>0, <1>3, <2>1, <3>3 DEF Covered
    <3> QED BY <3>1, <3>2, <3>3
  <2> QED BY <1>0, <1>1, <2>1 DEF Covered
<1> QED
  BY <1>7, <1>8, <1>9, <1>10, <1>11

\* A consumer counts itself, and so nobody can have left before.
LEMMA SummedKeepsImageInv ==
  ASSUME EvenThreads, BenchIInv, Roles, ImageInv, NEW t \in Started, Summed(t)
  PROVE  ImageInv'
<1> USE DEF ImageInv
<1>0. /\ pc[t] = "sum" /\ nrSums' = nrSums + 1
      /\ pc' = [pc EXCEPT ![t] = "wait"] /\ Underway' = Underway
      /\ UNCHANGED <<impl, nrThreads, CONTENTION_NR, bag, next, region,
                     regionBufferGlobal, image>>
  BY DEF Summed, Goto, baseVars, bagVars, bench, locals, regionVars, Underway
<1>1. /\ Started' = Started /\ Half' = Half /\ Producers' = Producers
      /\ Regions' = Regions
      /\ \A i : Grid(i)' = Grid(i) /\ Shown(i)' = Shown(i)
  BY <1>0, ImageFrame
<1>2. /\ Started \subseteq Threads
      /\ \A u \in Threads : pc'[u] = IF u = t THEN "wait" ELSE pc[u]
      /\ Producers \subseteq Threads
  BY <1>0, StepDone DEF Producers
<1>3. nrThreads \in NrThreads /\ Underway /\ ~Produces(t)
  BY <1>0, <1>2, RunningThread DEF BenchIInv, BenchTypes, Underway, Roles
<1>4. t \in Consumers /\ t \notin ConsumersDone
  BY <1>0, <1>3 DEF Consumers, ConsumersDone, Done, PastWait
<1>5. ImageTypes'
  BY <1>0, <1>1 DEF ImageTypes, Pixels
<1>6. SumsCount'
  <2>1. ConsumersDone' = IF ~Produces(t) /\ "wait" \in Done
                         THEN ConsumersDone \cup {t} ELSE ConsumersDone \ {t}
    BY <1>0, StepConsumersDone
  <2>2. ConsumersDone' = ConsumersDone \cup {t}
    BY <1>3, <2>1 DEF Done
  <2>3. nrSums = Cardinality(ConsumersDone) /\ IsFiniteSet(ConsumersDone)
        /\ nrSums /= Half
    BY <1>3, <1>4, SumsBound DEF SumsCount
  <2>4. nrSums' = Cardinality(ConsumersDone')
    BY <1>0, <1>4, <2>2, <2>3, FS_AddElement
  <2>5. \A u \in Threads : pc[u] \notin PastWait
    BY <2>3 DEF SumsCount
  <2> QED BY <1>2, <2>4, <2>5 DEF SumsCount, PastWait
<1>7. OwnRegions'
  <2>1. t \notin Producers
    BY <1>3 DEF Producers
  <2> QED BY <1>0, <1>1, <1>2, <2>1 DEF OwnRegions, Done, PastWait
<1>8. Generated'
  BY <1>0, <1>1, <1>2 DEF Generated
<1>9. Covered'
  <2>1. ASSUME NEW u \in Producers, NEW i \in Regions, i % Half = u \div 2, i < next[u]
        PROVE  \/ bag'[i] > 0
               \/ \E v \in Threads : pc'[v] = "consume" /\ region'[v] = i
               \/ Shown(i)'
    <3>1. CASE \E v \in Threads : pc[v] = "consume" /\ region[v] = i
      BY <1>0, <1>2, <3>1
    <3>2. CASE ~(\E v \in Threads : pc[v] = "consume" /\ region[v] = i)
      BY <1>0, <1>1, <1>3, <2>1, <3>2 DEF Covered
    <3> QED BY <3>1, <3>2
  <2> QED BY <1>0, <1>1, <2>1 DEF Covered
<1> QED
  BY <1>5, <1>6, <1>7, <1>8, <1>9

\* A step that leaves everything of the image as it is, and all threads.
LEMMA StillKeepsImageInv ==
  ASSUME ImageInv, Underway' => Underway, pc' = pc,
         UNCHANGED <<impl, nrThreads, CONTENTION_NR, nrSums, bag, next, region,
                     regionBufferGlobal, image>>
  PROVE  ImageInv'
<1> USE DEF ImageInv
<1>1. /\ Started' = Started /\ Half' = Half /\ Producers' = Producers
      /\ Consumers' = Consumers /\ Regions' = Regions
      /\ \A i : Grid(i)' = Grid(i) /\ Shown(i)' = Shown(i)
  BY ImageFrame
<1>2. ConsumersDone' = ConsumersDone
  BY <1>1 DEF ConsumersDone, Done, PastWait
<1>3. ImageTypes' /\ SumsCount' /\ OwnRegions'
  BY <1>1, <1>2 DEF ImageTypes, Pixels, SumsCount, OwnRegions, Done, PastWait
<1>4. Generated' /\ Covered'
  BY <1>1 DEF Generated, Covered
<1> QED
  BY <1>3, <1>4

\* The harness keeps the invariant.
LEMMA HarnessKeepsImageInv ==
  ASSUME EvenThreads, BenchIInv, ImageInv, HarnessStep
  PROVE  ImageInv'
<1>1. CASE Prepare
  BY <1>1, PrepareKeepsImageInv
<1>2. ASSUME BenchHarnessStep,
             UNCHANGED <<bagVars, nrAdders, nrSums, locals, regionVars>>
      PROVE  ImageInv'
  <2>1. UNCHANGED <<CONTENTION_NR, nrSums, bag, next, region, regionBufferGlobal, image>>
    BY <1>2 DEF bagVars, locals, regionVars
  <2>2. CASE Go \/ Stop \/ Join
    <3>1. pc' = pc /\ Underway /\ Underway' /\ UNCHANGED <<impl, nrThreads>>
      BY <2>2 DEF Go, Stop, Join, Underway
    <3> QED BY <2>1, <3>1, StillKeepsImageInv
  <2>3. CASE Create
    <3>1. PICK i \in Started : pc' = [pc EXCEPT ![i] = "start"] /\ pc[i] = "none"
      BY <2>3, CreateNext
    <3>2. Underway' = Underway /\ UNCHANGED <<impl, nrThreads>>
      BY <2>3 DEF Create, Underway
    <3>3. PICK there \in {"start"} : pc' = [pc EXCEPT ![i] = there]
      BY <3>1
    <3> QED BY <2>1, <3>1, <3>2, <3>3, MoveKeepsImageInv DEF Done, PastWait
  <2>4. CASE Report
    <3>1. ~Underway' /\ nrThreads' = nrThreads /\ \A t \in Threads : pc'[t] = "none"
      BY <2>4 DEF Report, Underway
    <3>2. /\ Started' = Started /\ Half' = Half /\ Producers' = Producers
          /\ Regions' = Regions /\ Started \subseteq Threads
      BY <2>1, <3>1, StartedThreads
         DEF Started, Half, Producers, Produces, Regions, NR_REGIONS_X, NR_REGIONS_Y,
             REGION_SIZE, BenchIInv, BenchTypes
    <3>3. ImageTypes' /\ OwnRegions'
      BY <2>1, <3>1, <3>2 DEF ImageInv, ImageTypes, Pixels, OwnRegions, Producers
    <3>4. SumsCount' /\ Generated' /\ Covered'
      BY <3>1 DEF SumsCount, Generated, Covered, PastWait
    <3> QED BY <3>3, <3>4 DEF ImageInv
  <2> QED BY <1>2, <2>2, <2>3, <2>4 DEF BenchHarnessStep
<1> QED
  BY <1>1, <1>2 DEF HarnessStep

\* The steps of the threads keep the invariant.
LEMMA StepKeepsImageInv ==
  ASSUME EvenThreads, BenchIInv, MandelbrotInv, ImageInv, NEW t \in Threads, Step(t)
  PROVE  ImageInv'
<1>1. t \in Started /\ nrThreads \in NrThreads
  <2>1. pc[t] /= "none"
    BY DEF Step, BenchThreadStep, CountIn, CountOut, WriteEndTime, Begin, SeeGo,
       Produce, InsertRegion, Added, TakeRegion, FindNoRegion, Consume, Check, Summed,
       WaitAll, SaveStatistics, SaveInserts, SaveRemoves
  <2> QED BY <2>1, RunningThread DEF BenchIInv, BenchTypes
<1>2. IF Produces(t) THEN pc[t] \notin {"remove", "consume", "check", "sum"}
                     ELSE pc[t] \notin {"produce", "insert"}
  BY DEF MandelbrotInv, Roles
<1>3. Roles
  BY DEF MandelbrotInv
<1>4. (NR_CPUS + 1) \div 2 = Half
  BY <1>1, HalfProduce DEF MandelbrotInv, MandelbrotTypes
<1>5. pc[t] \in PastWait => nrSums = Half
  BY DEF ImageInv, SumsCount
<1> DEFINE same == UNCHANGED <<impl, nrThreads, CONTENTION_NR, nrSums, bag, next, region,
                               regionBufferGlobal, image>> /\ Underway' = Underway
<1>6. CASE BenchThreadStep(t)
           /\ UNCHANGED <<bagVars, nrAdders, nrSums, locals, regionVars>>
  <2>1. PICK there \in {"spin", "end_time", "exit"} :
          /\ pc' = [pc EXCEPT ![t] = there]
          /\ \/ there = "spin" /\ pc[t] = "start"
             \/ there /= "spin" /\ pc[t] \in {"finish", "end_time"}
          /\ UNCHANGED <<harness, impl, nrThreads>>
    BY <1>6 DEF BenchThreadStep, CountIn, CountOut, WriteEndTime
  <2>2. same
    BY <1>6, <2>1 DEF bagVars, locals, regionVars, Underway
  <2> QED BY <1>1, <1>5, <2>1, <2>2, MoveKeepsImageInv DEF Done, PastWait
<1>7. CASE Begin(t)
  <2>1. PICK there \in {"produce", "remove"} :
          /\ pc' = [pc EXCEPT ![t] = there] /\ pc[t] = "spin"
          /\ UNCHANGED <<harness, impl, nrThreads>>
    BY <1>7 DEF Begin, SeeGo
  <2>2. same
    BY <1>7, <2>1 DEF Begin, bagVars, locals, regionVars, Underway
  <2> QED BY <1>1, <2>1, <2>2, MoveKeepsImageInv DEF Done, PastWait
<1>8. CASE Added(t)
  <2>1. PICK there \in {"wait"} :
          /\ pc' = [pc EXCEPT ![t] = there] /\ pc[t] = "produce"
          /\ next[t] \notin Regions /\ same
    BY <1>8 DEF Added, Goto, baseVars, bench, bagVars, locals, regionVars, Underway
  <2> QED BY <1>1, <1>2, <2>1, MoveKeepsImageInv DEF Done, PastWait
<1>9. CASE FindNoRegion(t)
  <2>1. PICK there \in {"check"} :
          pc' = [pc EXCEPT ![t] = there] /\ pc[t] = "remove" /\ same
    BY <1>9 DEF FindNoRegion, TryRemoveFails, Goto, bench, locals, regionVars, Underway
  <2> QED BY <1>1, <2>1, MoveKeepsImageInv DEF Done, PastWait
<1>10. CASE Check(t)
  <2>1. PICK there \in {"remove", "sum"} :
          pc' = [pc EXCEPT ![t] = there] /\ pc[t] = "check"
    <3> USE <1>10 DEF Check, Goto
    <3>1. CASE nrAdders = NR_CPUS \div 2 /\ checks[t] > MaxChecks
      BY <3>1
    <3>2. CASE nrAdders = NR_CPUS \div 2 /\ ~(checks[t] > MaxChecks)
      BY <3>2
    <3>3. CASE nrAdders /= NR_CPUS \div 2
      BY <3>3
    <3> QED BY <3>1, <3>2, <3>3
  <2>2. same
    BY <1>10 DEF Check, baseVars, bench, bagVars, regionVars, Underway
  <2> QED BY <1>1, <2>1, <2>2, MoveKeepsImageInv DEF Done, PastWait
<1>11. CASE WaitAll(t)
  <2>1. PICK there \in {"save_inserts"} :
          /\ pc' = [pc EXCEPT ![t] = there] /\ pc[t] = "wait"
          /\ nrSums = Half /\ same
    BY <1>4, <1>11 DEF WaitAll, Goto, baseVars, bench, bagVars, locals, regionVars,
       Underway
  <2> QED BY <1>1, <2>1, MoveKeepsImageInv DEF Done, PastWait
<1>12. CASE SaveStatistics(t)
  <2>1. PICK there \in {"save_removes", "finish"} :
          /\ pc' = [pc EXCEPT ![t] = there]
          /\ pc[t] \in {"save_inserts", "save_removes"} /\ same
    BY <1>12 DEF SaveStatistics, SaveInserts, SaveRemoves, Goto, bench, locals,
       regionVars, Underway
  <2> QED BY <1>1, <1>5, <2>1, MoveKeepsImageInv DEF Done, PastWait
<1>13. CASE Produce(t)
  BY <1>1, <1>3, <1>13, ProduceKeepsImageInv
<1>14. CASE InsertRegion(t)
  BY <1>1, <1>14, InsertKeepsImageInv
<1>15. CASE TakeRegion(t)
  BY <1>1, <1>15, TakeKeepsImageInv
<1>16. CASE Consume(t)
  BY <1>1, <1>16, ConsumeKeepsImageInv
<1>17. CASE Summed(t)
  BY <1>1, <1>3, <1>17, SummedKeepsImageInv
<1> QED
  BY <1>6, <1>7, <1>8, <1>9, <1>10, <1>11, <1>12, <1>13, <1>14, <1>15, <1>16, <1>17
     DEF Step

-----------------------------------------------------------------------------
\* Who is past the wait sees the whole image: no region is left to a producer,
\* in the bag or with a consumer.
LEMMA InvImageComplete ==
  ASSUME EvenThreads, BenchIInv, MandelbrotInv, ImageInv
  PROVE  ImageComplete
<1> SUFFICES ASSUME NEW t \in Threads, pc[t] \in PastWait, NEW p \in Pixels
             PROVE  image[p] = CalcZ(p[2], p[1])
  BY InvLeavesWhenDrained DEF ImageComplete
<1>1. nrThreads \in NrThreads /\ Underway
  BY RunningThread DEF PastWait, Underway, BenchIInv, BenchTypes
<1>2. nrAdders = Half /\ BagIsEmpty /\ nrSums = Half
  <2>1. t \in Started
    BY RunningThread DEF PastWait
  <2> QED BY <2>1 DEF MandelbrotInv, SummedLast, Summing, ImageInv, SumsCount
<1>3. ProducersDone = Producers
  BY <1>1, <1>2, DoneBound DEF MandelbrotInv, AddersCount, Underway
<1>4. ConsumersDone = Consumers
  BY <1>1, <1>2, SumsBound DEF ImageInv, SumsCount
<1>5. ASSUME NEW u \in Threads PROVE pc[u] /= "consume"
  <2> SUFFICES ASSUME pc[u] = "consume" PROVE FALSE
    OBVIOUS
  <2>1. u \in Started /\ ~Produces(u)
    BY RunningThread DEF MandelbrotInv, Roles
  <2> QED BY <1>4, <2>1 DEF ConsumersDone, Consumers, Done, PastWait
<1>6. PICK i \in Regions : p \in Covers(Grid(i))
  BY PixelCovered DEF ImageInv, ImageTypes
<1>7. /\ Half \in Nat \ {0} /\ nrThreads = 2 * Half
      /\ i \in Nat /\ i \in Items /\ NR_REGIONS_X * NR_REGIONS_Y \in Nat
  BY <1>1, HalfProduce, RegionsDivide DEF ImageInv, ImageTypes
<1>8. PICK u \in Producers : u \div 2 = i % Half
  <2>1. i % Half \in 0 .. Half - 1
    BY <1>7
  <2>2. ASSUME NEW k \in 0 .. Half - 1 PROVE 2 * k \in Producers /\ (2 * k) \div 2 = k
    BY <1>7 DEF Producers, Started, Produces
  <2> QED BY <2>1, <2>2
<1>9. i < next[u]
  <2>1. u \in Threads /\ pc[u] \in Done
    BY <1>1, <1>3, StartedThreads DEF Producers, ProducersDone
  <2>2. next[u] \in Nat /\ next[u] \notin Regions
    BY <1>1, <2>1 DEF ImageInv, ImageTypes, OwnRegions
  <2> QED BY <1>7, <2>2 DEF Regions
<1>10. ~(bag[i] > 0)
  BY <1>2, <1>7 DEF BagIsEmpty
<1>11. Shown(i)
  BY <1>1, <1>5, <1>8, <1>9, <1>10 DEF ImageInv, Covered
<1> QED
  BY <1>6, <1>11 DEF Shown

\* If the threads are even in number, who is past the final wait sees every
\* pixel as it is to be: all regions are generated, each by one producer, and
\* coloured, by whichever consumer, although no consumer ever sees all at once
\* that the producers have finished and that the bag is empty.
THEOREM MandelbrotCompletesImage == EvenThreads /\ Spec => []ImageComplete
<1> SUFFICES ASSUME EvenThreads PROVE Spec => []ImageComplete
  OBVIOUS
<1>1. Init => MandelbrotInv /\ ImageInv
  BY InitMandelbrotInv, InitImageInv
<1>2. BenchIInv /\ MandelbrotInv /\ [Next]_vars => MandelbrotInv'
  BY HarnessKeepsMandelbrotInv, StepKeepsMandelbrotInv, StutterKeepsMandelbrotInv
     DEF Next
<1>3. BenchIInv /\ MandelbrotInv /\ ImageInv /\ [Next]_vars => ImageInv'
  <2>1. UNCHANGED vars => Underway' = Underway /\ UNCHANGED <<pc, impl, nrThreads,
          CONTENTION_NR, nrSums, bag, next, region, regionBufferGlobal, image>>
    BY DEF vars, baseVars, bench, bagVars, locals, regionVars, Underway
  <2> QED
    BY <2>1, HarnessKeepsImageInv, StepKeepsImageInv, StillKeepsImageInv DEF Next
<1>4. BenchIInv /\ MandelbrotInv /\ ImageInv => ImageComplete
  BY InvImageComplete
<1> QED
  BY <1>1, <1>2, <1>3, <1>4, BenchIInvHolds, PTL DEF Spec
=============================================================================
