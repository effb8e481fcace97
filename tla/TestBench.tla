----------------------------- MODULE TestBench -----------------------------
(***************************************************************************)
(* TestBenchCLI: perform_experiment, which runs the experiment with each   *)
(* chosen implementation in nrThreads new threads, and experiment_thread.  *)
(* The experiment adds RunImplementationNr, from where a thread sees go to *)
(* "finish", and what it does when the bench prepares an implementation    *)
(* (InitImplementationNr).  BenchSpec is the bench with an arbitrary       *)
(* experiment; the experiments implement it.                               *)
(***************************************************************************)
EXTENDS Integers, FiniteSets

CONSTANTS
  NrThreads,        \* the numbers of threads the user may choose
  Implementations   \* the number of active_implementations

ASSUME BenchAssumption ==
  /\ NrThreads \subseteq Nat \ {0}
  /\ Implementations \in Nat \ {0}

Threads == UNION {0 .. n - 1 : n \in NrThreads}

VARIABLES
  harness,          \* where perform_experiment is
  impl,             \* the implementation it is at
  nrThreads,
  runningCounter, go, mainCounter,
  ended,            \* auxiliary: the threads that have written end_time
  pc

bench == <<harness, impl, nrThreads, runningCounter, go, mainCounter, ended>>

Started == 0 .. nrThreads - 1

\* Where a thread is when it is not in the experiment's RunImplementationNr.
Outside == {"none", "start", "spin", "finish", "end_time", "exit"}

BenchInit ==
  /\ nrThreads \in NrThreads
  /\ harness = "prepare"
  /\ impl = 1
  /\ runningCounter = 0 /\ go = 0 /\ mainCounter = 1
  /\ ended = {}
  /\ pc = [t \in Threads |-> "none"]

-----------------------------------------------------------------------------
\* perform_experiment
BenchPrepare ==
  /\ harness = "prepare"
  /\ harness' = "create"
  /\ runningCounter' = 0 /\ go' = 0 /\ mainCounter' = 1
  /\ ended' = {}
  /\ UNCHANGED <<impl, nrThreads, pc>>

\* pthread_create of the first thread that is not there yet
Create ==
  LET i == Cardinality({t \in Threads : pc[t] /= "none"})
  IN  /\ harness = "create"
      /\ pc' = [pc EXCEPT ![i] = "start"]
      /\ harness' = IF i + 1 < nrThreads THEN "create" ELSE "wait"
      /\ UNCHANGED <<impl, nrThreads, runningCounter, go, mainCounter, ended>>

\* while (runningCounter < nrThreads); go = 1
Go ==
  /\ harness = "wait"
  /\ runningCounter >= nrThreads
  /\ go' = 1
  /\ harness' = "sleep"
  /\ UNCHANGED <<impl, nrThreads, runningCounter, mainCounter, ended, pc>>

\* Mutant: the stop signal is not given.
Stop_Forgotten ==
  /\ harness = "sleep"
  /\ harness' = "join"
  /\ UNCHANGED <<impl, nrThreads, runningCounter, go, mainCounter, ended, pc>>

\* usleep(expDuration); mainCounter = 0
Stop ==
  /\ harness = "sleep"
  /\ mainCounter' = 0
  /\ harness' = "join"
  /\ UNCHANGED <<impl, nrThreads, runningCounter, go, ended, pc>>

Join ==
  /\ harness = "join"
  /\ \A t \in Started : pc[t] = "exit"
  /\ harness' = "report"
  /\ UNCHANGED <<impl, nrThreads, runningCounter, go, mainCounter, ended, pc>>

\* GetStatistics and DeInitImplementationNr; the threads are gone.
Report ==
  /\ harness = "report"
  /\ impl' = impl + 1
  /\ harness' = IF impl < Implementations THEN "prepare" ELSE "end"
  /\ pc' = [t \in Threads |-> "none"]
  /\ UNCHANGED <<nrThreads, runningCounter, go, mainCounter, ended>>

-----------------------------------------------------------------------------
\* experiment_thread
CountIn(t) ==
  /\ pc[t] = "start"
  /\ runningCounter' = runningCounter + 1
  /\ pc' = [pc EXCEPT ![t] = "spin"]
  /\ UNCHANGED <<harness, impl, nrThreads, go, mainCounter, ended>>

\* Mutant: the start signal is not waited for.
SeeGo_NoWait(t, there) ==
  /\ pc[t] = "spin"
  /\ pc' = [pc EXCEPT ![t] = there]
  /\ UNCHANGED <<harness, impl, nrThreads, runningCounter, go, mainCounter,
                 ended>>

\* while (!go)
SeeGo(t, there) ==
  /\ pc[t] = "spin"
  /\ go = 1
  /\ pc' = [pc EXCEPT ![t] = there]
  /\ UNCHANGED <<harness, impl, nrThreads, runningCounter, go, mainCounter,
                 ended>>

\* if (FAA32(&runningCounter, -1) == 1)
CountOut(t) ==
  /\ pc[t] = "finish"
  /\ runningCounter' = runningCounter - 1
  /\ pc' = [pc EXCEPT ![t] = IF runningCounter = 1 THEN "end_time" ELSE "exit"]
  /\ UNCHANGED <<harness, impl, nrThreads, go, mainCounter, ended>>

\* clock_gettime(CLOCK_REALTIME, &end_time)
WriteEndTime(t) ==
  /\ pc[t] = "end_time"
  /\ ended' = ended \cup {t}
  /\ pc' = [pc EXCEPT ![t] = "exit"]
  /\ UNCHANGED <<harness, impl, nrThreads, runningCounter, go, mainCounter>>

-----------------------------------------------------------------------------
BenchHarnessStep == Create \/ Go \/ Stop \/ Join \/ Report

BenchThreadStep(t) == CountIn(t) \/ CountOut(t) \/ WriteEndTime(t)

\* Whatever the experiment does between SeeGo and CountOut.
Run(t) ==
  /\ pc[t] \notin Outside
  /\ pc' = [pc EXCEPT ![t] = pc'[t]]
  /\ pc'[t] \notin Outside \ {"finish"}
  /\ UNCHANGED bench

BenchNext ==
  \/ BenchPrepare \/ BenchHarnessStep
  \/ \E t \in Threads :
       \/ BenchThreadStep(t) \/ Run(t)
       \/ SeeGo(t, pc'[t]) /\ pc'[t] \notin Outside

BenchSpec == BenchInit /\ [][BenchNext]_<<bench, pc>>

-----------------------------------------------------------------------------
\* The experiment is measured from when all threads are there to when the last
\* one has finished: no thread runs the experiment before all have counted
\* themselves in, and one thread, after all others have finished, has
\* written end_time when the results are reported.
MeasuresAll ==
  /\ \A t \in Started :
       pc[t] \notin {"none", "start", "spin"} =>
         \A u \in Started : pc[u] \notin {"none", "start"}
  /\ \A t \in Started :
       pc[t] = "end_time" => \A u \in Started \ {t} : pc[u] = "exit"
  /\ harness = "report" => Cardinality(ended) = 1
=============================================================================
