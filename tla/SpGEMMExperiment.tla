-------------------------- MODULE SpGEMMExperiment --------------------------
(***************************************************************************)
(* NBLExpSpGEMM: the three-phase product as the test bench runs it, in     *)
(* iterations that reset the counters, with spinning threads or, under     *)
(* SPGEMM_USE_MUTEX, a mutex and a condition variable between the phases.  *)
(***************************************************************************)
EXTENDS RowStore

CONSTANTS
  MaxCPUS,     \* MAX_CPUS: the most threads SetNrThreads counts
  Builds,      \* the builds: whether SPGEMM_USE_MUTEX is defined
  Iterations   \* how many times the harness runs the implementation

ASSUME SpGEMMAssumption ==
  /\ MaxCPUS \in Nat
  /\ "free" \notin Workers
  /\ Builds \subseteq BOOLEAN
  /\ Iterations \in Nat \ {0}

VARIABLES
  mutex,                  \* the holder of phase2_mutex, or Free
  useMutex,               \* the build that runs
  mmalg,                  \* 0: the sequential algorithm, 1: the parallel one
  iteration

config == <<useMutex, mmalg>>
vars == <<rowVars, pc, phases, mutex, config, iteration>>

Free == "free"

\* SetNrThreads
NR_CPUS == Min({Cardinality(Workers), MaxCPUS})

PCs == {"first", "gustavson", "claim_unit", "compute", "insert",
        "arrive", "wait_all", "lock", "check", "asleep",
        "read_phase2", "claim_phase2", "lay_out", "launch",
        "broadcast", "pass", "wait_phase3", "remove", "copy", "done"}

\* switch (mmalg)
FirstStep == IF mmalg = 0 THEN "first" ELSE "claim_unit"

\* CreateScenario, with an empty C, and InitImplementationNr.
Init ==
  /\ mmalg \in {0, 1}
  /\ RowStoreInit
  /\ phase1 = 0 /\ phase2 = 0 /\ phase3 = 0
  /\ pc = [t \in Workers |-> FirstStep]
  /\ rp = [i \in 0 .. M |-> 0]
  /\ C = [s \in {} |-> <<>>]
  /\ mutex = Free
  /\ useMutex \in Builds
  /\ iteration = 1

-----------------------------------------------------------------------------
\* Case 0: the first thread runs the sequential algorithm, the others end.
First(t) ==
  /\ pc[t] = "first"
  /\ phase1' = phase1 + 1
  /\ Goto(t, IF phase1 = 0 THEN "gustavson" ELSE "done")
  /\ UNCHANGED <<rowVars, phase2, phase3, mutex, config, iteration>>

\* C = SpMM_Gustavson_RowStore(A, A), which keeps its own counts and bag.
Gustavson(t) ==
  /\ pc[t] = "gustavson"
  /\ rp' = [i \in 0 .. M |-> Before(Nnz, i)]
  /\ C' = [s \in 0 .. rp'[M] - 1 |->
             LET i == CHOOSE r \in Rows : rp'[r] <= s /\ s < rp'[r + 1]
             IN  <<i, s - rp'[i]>>]
  /\ Goto(t, "done")
  /\ UNCHANGED <<nextci, element_count, bag, unit, phases, mutex, config,
                 iteration>>

\* Case 1.

\* FAA32(&phase1, 1)
Arrive(t) ==
  /\ pc[t] = "arrive"
  /\ phase1' = phase1 + 1
  /\ Goto(t, IF useMutex THEN "lock" ELSE "wait_all")
  /\ UNCHANGED <<rowVars, phase2, phase3, mutex, config, iteration>>

\* Mutant: the last thread is not waited for.
WaitAll_OffByOne(t) ==
  /\ pc[t] = "wait_all"
  /\ phase1 >= NR_CPUS - 1
  /\ Goto(t, "read_phase2")
  /\ UNCHANGED <<rowVars, phases, mutex, config, iteration>>

\* while (phase1 < NR_CPUS)
WaitAll(t) ==
  /\ pc[t] = "wait_all"
  /\ phase1 >= NR_CPUS
  /\ Goto(t, "read_phase2")
  /\ UNCHANGED <<rowVars, phases, mutex, config, iteration>>

Lock(t) ==
  /\ pc[t] = "lock"
  /\ mutex = Free
  /\ mutex' = t
  /\ Goto(t, "check")
  /\ UNCHANGED <<rowVars, phases, config, iteration>>

\* while (phase1 < NR_CPUS) pthread_cond_wait: sleep and release the mutex.
Check(t) ==
  /\ pc[t] = "check"
  /\ IF phase1 < NR_CPUS
     THEN Goto(t, "asleep") /\ mutex' = Free
     ELSE Goto(t, "read_phase2") /\ UNCHANGED mutex
  /\ UNCHANGED <<rowVars, phases, config, iteration>>

\* pthread_cond_wait may return although nobody signalled.
WakeSpuriously(t) ==
  /\ pc[t] = "asleep"
  /\ Goto(t, "lock")
  /\ UNCHANGED <<rowVars, phases, mutex, config, iteration>>

AfterPhase2 == IF useMutex THEN "pass" ELSE "wait_phase3"

\* int p2 = phase2
ReadPhase2(t) ==
  /\ pc[t] = "read_phase2"
  /\ Goto(t, IF phase2 = 0 THEN "claim_phase2" ELSE AfterPhase2)
  /\ UNCHANGED <<rowVars, phases, mutex, config, iteration>>

\* Mutant: the result of the fetch-and-add is not used.
ClaimPhase2_Unchecked(t) ==
  /\ pc[t] = "claim_phase2"
  /\ phase2' = phase2 + 1
  /\ Goto(t, "lay_out")
  /\ UNCHANGED <<rowVars, phase1, phase3, mutex, config, iteration>>

\* p2 = FAA32(&phase2, 1)
ClaimPhase2(t) ==
  /\ pc[t] = "claim_phase2"
  /\ phase2' = phase2 + 1
  /\ Goto(t, IF phase2 = 0 THEN "lay_out" ELSE AfterPhase2)
  /\ UNCHANGED <<rowVars, phase1, phase3, mutex, config, iteration>>

\* SpMM_DSParallel_RowStore_2S
SequentialPhase(t) ==
  /\ pc[t] = "lay_out"
  /\ LayOut
  /\ Goto(t, "launch")
  /\ UNCHANGED <<nextci, element_count, bag, unit, phases, mutex, config, iteration>>

\* Mutant: the others are not told.
Launch_Forgotten(t) ==
  /\ pc[t] = "launch"
  /\ IF useMutex THEN mutex' = Free ELSE UNCHANGED mutex
  /\ Goto(t, "remove")
  /\ UNCHANGED <<rowVars, phases, config, iteration>>

\* FAA32(&phase3, 1), or pthread_mutex_unlock
Launch(t) ==
  /\ pc[t] = "launch"
  /\ IF useMutex
     THEN mutex' = Free /\ Goto(t, "broadcast") /\ UNCHANGED phase3
     ELSE phase3' = phase3 + 1 /\ Goto(t, "remove") /\ UNCHANGED mutex
  /\ UNCHANGED <<rowVars, phase1, phase2, config, iteration>>

Broadcast(t) ==
  /\ pc[t] = "broadcast"
  /\ pc' = [u \in Workers |-> IF u = t THEN "remove"
                              ELSE IF pc[u] = "asleep" THEN "lock" ELSE pc[u]]
  /\ UNCHANGED <<rowVars, phases, mutex, config, iteration>>

\* Let the next thread proceed.
Pass(t) ==
  /\ pc[t] = "pass"
  /\ mutex' = Free
  /\ Goto(t, "remove")
  /\ UNCHANGED <<rowVars, phases, config, iteration>>

\* while (phase3 == 0)
WaitPhase3(t) ==
  /\ pc[t] = "wait_phase3"
  /\ phase3 /= 0
  /\ Goto(t, "remove")
  /\ UNCHANGED <<rowVars, phases, mutex, config, iteration>>

\* Mutant: the counters of the phases keep their values.
NextIteration_NoReset ==
  /\ AllDone
  /\ iteration < Iterations
  /\ iteration' = iteration + 1
  /\ RowStoreReset
  /\ pc' = [t \in Workers |-> FirstStep]
  /\ UNCHANGED <<phases, mutex, config>>

\* The harness joins the threads and starts the next iteration with the
\* matrices and the object it has: InitImplementationNr resets the rest.
NextIteration ==
  /\ AllDone
  /\ iteration < Iterations
  /\ iteration' = iteration + 1
  /\ RowStoreReset
  /\ phase1' = 0 /\ phase2' = 0 /\ phase3' = 0
  /\ pc' = [t \in Workers |-> FirstStep]
  /\ UNCHANGED <<mutex, config>>

-----------------------------------------------------------------------------
Step(t) ==
  \/ RowStep(t, "arrive") /\ UNCHANGED <<phases, mutex, config, iteration>>
  \/ First(t) \/ Gustavson(t)
  \/ Arrive(t) \/ WaitAll(t) \/ Lock(t) \/ Check(t)
  \/ ReadPhase2(t) \/ ClaimPhase2(t) \/ SequentialPhase(t) \/ Launch(t)
  \/ Broadcast(t) \/ Pass(t) \/ WaitPhase3(t)

Next ==
  \/ \E t \in Workers : Step(t) \/ WakeSpuriously(t)
  \/ NextIteration

Spec == Init /\ [][Next]_vars

\* Every thread runs; the harness starts every iteration.  A mutex is taken
\* by some waiting thread but not fairly.
Fairness == (\A t \in Workers : WF_vars(Step(t))) /\ WF_vars(NextIteration)
FairSpec == Spec /\ Fairness

-----------------------------------------------------------------------------
TypeOK ==
  /\ pc \in [Workers -> PCs]
  /\ nextci \in 0 .. M + WUSize * (Cardinality(Workers) + 1)
  /\ element_count \in [Rows -> Nat]
  /\ bag \subseteq Rows
  /\ rp \in [0 .. M -> Nat]
  /\ DOMAIN C = 0 .. rp[M] - 1
  /\ \A t \in Workers : unit[t].next \in 0 .. M /\ unit[t].end \in 0 .. M
  /\ phase1 \in 0 .. Cardinality(Workers)
  /\ phase2 \in 0 .. Cardinality(Workers)
  /\ phase3 \in 0 .. 1
  /\ mutex \in Workers \cup {Free}
  /\ useMutex \in Builds
  /\ mmalg \in {0, 1}
  /\ iteration \in 1 .. Iterations

\* While one thread runs the sequential phase, all rows are stored and no
\* other thread computes, lays out or copies.
SequentialPhaseAlone ==
  \A t \in Workers :
    pc[t] \in {"lay_out", "launch"} =>
      /\ RowsStored
      /\ \A u \in Workers \ {t} :
           /\ ~Computing(u) /\ ~Copying(u)
           /\ pc[u] \notin {"lay_out", "launch", "done"}

\* A row that is copied fits exactly in the place C has for it: its size has
\* not changed since the row pointers were computed from it in this iteration.
RowsFit ==
  \A t \in Workers :
    pc[t] = "copy" =>
      LET i == unit[t].next
      IN  rp[i] + element_count[i] = rp[i + 1]

\* When an iteration is over C is the product, and every unit was copied.
ProductComplete == AllDone => IsProduct /\ bag = {}

\* The phase 1 barrier waits for all (NBLExpSpGEMM.cpp:245): nobody is past it
\* while another thread is still in phase 1.
WaitsForAll ==
  \A t, u \in Workers : pc[t] = "read_phase2" => ~Computing(u)

\* Every iteration ends: no thread waits forever at a phase change.
Terminates == <>[](AllDone /\ iteration = Iterations)
=============================================================================
