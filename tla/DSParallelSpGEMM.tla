-------------------------- MODULE DSParallelSpGEMM --------------------------
(***************************************************************************)
(* SpGEMM_DSParallel_RowStore of the SpBLAS library: the three-phase       *)
(* product in an OpenMP parallel region, whose threads may arrive at any   *)
(* time.  The library's work units are single rows (WU is 1).              *)
(***************************************************************************)
EXTENDS RowStore

regionVars == <<rowVars, pc, phases>>

RegionInit ==
  /\ RowStoreInit
  /\ rp = [i \in 0 .. M |-> 0]   \* C(0, 0, 0)
  /\ C = [s \in {} |-> <<>>]
  /\ phase1 = 0 /\ phase2 = 0 /\ phase3 = 0
  /\ pc = [t \in Workers |-> "join"]

-----------------------------------------------------------------------------
\* Mutant: a thread that has taken a row is not counted in phase 1.
Join_Uncounted(t) ==
  /\ pc[t] = "join"
  /\ Goto(t, "claim_unit")
  /\ UNCHANGED <<rowVars, phases>>

\* FAA32(&phase1, 1)
Join(t) ==
  /\ pc[t] = "join"
  /\ phase1' = phase1 + 1
  /\ Goto(t, "claim_unit")
  /\ UNCHANGED <<rowVars, phase2, phase3>>

\* FAA32(&phase1, -1)
Leave(t) ==
  /\ pc[t] = "leave"
  /\ phase1' = phase1 - 1
  /\ Goto(t, "wait_phase1")
  /\ UNCHANGED <<rowVars, phase2, phase3>>

\* while (phase1 > 0)
WaitPhase1(t) ==
  /\ pc[t] = "wait_phase1"
  /\ phase1 <= 0
  /\ Goto(t, "read_phase2")
  /\ UNCHANGED <<rowVars, phases>>

\* int p2 = phase2
SeePhase2(t) ==
  /\ pc[t] = "read_phase2"
  /\ Goto(t, IF phase2 = 0 THEN "claim_phase2" ELSE "wait_phase3")
  /\ UNCHANGED <<rowVars, phases>>

\* FAA32(&phase2, 1), whose result is not used
CountPhase2(t) ==
  /\ pc[t] = "claim_phase2"
  /\ phase2' = phase2 + 1
  /\ Goto(t, "create")
  /\ UNCHANGED <<rowVars, phase1, phase3>>

\* C = SpMatrix(A.m, B.n, 0)
Create(t) ==
  /\ pc[t] = "create"
  /\ rp' = [i \in 0 .. M |-> 0]
  /\ C' = [s \in {} |-> <<>>]
  /\ Goto(t, "lay_out")
  /\ UNCHANGED <<nextci, element_count, bag, unit, phases>>

\* SpGEMM_DSParallel_RowStore_2S
LayOutRows(t) ==
  /\ pc[t] = "lay_out"
  /\ LayOut
  /\ Goto(t, "launch")
  /\ UNCHANGED <<nextci, element_count, bag, unit, phases>>

\* Mutant: the others are not told.
LaunchPhase3_Forgotten(t) ==
  /\ pc[t] = "launch"
  /\ Goto(t, "remove")
  /\ UNCHANGED <<rowVars, phases>>

\* FAA32(&phase3, 1)
LaunchPhase3(t) ==
  /\ pc[t] = "launch"
  /\ phase3' = phase3 + 1
  /\ Goto(t, "remove")
  /\ UNCHANGED <<rowVars, phase1, phase2>>

\* while (phase3 == 0)
AwaitPhase3(t) ==
  /\ pc[t] = "wait_phase3"
  /\ phase3 /= 0
  /\ Goto(t, "remove")
  /\ UNCHANGED <<rowVars, phases>>

-----------------------------------------------------------------------------
RegionStep(t) ==
  \/ RowStep(t, "leave") /\ UNCHANGED phases
  \/ Join(t) \/ Leave(t) \/ WaitPhase1(t) \/ SeePhase2(t) \/ CountPhase2(t)
  \/ Create(t) \/ LayOutRows(t) \/ LaunchPhase3(t) \/ AwaitPhase3(t)

RegionNext == \E t \in Workers : RegionStep(t)

RegionSpec == RegionInit /\ [][RegionNext]_regionVars

-----------------------------------------------------------------------------
\* Once one worker has seen phase 1 end, all rows are computed and stored,
\* although workers may arrive later and set phase1 again ("this should be
\* safe ... any late arrivals ... won't touch anything",
\* SpGEMM_DSParallel.h:175).
LateArrivalsSafe ==
  (\E t \in Workers :
     pc[t] \in {"read_phase2", "claim_phase2", "create", "lay_out", "launch",
                "wait_phase3", "remove", "copy", "done"})
  => RowsStored

\* "Allow exactly one worker to perfrom the sequential phase"
\* (SpGEMM_DSParallel.h:185): no two workers are in it, and nobody copies rows
\* to C while one is.
OneSequentialWorker ==
  \A t, u \in Workers :
    /\ t /= u
    /\ pc[t] \in {"create", "lay_out", "launch"}
    => pc[u] \notin {"create", "lay_out", "launch", "remove", "copy", "done"}

\* If only one worker ran the sequential phase, C is the product.
ProductUnlessRaced == AllDone /\ phase2 = 1 => IsProduct /\ bag = {}

\* If more of them did, entries of C may not be what they should be, which were
\* copied to arrays that a later worker replaced, but C has the row pointers of
\* the product all the same: each of these workers starts from new ones and
\* sets them all (SpGEMM_DSParallel.h:106-113 and 194).
RowPointersRight ==
  AllDone /\ phase2 > 0 => rp = [i \in 0 .. M |-> Before(Nnz, i)]

\* Every worker comes to the end of the parallel region and the bag is empty.
RegionEnds == <>(AllDone /\ bag = {})
=============================================================================
