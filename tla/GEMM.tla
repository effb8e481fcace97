-------------------------------- MODULE GEMM --------------------------------
(***************************************************************************)
(* NBLExpGEMM in the test bench: C = A*B + C by blocks.  Every thread puts *)
(* the blocks of its block rows in the bag and then works on blocks from   *)
(* the bag until it has often enough found the bag empty after all threads *)
(* had put theirs.  The bench does so once with each implementation of the *)
(* bag, on the same C.                                                     *)
(***************************************************************************)
EXTENDS ProducerConsumerBase

CONSTANTS
  NB,         \* N/Nwu: blocks in a row or column of C (Nwu divides N)
  MaxExiting  \* how many further empty bags a thread wants to see: 10

ASSUME GEMMAssumption ==
  /\ NB \in Nat \ {0}
  /\ MaxExiting \in Nat
  /\ MaxMisses <= MaxExiting
  /\ NrThreads \subseteq 1 .. MaxCPUS
  /\ Items = (0 .. NB - 1) \X (0 .. NB - 1)

Blocks == Items
NoBlock == <<>>

VARIABLES
  added,      \* how many threads have put their blocks in the bag
  next,       \* next[t]: the local r/Nwu and c/Nwu of t, its block to insert
  work,       \* work[t]: the block t works on
  tempC,      \* tempC[t]: its copy of that block of C
  exiting,
  C           \* C[b]: how often A*B has been added to block b

locals == <<next, work, tempC, exiting>>
vars == <<baseVars, pc, added, locals, C>>

\* CreateScenario, after SetNrThreads.
Init ==
  /\ BaseInit
  /\ added = 0
  /\ next = [t \in Threads |-> <<t, 0>>]
  /\ work = [t \in Threads |-> NoBlock]
  /\ tempC = [t \in Threads |-> 0]
  /\ exiting = [t \in Threads |-> 0]
  /\ C = [b \in Blocks |-> 0]

\* Mutant: the threads that are ready are not counted anew.
Prepare_KeepsAdded ==
  /\ BasePrepare
  /\ next' = [t \in Threads |-> <<t, 0>>]
  /\ work' = [t \in Threads |-> NoBlock]
  /\ tempC' = [t \in Threads |-> 0]
  /\ exiting' = [t \in Threads |-> 0]
  /\ UNCHANGED <<added, C>>

\* InitImplementationNr, and the locals of the threads to come.
Prepare ==
  /\ BasePrepare
  /\ added' = 0
  /\ next' = [t \in Threads |-> <<t, 0>>]
  /\ work' = [t \in Threads |-> NoBlock]
  /\ tempC' = [t \in Threads |-> 0]
  /\ exiting' = [t \in Threads |-> 0]
  /\ UNCHANGED C

-----------------------------------------------------------------------------
\* RunImplementationNr
Begin(t) ==
  /\ SeeGo(t, IF NR_CPUS = 1 THEN "blas" ELSE "insert")
  /\ UNCHANGED <<bagVars, added, locals, C>>

\* A single thread calls BLAS for the whole of C.
MultiplyAll(t) ==
  /\ pc[t] = "blas"
  /\ C' = [b \in Blocks |-> C[b] + 1]
  /\ Goto(t, "save_inserts")
  /\ UNCHANGED <<baseVars, added, locals>>

\* Mutant: the last column is left out.
BlockAfter_Short(r, c) ==
  IF c + 2 < NB THEN <<r, c + 1>> ELSE <<r + NR_CPUS, 0>>

\* The next block of a thread: its rows are NR_CPUS apart.
BlockAfter(r, c) ==
  IF c + 1 < NB THEN <<r, c + 1>> ELSE <<r + NR_CPUS, 0>>

InsertBlock(t) ==
  LET r == next[t][1]
      c == next[t][2]
  IN  /\ pc[t] = "insert"
      /\ r < NB
      /\ Insert(t, <<r, c>>, TRUE)
      /\ next' = [next EXCEPT ![t] = BlockAfter(r, c)]
      /\ UNCHANGED <<pc, added, work, tempC, exiting, C>>

\* FAA32(&added, 1)
Announce(t) ==
  /\ pc[t] = "insert"
  /\ next[t][1] >= NB
  /\ added' = added + 1
  /\ Goto(t, "remove")
  /\ UNCHANGED <<baseVars, locals, C>>

TakeBlock(t) ==
  /\ pc[t] = "remove"
  /\ \E b \in Blocks :
       /\ TryRemove(t, b, TRUE)
       /\ work' = [work EXCEPT ![t] = b]
  /\ Goto(t, "copy_from")
  /\ UNCHANGED <<added, next, tempC, exiting, C>>

FindNoBlock(t) ==
  /\ pc[t] = "remove"
  /\ TryRemoveFails(t)
  /\ Goto(t, "check")
  /\ UNCHANGED <<added, locals, C>>

\* CopyBlockFrom(C), and the multiplications on the copy
CopyFrom(t) ==
  /\ pc[t] = "copy_from"
  /\ tempC' = [tempC EXCEPT ![t] = C[work[t]] + 1]
  /\ Goto(t, "copy_to")
  /\ UNCHANGED <<baseVars, added, next, work, exiting, C>>

\* CopyBlockTo(C); delete work
CopyTo(t) ==
  /\ pc[t] = "copy_to"
  /\ C' = [C EXCEPT ![work[t]] = tempC[t]]
  /\ work' = [work EXCEPT ![t] = NoBlock]
  /\ tempC' = [tempC EXCEPT ![t] = 0]
  /\ Goto(t, "remove")
  /\ UNCHANGED <<baseVars, added, next, exiting>>

\* Mutant: an empty bag and nothing more to come is thought to be enough.
Check_Once(t) ==
  /\ pc[t] = "check"
  /\ Goto(t, IF added = NR_CPUS THEN "save_inserts" ELSE "remove")
  /\ UNCHANGED <<baseVars, added, locals, C>>

\* else if (added == NR_CPUS)
Check(t) ==
  /\ pc[t] = "check"
  /\ IF added = NR_CPUS /\ exiting[t] > MaxExiting
     THEN Goto(t, "save_inserts") /\ UNCHANGED exiting
     ELSE /\ Goto(t, "remove")
          /\ exiting' = [exiting EXCEPT ![t] =
                           IF added = NR_CPUS THEN @ + 1 ELSE @]
  /\ UNCHANGED <<baseVars, added, next, work, tempC, C>>

SaveStatistics(t) ==
  /\ \/ SaveInserts(t, "save_inserts", "save_removes")
     \/ SaveRemoves(t, "save_removes", "finish")
  /\ UNCHANGED <<added, locals, C>>

-----------------------------------------------------------------------------
Step(t) ==
  \/ BenchThreadStep(t) /\ UNCHANGED <<bagVars, added, locals, C>>
  \/ Begin(t) \/ MultiplyAll(t) \/ InsertBlock(t) \/ Announce(t)
  \/ TakeBlock(t) \/ FindNoBlock(t) \/ CopyFrom(t) \/ CopyTo(t) \/ Check(t)
  \/ SaveStatistics(t)

HarnessStep ==
  \/ Prepare
  \/ BenchHarnessStep /\ UNCHANGED <<bagVars, added, locals, C>>

Next == HarnessStep \/ \E t \in Threads : Step(t)

Spec == Init /\ [][Next]_vars

\* The operating system runs every thread, and the sleep of the bench ends.
FairSpec ==
  Spec /\ WF_vars(HarnessStep) /\ \A t \in Threads : WF_vars(Step(t))

-----------------------------------------------------------------------------
\* When an implementation is reported A*B has been added to every block once
\* more: no block was lost in the bag, inserted twice, overwritten or left
\* from the implementation before, and the counters add up.
MultipliedOnce ==
  harness = "report" =>
    /\ \A b \in Blocks : C[b] = impl
    /\ BagIsEmpty
    /\ total.insert = total.remove

\* A thread stops working only when there is no block left and none to come,
\* although it finds the bag empty before it reads added and although the bag
\* may miss items ("If all collections were linearizable only one extra
\* iteration would be needed before exiting", NBLExpGEMM.cpp:230).
LeavesWhenDrained ==
  \A t \in Threads :
    pc[t] \in {"save_inserts", "save_removes", "finish", "end_time", "exit"} =>
      BagIsEmpty /\ \A u \in Started : pc[u] \notin {"start", "spin", "insert"}

\* The bench gets through all implementations, although GEMM does not look at
\* its stop signal: every thread comes to the end.
Terminates == <>(harness = "end")
=============================================================================
