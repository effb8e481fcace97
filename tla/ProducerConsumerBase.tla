------------------------ MODULE ProducerConsumerBase ------------------------
(***************************************************************************)
(* NBLExpProducerConsumerBase: what the producer/consumer experiments      *)
(* share, namely the bag, the operations on it with their counters, the    *)
(* addition of a thread's counters to the object's, and the test bench     *)
(* (TestBench) that runs them.                                             *)
(*                                                                         *)
(* The bag is one of thirteen implementations.  The queues are             *)
(* linearizable (AtomicQueue); of the others the experiments only assume   *)
(* that try_remove_any may now and then miss an item that is there.        *)
(***************************************************************************)
EXTENDS TestBench, Counting, FiniteSetsExt

CONSTANTS
  MaxCPUS,    \* MAX_CPUS: the most threads SetNrThreads counts
  Items,      \* what may be put in the bag
  MaxMisses   \* how often try_remove_any may miss an item, for each thread

ASSUME BaseAssumption ==
  /\ MaxCPUS \in Nat \ {0}
  /\ IsFiniteSet(Items)
  /\ MaxMisses \in Nat

VARIABLES
  bag,        \* bag[i]: how many times item i is in the bag
  misses,     \* misses[t]: how often the bag missed an item for thread t
  count,      \* count[t]: the local countInsert and countOkTryRemove of t
  total,      \* the same counters of the object
  NR_CPUS     \* the number of threads that the object knows of

bagVars == <<bag, misses, count, total, NR_CPUS>>
baseVars == <<bench, bagVars>>

Goto(t, there) == pc' = [pc EXCEPT ![t] = there]

NoCount == [insert |-> 0, remove |-> 0]

\* SetNrThreads, which perform_experiment calls first.  (countEmptyTryRemove,
\* which no property is about, is left out.)
BaseInit ==
  /\ BenchInit
  /\ NR_CPUS = Min({nrThreads, MaxCPUS})
  /\ bag = [i \in Items |-> 0]
  /\ misses = [t \in Threads |-> 0]
  /\ count = [t \in Threads |-> NoCount]
  /\ total = NoCount

\* InitImplementationNr makes a new bag and resets the object's counters; the
\* threads to come start with theirs at 0.
BasePrepare ==
  /\ BenchPrepare
  /\ bag' = [i \in Items |-> 0]
  /\ misses' = [t \in Threads |-> 0]
  /\ count' = [t \in Threads |-> NoCount]
  /\ total' = NoCount
  /\ UNCHANGED NR_CPUS

BagIsEmpty == \A i \in Items : bag[i] = 0

-----------------------------------------------------------------------------
\* BagInsert and BagTryRemove; counted tells whether with the counters of the
\* statistics or with dummies.
Insert(t, i, counted) ==
  /\ bag' = [bag EXCEPT ![i] = @ + 1]
  /\ count' = IF counted THEN [count EXCEPT ![t].insert = @ + 1] ELSE count
  /\ UNCHANGED <<bench, misses, total, NR_CPUS>>

TryRemove(t, i, counted) ==
  /\ bag[i] > 0
  /\ bag' = [bag EXCEPT ![i] = @ - 1]
  /\ count' = IF counted THEN [count EXCEPT ![t].remove = @ + 1] ELSE count
  /\ UNCHANGED <<bench, misses, total, NR_CPUS>>

TryRemoveFails(t) ==
  /\ \/ BagIsEmpty /\ UNCHANGED misses
     \/ /\ ~BagIsEmpty
        /\ misses[t] < MaxMisses
        /\ misses' = [misses EXCEPT ![t] = @ + 1]
  /\ UNCHANGED <<bench, bag, count, total, NR_CPUS>>

-----------------------------------------------------------------------------
\* SaveThreadStatistics: a fetch-and-add for each counter.
SaveInserts(t, here, there) ==
  /\ pc[t] = here
  /\ total' = [total EXCEPT !.insert = @ + count[t].insert]
  /\ Goto(t, there)
  /\ UNCHANGED <<bench, bag, misses, count, NR_CPUS>>

SaveRemoves(t, here, there) ==
  /\ pc[t] = here
  /\ total' = [total EXCEPT !.remove = @ + count[t].remove]
  /\ Goto(t, there)
  /\ UNCHANGED <<bench, bag, misses, count, NR_CPUS>>
=============================================================================
