------------------------ MODULE DictionaryExperiment ------------------------
(***************************************************************************)
(* NBLExpDictionary and NBLExpWeakDictionary: for each implementation of a *)
(* session in turn, the bench creates a table and fills it, and threads    *)
(* look up and update its keys in the order of random schedules until they *)
(* are told to stop.  An update with the dictionary interface removes a    *)
(* key and, if it was there, puts it back; one with the weak interface,    *)
(* whose operations return nothing, inserts a key and removes it again.    *)
(*                                                                         *)
(* The bench's steps are here only as far as they concern the tables; how  *)
(* it starts and joins threads is in TestBench.                            *)
(***************************************************************************)
EXTENDS Dictionaries, FiniteSetsExt, Sequences

CONSTANTS
  Threads,
  Keys,          \* 1 .. KEY_SPACE
  InitialKeys,   \* the sets of keys initialState may hold
  Sessions,      \* the active_implementations, of both interfaces
  OpsBound       \* bound: the inserts and removes counted for a table

ASSUME DictionaryAssumption ==
  /\ IsFiniteSet(Threads) /\ IsFiniteSet(Keys)
  /\ InitialKeys \subseteq SUBSET Keys
  /\ Sessions \subseteq Seq(Nat)

VARIABLES
  weak,          \* whether this is NBLExpWeakDictionary
  session,       \* the implementations still to be run, the current one first
  table,         \* table[nr]: "unset", "live" or "deleted"
  initial,       \* initialState
  dict,          \* the keys in the current table
  harness,       \* where perform_experiment is
  mainCounter,
  updating,      \* updating[t]
  key,           \* key[t]: the key t is at in its schedule
  count,         \* count[t]: its countInsert, countOkTryRemove or countRemove
  total,         \* the same counters of the object
  pc

bench == <<weak, session, table, initial, harness>>
vars == <<bench, dict, mainCounter, updating, key, count, total, pc>>

NoCount == [insert |-> 0, remove |-> 0]

nr == Head(session)

Goto(t, there) == pc' = [pc EXCEPT ![t] = there]

\* CreateScenario.  The pointers to tables are not initialised.
Init ==
  /\ weak \in BOOLEAN
  /\ session \in Sessions
  /\ table = [n \in Implementations \cup {WeakTable} |-> "unset"]
  /\ initial \in InitialKeys
  /\ dict = {}
  /\ harness = "init"
  /\ mainCounter = 1
  /\ updating = [t \in Threads |-> FALSE]
  /\ key \in [Threads -> Keys]
  /\ count = [t \in Threads |-> NoCount]
  /\ total = NoCount
  /\ pc = [t \in Threads |-> "none"]

-----------------------------------------------------------------------------
\* perform_experiment

\* A new table with the initial keys, and no counts.
NewTable(n) ==
  /\ harness = "init"
  /\ session /= <<>>
  /\ table' = [table EXCEPT ![n] = "live"]
  /\ dict' = initial
  /\ mainCounter' = 1
  /\ total' = NoCount
  /\ harness' = "start"
  /\ UNCHANGED <<weak, session, initial, updating, key, count, pc>>

InitImplementationNr == NewTable(nr) /\ ~weak /\ nr \in Implementations

WeakInitImplementationNr ==
  NewTable(WeakTable) /\ weak /\ nr \in Implementations

\* Number 0 ends the program; a number there is no case for leaves pointers
\* unset, and the program dies of the first use.
NoImplementationNr ==
  /\ harness = "init"
  /\ session /= <<>>
  /\ nr \notin Implementations
  /\ harness' = "died"
  /\ UNCHANGED <<weak, session, table, initial, dict, mainCounter, updating,
                 key, count, total, pc>>

\* go = 1: each thread has its handle and is at the start of its schedule.
Start ==
  /\ harness = "start"
  /\ updating' = [t \in Threads |-> FALSE]
  /\ count' = [t \in Threads |-> NoCount]
  /\ key' \in [Threads -> Keys]
  /\ pc' = [t \in Threads |-> "loop"]
  /\ harness' = "sleep"
  /\ UNCHANGED <<weak, session, table, initial, dict, mainCounter, total>>

\* The stop signal.
Stop ==
  /\ harness = "sleep"
  /\ mainCounter' = 0
  /\ harness' = "join"
  /\ UNCHANGED <<weak, session, table, initial, dict, updating, key, count,
                 total, pc>>

\* Mutant: the threads are not joined before.
Delete_Unjoined(deleted) ==
  /\ harness = "join"
  /\ table' = [n \in DOMAIN table |-> IF n \in deleted THEN "deleted" ELSE table[n]]
  /\ session' = Tail(session)
  /\ harness' = IF Tail(session) = <<>> THEN "end" ELSE "init"
  /\ UNCHANGED <<weak, initial, dict, mainCounter, updating, key, count, total,
                 pc>>

\* Join all threads and delete tables.  To delete one that is not live is
\* undefined: the program may go on or die of it.
Delete(deleted) ==
  /\ harness = "join"
  /\ \A t \in Threads : pc[t] = "done"
  /\ table' = [n \in DOMAIN table |-> IF n \in deleted THEN "deleted" ELSE table[n]]
  /\ session' = Tail(session)
  /\ \/ harness' = IF Tail(session) = <<>> THEN "end" ELSE "init"
     \/ /\ \E n \in deleted : table[n] /= "live"
        /\ harness' = "died"
  /\ UNCHANGED <<weak, initial, dict, mainCounter, updating, key, count, total,
                 pc>>

DeInitImplementationNr == ~weak /\ Delete(DeletedBy(nr))

WeakDeInitImplementationNr == weak /\ Delete({WeakTable})

-----------------------------------------------------------------------------
Counted == MapThenSumSet(LAMBDA t : count[t].insert + count[t].remove, Threads)

\* while (mainCounter)
Loop(t) ==
  /\ pc[t] = "loop"
  /\ \/ mainCounter = 0 /\ Goto(t, "save_inserts")
     \/ /\ mainCounter = 1
        /\ Counted < OpsBound
        /\ Goto(t, "operate")
  /\ UNCHANGED <<bench, dict, mainCounter, updating, key, count, total>>

\* i++: go on to a next key of the random schedule.
Advance(t) == \E k \in Keys : key' = [key EXCEPT ![t] = k]

Counts(t, operation) == count' = [count EXCEPT ![t][operation] = @ + 1]

\* The schedule says LOOKUP.  Whether the key is found goes to counters that
\* nothing depends on.
Lookup(t) ==
  /\ pc[t] = "operate"
  /\ ~updating[t]
  /\ Advance(t)
  /\ Goto(t, "loop")
  /\ UNCHANGED <<bench, dict, mainCounter, updating, count, total>>

\* TryRemove removes the key of an update.
TryRemove(t) ==
  LET op == Operations(nr, dict, key[t])
  IN  /\ ~weak
      /\ pc[t] = "operate"
      /\ ~updating[t]
      /\ op.ok
      /\ dict' = op.remove
      /\ Counts(t, "remove")
      /\ updating' = [updating EXCEPT ![t] = TRUE]
      /\ Goto(t, "loop")
      /\ UNCHANGED <<bench, mainCounter, key, total>>

\* Mutant: the key is put back although it was not removed.
TryRemoveNotFound_Ignored(t) ==
  /\ ~weak
  /\ pc[t] = "operate"
  /\ ~updating[t]
  /\ ~Operations(nr, dict, key[t]).ok
  /\ updating' = [updating EXCEPT ![t] = TRUE]
  /\ Goto(t, "loop")
  /\ UNCHANGED <<bench, dict, mainCounter, key, count, total>>

\* TryRemove finds no such key, and the update is over.
TryRemoveNotFound(t) ==
  /\ ~weak
  /\ pc[t] = "operate"
  /\ ~updating[t]
  /\ ~Operations(nr, dict, key[t]).ok
  /\ Advance(t)
  /\ Goto(t, "loop")
  /\ UNCHANGED <<bench, dict, mainCounter, updating, count, total>>

\* The key is put back, and counted even if it was there.
Insert(t) ==
  /\ ~weak
  /\ pc[t] = "operate"
  /\ updating[t]
  /\ dict' = Operations(nr, dict, key[t]).insert
  /\ Counts(t, "insert")
  /\ updating' = [updating EXCEPT ![t] = FALSE]
  /\ Advance(t)
  /\ Goto(t, "loop")
  /\ UNCHANGED <<bench, mainCounter, total>>

\* Mutant: the schedule advances in the middle of an update.
WeakDictionaryInsert_Advances(t) ==
  /\ weak
  /\ pc[t] = "operate"
  /\ ~updating[t]
  /\ dict' = WeakInsert(dict, key[t])
  /\ Counts(t, "insert")
  /\ updating' = [updating EXCEPT ![t] = TRUE]
  /\ Advance(t)
  /\ Goto(t, "loop")
  /\ UNCHANGED <<bench, mainCounter, total>>

\* The two halves of an update with the weak interface.
WeakDictionaryInsert(t) ==
  /\ weak
  /\ pc[t] = "operate"
  /\ ~updating[t]
  /\ dict' = WeakInsert(dict, key[t])
  /\ Counts(t, "insert")
  /\ updating' = [updating EXCEPT ![t] = TRUE]
  /\ Goto(t, "loop")
  /\ UNCHANGED <<bench, mainCounter, key, total>>

WeakDictionaryRemove(t) ==
  /\ weak
  /\ pc[t] = "operate"
  /\ updating[t]
  /\ dict' = WeakRemove(dict, key[t])
  /\ Counts(t, "remove")
  /\ updating' = [updating EXCEPT ![t] = FALSE]
  /\ Advance(t)
  /\ Goto(t, "loop")
  /\ UNCHANGED <<bench, mainCounter, total>>

-----------------------------------------------------------------------------
\* Mutant: the counter is set and not added to.
SaveInserts_Overwrites(t) ==
  /\ pc[t] = "save_inserts"
  /\ total' = [total EXCEPT !.insert = count[t].insert]
  /\ Goto(t, "save_removes")
  /\ UNCHANGED <<bench, dict, mainCounter, updating, key, count>>

\* SaveThreadStatistics: a fetch-and-add for each counter.
SaveInserts(t) ==
  /\ pc[t] = "save_inserts"
  /\ total' = [total EXCEPT !.insert = @ + count[t].insert]
  /\ Goto(t, "save_removes")
  /\ UNCHANGED <<bench, dict, mainCounter, updating, key, count>>

SaveRemoves(t) ==
  /\ pc[t] = "save_removes"
  /\ total' = [total EXCEPT !.remove = @ + count[t].remove]
  /\ Goto(t, "done")
  /\ UNCHANGED <<bench, dict, mainCounter, updating, key, count>>

-----------------------------------------------------------------------------
BenchStep ==
  \/ InitImplementationNr \/ WeakInitImplementationNr \/ NoImplementationNr
  \/ Start \/ Stop
  \/ DeInitImplementationNr \/ WeakDeInitImplementationNr

Step(t) ==
  \/ Loop(t) \/ Lookup(t)
  \/ TryRemove(t) \/ TryRemoveNotFound(t) \/ Insert(t)
  \/ WeakDictionaryInsert(t) \/ WeakDictionaryRemove(t)
  \/ SaveInserts(t) \/ SaveRemoves(t)

Next == BenchStep \/ \E t \in Threads : Step(t)

Spec == Init /\ [][Next]_vars

-----------------------------------------------------------------------------
Running == {t \in Threads : pc[t] \notin {"none", "done"}}
Updating == {t \in Threads : updating[t]}
KeysInUpdate == {key[t] : t \in Updating}

\* The implementation at work tells whether it removed a key.
Exact == ~weak /\ harness \in {"sleep", "join"} /\ nr \notin {CCKHT, BCCKHT}

\* Threads only use a live table, whatever was run and deleted before, and
\* when the session is over no table is left (DeInitImplementationNr).
TablesLive ==
  /\ Running /= {} =>
       session /= <<>> /\ table[IF weak THEN WeakTable ELSE nr] = "live"
  /\ harness = "end" => \A n \in DOMAIN table : table[n] /= "live"

\* With the dictionary interface every initial key is either in the
\* dictionary or held by exactly one thread that will put it back, and there
\* are no other keys: concurrent updates neither lose nor duplicate a key.
KeysConserved ==
  Exact =>
    /\ dict \cap KeysInUpdate = {}
    /\ dict \cup KeysInUpdate = initial
    /\ \A t, u \in Updating : key[t] = key[u] => t = u

\* With the weak interface, where updates of one key may overlap in any way,
\* the dictionary still holds no key but initial ones and those being updated,
\* so that it has at most one more per thread than it began with.
WeakGrowthBounded ==
  weak /\ harness \in {"sleep", "join"} => dict \subseteq initial \cup KeysInUpdate

\* The statistics reported for a dictionary account for its contents: the keys
\* it has lost are the removals that were not followed by an insert, one at
\* most for each thread.
StatisticsAddUp ==
  Exact /\ Running = {} =>
    /\ total.remove - total.insert = Cardinality(initial) - Cardinality(dict)
    /\ total.remove - total.insert \in 0 .. Cardinality(Threads)
=============================================================================
