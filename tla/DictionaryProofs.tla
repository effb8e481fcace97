-------------------------- MODULE DictionaryProofs --------------------------
(***************************************************************************)
(* What holds of the dictionary experiments for any threads, keys, initial *)
(* keys and sequence of implementations, and of the bench that runs them   *)
(* for any command lines.  An option changes the settings one at a time    *)
(* (Effects), so that what a prefix of the command line has set follows by *)
(* induction on its length (UpTo); the induction rests on the numbers      *)
(* being well-founded, and Trace unrolls the fold of process_arguments.    *)
(***************************************************************************)
EXTENDS DictionaryBench, Counting, FiniteSetTheorems, SequenceTheorems,
        WellFoundedInduction, TLAPS

Types ==
  /\ weak \in BOOLEAN
  /\ initial \subseteq Keys
  /\ DOMAIN table = Implementations \cup {WeakTable}
  /\ updating \in [Threads -> BOOLEAN]
  /\ key \in [Threads -> Keys]
  /\ pc \in [Threads -> {"none", "loop", "operate", "save_inserts",
                         "save_removes", "done"}]

Current == IF weak THEN WeakTable ELSE nr

\* Threads run only while the harness waits for them, and all that time one
\* table is live: the one that was made for the current implementation.
Phases ==
  /\ harness \notin {"sleep", "join"} => \A t \in Threads : pc[t] \in {"none", "done"}
  /\ harness \in {"start", "sleep", "join"} =>
       /\ session /= <<>>
       /\ nr \in Implementations
       /\ table[Current] = "live"
       /\ \A n \in DOMAIN table : table[n] = "live" => n = Current
  /\ harness \in {"init", "end"} => \A n \in DOMAIN table : table[n] /= "live"
  /\ harness = "start" => dict = initial

Inserts == [t \in Threads |-> count[t].insert]
Removes == [t \in Threads |-> count[t].remove]
InsertsSaved == {t \in Threads : pc[t] \in {"save_removes", "done"}}
RemovesSaved == {t \in Threads : pc[t] = "done"}

CountTypes ==
  /\ count \in [Threads -> [insert : Nat, remove : Nat]]
  /\ total \in [insert : Nat, remove : Nat]

\* The counters of the object are the sums of those of the threads that have
\* saved theirs.
Saved ==
  /\ harness = "start" => total = NoCount
  /\ harness \in {"sleep", "join"} =>
       /\ \A t \in Threads : pc[t] /= "none"
       /\ total.insert = SumOver(InsertsSaved, Inserts)
       /\ total.remove = SumOver(RemovesSaved, Removes)

\* A thread has counted one removal more than inserts in an update, and
\* otherwise as many.
UpdatesCounted ==
  ~weak /\ harness \in {"sleep", "join"} =>
    /\ \A t \in Updating : Removes[t] = Inserts[t] + 1
    /\ \A t \in Threads \ Updating : Removes[t] = Inserts[t]

IInv ==
  /\ Types
  /\ Phases
  /\ KeysConserved
  /\ WeakGrowthBounded

-----------------------------------------------------------------------------
\* A session starts with values of the right types.
LEMMA TypesInit == Init => Types
  BY DictionaryAssumption DEF Init, Types, DictionaryAssumption

\* Every step keeps the types.
LEMMA TypesStep == Types /\ [Next]_vars => Types'
<1> SUFFICES ASSUME Types, [Next]_vars PROVE Types'
  OBVIOUS
<1> USE DEF Types
<1>1. CASE BenchStep
  BY <1>1 DEF BenchStep, InitImplementationNr, WeakInitImplementationNr,
     NoImplementationNr, NewTable, Start, Stop, DeInitImplementationNr,
     WeakDeInitImplementationNr, Delete
<1>2. ASSUME NEW t \in Threads, Step(t) PROVE Types'
  <2> USE DEF bench, Goto, Advance
  <2>1. CASE Loop(t) BY <2>1 DEF Loop
  <2>2. CASE Lookup(t) BY <2>2 DEF Lookup
  <2>3. CASE TryRemove(t) BY <2>3 DEF TryRemove
  <2>4. CASE TryRemoveNotFound(t) BY <2>4 DEF TryRemoveNotFound
  <2>5. CASE Insert(t) BY <2>5 DEF Insert
  <2>6. CASE WeakDictionaryInsert(t) BY <2>6 DEF WeakDictionaryInsert
  <2>7. CASE WeakDictionaryRemove(t) BY <2>7 DEF WeakDictionaryRemove
  <2>8. CASE SaveInserts(t) BY <2>8 DEF SaveInserts
  <2>9. CASE SaveRemoves(t) BY <2>9 DEF SaveRemoves
  <2> QED
    BY <1>2, <2>1, <2>2, <2>3, <2>4, <2>5, <2>6, <2>7, <2>8, <2>9 DEF Step
<1>3. CASE UNCHANGED vars
  BY <1>3 DEF vars, bench
<1> QED
  BY <1>1, <1>2, <1>3 DEF Next

-----------------------------------------------------------------------------
\* Before the first implementation no thread runs and no table is made.
LEMMA PhasesInit == Init => Phases
  BY DEF Init, Phases

\* A thread's step leaves the bench and its tables alone, and is only taken by
\* a thread that runs.
LEMMA StepFacts ==
  ASSUME Types, NEW t \in Threads, Step(t)
  PROVE  /\ UNCHANGED bench
         /\ pc[t] \notin {"none", "done"}
<1> USE DEF Types
<1>1. CASE Loop(t) BY <1>1 DEF Loop
<1>2. CASE Lookup(t) BY <1>2 DEF Lookup
<1>3. CASE TryRemove(t) BY <1>3 DEF TryRemove
<1>4. CASE TryRemoveNotFound(t) BY <1>4 DEF TryRemoveNotFound
<1>5. CASE Insert(t) BY <1>5 DEF Insert
<1>6. CASE WeakDictionaryInsert(t) BY <1>6 DEF WeakDictionaryInsert
<1>7. CASE WeakDictionaryRemove(t) BY <1>7 DEF WeakDictionaryRemove
<1>8. CASE SaveInserts(t) BY <1>8 DEF SaveInserts
<1>9. CASE SaveRemoves(t) BY <1>9 DEF SaveRemoves
<1> QED
  BY <1>1, <1>2, <1>3, <1>4, <1>5, <1>6, <1>7, <1>8, <1>9 DEF Step

\* Threads run only while the bench runs an implementation, on the table made
\* for it.
LEMMA PhasesStep == Types /\ Phases /\ [Next]_vars => Phases'
<1> SUFFICES ASSUME Types, Phases, [Next]_vars PROVE Phases'
  OBVIOUS
<1> USE DEF Types, Phases, Current, nr
<1>1. CASE InitImplementationNr
  BY <1>1 DEF InitImplementationNr, NewTable
<1>2. CASE WeakInitImplementationNr
  BY <1>2 DEF WeakInitImplementationNr, NewTable
<1>3. CASE NoImplementationNr
  BY <1>3 DEF NoImplementationNr
<1>4. CASE Start
  BY <1>4 DEF Start
<1>5. CASE Stop
  BY <1>5 DEF Stop
<1>6. CASE DeInitImplementationNr
  BY <1>6 DEF DeInitImplementationNr, Delete, DeletedBy
<1>7. CASE WeakDeInitImplementationNr
  BY <1>7 DEF WeakDeInitImplementationNr, Delete
<1>8. ASSUME NEW t \in Threads, Step(t) PROVE Phases'
  <2>1. UNCHANGED bench /\ harness \in {"sleep", "join"}
    BY <1>8, StepFacts
  <2> QED
    BY <2>1 DEF bench
<1>9. CASE UNCHANGED vars
  BY <1>9 DEF vars, bench
<1> QED
  BY <1>1, <1>2, <1>3, <1>4, <1>5, <1>6, <1>7, <1>8, <1>9 DEF Next, BenchStep

-----------------------------------------------------------------------------
\* A dictionary that tells whether it removed a key removed one that was there.
LEMMA OperationsFacts ==
  ASSUME NEW n \in Implementations, NEW D, NEW k
  PROVE  /\ Operations(n, D, k).insert = D \cup {k}
         /\ Operations(n, D, k).remove = D \ {k}
         /\ n \notin {CCKHT, BCCKHT} => (Operations(n, D, k).ok <=> k \in D)
<1> USE DEF TBB, CBTree, CCKHT, BCCKHT, HSHTs
<1>1. Operations(n, D, k) \in {TBBAndETL(D, k), Cuckoo(D, k), Hopscotch(D, k)}
  BY DEF Operations, Implementations
<1>2. n \notin {CCKHT, BCCKHT} =>
        Operations(n, D, k) \in {TBBAndETL(D, k), Hopscotch(D, k)}
  BY DEF Operations, Implementations
<1>3. TBBAndETL(D, k).insert = D \cup {k} /\ TBBAndETL(D, k).remove = D \ {k}
  BY DEF TBBAndETL
<1>4. Cuckoo(D, k).insert = D \cup {k} /\ Cuckoo(D, k).remove = D \ {k}
  BY DEF Cuckoo
<1>5. Hopscotch(D, k).insert = D \cup {k} /\ Hopscotch(D, k).remove = D \ {k}
  BY DEF Hopscotch
<1>6. TBBAndETL(D, k).ok <=> k \in D
  BY DEF TBBAndETL
<1>7. Hopscotch(D, k).ok <=> k \in D
  BY DEF Hopscotch
<1> QED
  BY <1>1, <1>2, <1>3, <1>4, <1>5, <1>6, <1>7

\* A thread that is not in an update holds no key.
LEMMA KeysConservedInit == Init => KeysConserved
  BY DEF Init, KeysConserved, Exact

\* A step moves at most one key between the dictionary and the keys in update.
LEMMA KeysConservedStep == IInv /\ [Next]_vars => KeysConserved'
<1> SUFFICES ASSUME IInv, [Next]_vars, Exact' PROVE KeysConserved'
  BY DEF KeysConserved
<1> USE DEF IInv, Types
<1> DEFINE Kept == \A t \in Threads :
                     /\ updating'[t] = updating[t]
                     /\ updating[t] => key'[t] = key[t]
<1>1. ASSUME Exact, Kept, dict' = dict, initial' = initial PROVE KeysConserved'
  <2>1. Updating' = Updating
    BY <1>1 DEF Updating
  <2>2. KeysInUpdate' = KeysInUpdate
    BY <1>1, <2>1 DEF KeysInUpdate, Updating
  <2> QED
    BY <1>1, <2>1, <2>2 DEF KeysConserved, Updating
<1>2. CASE BenchStep
  <2>1. CASE Start
    <3>1. Updating' = {} /\ dict' = initial'
      BY <2>1 DEF Start, Updating, Phases
    <3> QED
      BY <3>1 DEF KeysConserved, KeysInUpdate
  <2>2. CASE Stop
    BY <1>1, <2>2 DEF Stop, Exact, nr
  <2>3. CASE ~(Start \/ Stop)
    BY <1>2, <2>3 DEF BenchStep, InitImplementationNr, WeakInitImplementationNr,
       NoImplementationNr, NewTable, DeInitImplementationNr,
       WeakDeInitImplementationNr, Delete, Exact
  <2> QED
    BY <2>1, <2>2, <2>3
<1>3. ASSUME NEW t \in Threads, Step(t) PROVE KeysConserved'
  <2>1. UNCHANGED bench
    BY <1>3, StepFacts
  <2>2. Exact /\ initial' = initial /\ nr \in Implementations
    BY <2>1 DEF bench, Exact, Phases, nr
  <2>3. KeysConserved
    OBVIOUS
  <2>4. ~weak /\ nr \notin {CCKHT, BCCKHT}
    BY <2>2 DEF Exact
  <2>5. CASE TryRemove(t)
    <3>1. key[t] \in dict /\ dict' = dict \ {key[t]} /\ key' = key
      BY <2>2, <2>4, <2>5, OperationsFacts DEF TryRemove
    <3>2. Updating' = Updating \cup {t} /\ t \notin Updating
      BY <2>5 DEF TryRemove, Updating
    <3>3. KeysInUpdate' = KeysInUpdate \cup {key[t]}
      BY <3>1, <3>2 DEF KeysInUpdate
    <3>4. key[t] \notin KeysInUpdate
      BY <2>2, <3>1 DEF KeysConserved
    <3>5. \A u \in Updating : key[u] /= key[t]
      BY <3>4 DEF KeysInUpdate
    <3> QED
      BY <2>2, <2>3, <3>1, <3>2, <3>3, <3>4, <3>5 DEF KeysConserved
  <2>6. CASE Insert(t)
    <3>1. dict' = dict \cup {key[t]}
      BY <2>2, <2>6, OperationsFacts DEF Insert
    <3>2. t \in Updating /\ Updating' = Updating \ {t}
      BY <2>6 DEF Insert, Updating
    <3>3. \A u \in Updating' : key'[u] = key[u] /\ key[u] /= key[t]
      BY <2>2, <2>3, <2>6, <3>2 DEF Insert, Advance, KeysConserved, Updating
    <3>4. KeysInUpdate' = KeysInUpdate \ {key[t]}
      BY <3>2, <3>3 DEF KeysInUpdate
    <3>5. key[t] \in KeysInUpdate
      BY <3>2 DEF KeysInUpdate
    <3> QED
      BY <2>2, <2>3, <3>1, <3>2, <3>3, <3>4, <3>5 DEF KeysConserved
  <2>7. CASE ~(TryRemove(t) \/ Insert(t))
    <3>1. Kept /\ dict' = dict
      BY <1>3, <2>4, <2>7 DEF Step, Loop, Lookup, TryRemoveNotFound,
         WeakDictionaryInsert, WeakDictionaryRemove, SaveInserts, SaveRemoves,
         Advance
    <3> QED
      BY <1>1, <2>2, <3>1
  <2> QED
    BY <2>5, <2>6, <2>7
<1>4. CASE UNCHANGED vars
  BY <1>1, <1>4 DEF vars, bench, Exact, nr
<1> QED
  BY <1>2, <1>3, <1>4 DEF Next

-----------------------------------------------------------------------------
\* No implementation runs at first, so there is nothing to bound.
LEMMA WeakGrowthBoundedInit == Init => WeakGrowthBounded
  BY DEF Init, WeakGrowthBounded

\* A weak insert or removal changes the dictionary by a key in update only.
LEMMA WeakGrowthBoundedStep == IInv /\ [Next]_vars => WeakGrowthBounded'
<1> SUFFICES ASSUME IInv, [Next]_vars, weak', harness' \in {"sleep", "join"}
             PROVE  (dict \subseteq initial \cup KeysInUpdate)'
  BY DEF WeakGrowthBounded
<1> USE DEF IInv, Types
<1>1. CASE BenchStep
  <2>1. CASE Start
    BY <2>1 DEF Start, Phases
  <2>2. CASE Stop
    BY <2>2 DEF Stop, WeakGrowthBounded, KeysInUpdate, Updating
  <2> QED
    BY <1>1, <2>1, <2>2 DEF BenchStep, InitImplementationNr,
       WeakInitImplementationNr, NoImplementationNr, NewTable,
       DeInitImplementationNr, WeakDeInitImplementationNr, Delete
<1>2. ASSUME NEW t \in Threads, Step(t)
      PROVE  (dict \subseteq initial \cup KeysInUpdate)'
  <2>1. weak /\ initial' = initial /\ dict \subseteq initial \cup KeysInUpdate
    BY <1>2, StepFacts DEF bench, WeakGrowthBounded
  <2>2. CASE WeakDictionaryInsert(t)
    <3>1. Updating' = Updating \cup {t} /\ key' = key
      BY <2>2 DEF WeakDictionaryInsert, Updating
    <3>2. KeysInUpdate' = KeysInUpdate \cup {key[t]}
      BY <3>1 DEF KeysInUpdate
    <3> QED
      BY <2>1, <2>2, <3>2 DEF WeakDictionaryInsert, WeakInsert
  <2>3. CASE WeakDictionaryRemove(t)
    <3>1. \A u \in Updating \ {t} : u \in Updating' /\ key'[u] = key[u]
      BY <2>3 DEF WeakDictionaryRemove, Updating, Advance
    <3>2. KeysInUpdate \ {key[t]} \subseteq KeysInUpdate'
      BY <3>1 DEF KeysInUpdate
    <3> QED
      BY <2>1, <2>3, <3>2 DEF WeakDictionaryRemove, WeakRemove
  <2>4. CASE ~(WeakDictionaryInsert(t) \/ WeakDictionaryRemove(t))
    <3>1. dict' = dict /\ \A u \in Updating : u \in Updating' /\ key'[u] = key[u]
      BY <1>2, <2>1, <2>4 DEF Step, Loop, Lookup, TryRemove, TryRemoveNotFound,
         Insert, SaveInserts, SaveRemoves, Advance, Updating
    <3>2. KeysInUpdate \subseteq KeysInUpdate'
      BY <3>1 DEF KeysInUpdate
    <3> QED
      BY <2>1, <3>1, <3>2
  <2> QED
    BY <2>2, <2>3, <2>4
<1>3. CASE UNCHANGED vars
  BY <1>3 DEF vars, bench, WeakGrowthBounded, KeysInUpdate, Updating
<1> QED
  BY <1>1, <1>2, <1>3 DEF Next

-----------------------------------------------------------------------------
\* The numbers up to n are n numbers.
LEMMA UpToFinite ==
  ASSUME NEW n \in Nat PROVE IsFiniteSet(1 .. n) /\ Cardinality(1 .. n) = n
<1>1. Cardinality(1 .. n) = IF 1 > n THEN 0 ELSE n - 1 + 1
  BY FS_Interval
<1> QED
  BY <1>1, FS_Interval

\* The size of the union of two sets with nothing in common.
LEMMA DisjointUnion ==
  ASSUME NEW S, NEW T, IsFiniteSet(S), IsFiniteSet(T), S \cap T = {}
  PROVE  Cardinality(S \cup T) = Cardinality(S) + Cardinality(T)
<1>1. Cardinality(S \cup T) = Cardinality(S) + Cardinality(T) - Cardinality(S \cap T)
  BY FS_Union
<1>2. Cardinality(S) \in Nat /\ Cardinality(T) \in Nat /\ Cardinality(S \cap T) = 0
  BY FS_CardinalityType, FS_EmptySet
<1> QED
  BY <1>1, <1>2

\* A sum of finitely many numbers is a number.
LEMMA SumType ==
  ASSUME NEW S, IsFiniteSet(S), NEW f, \A x \in S : f[x] \in Nat
  PROVE  IsFiniteSet(Tokens(S, f)) /\ SumOver(S, f) \in Nat
<1> DEFINE of(x) == {x} \X (1 .. f[x])
           g == [x \in S |-> of(x)]
           all == {of(x) : x \in S}
<1>1. g \in Surjection(S, all)
  BY DEF Surjection
<1>2. IsFiniteSet(all)
  BY <1>1, FS_Surjection
<1>3. ASSUME NEW x \in S PROVE IsFiniteSet(of(x))
  <2>1. IsFiniteSet({x})
    BY FS_Singleton
  <2>2. IsFiniteSet(1 .. f[x])
    BY UpToFinite
  <2> QED
    BY <2>1, <2>2, FS_Product
<1>4. IsFiniteSet(UNION all)
  BY <1>2, <1>3, FS_UNION
<1> QED
  BY <1>4, FS_CardinalityType DEF Tokens, SumOver

\* A sum depends on the summands only.
LEMMA SumSame ==
  ASSUME NEW S, NEW f, NEW g, \A x \in S : f[x] = g[x]
  PROVE  SumOver(S, f) = SumOver(S, g)
<1>1. Tokens(S, f) = Tokens(S, g)
  BY DEF Tokens
<1> QED
  BY <1>1 DEF SumOver

\* A sum is that of all but one and the one.
LEMMA SumSplit ==
  ASSUME NEW S, IsFiniteSet(S), NEW f, \A x \in S : f[x] \in Nat, NEW y \in S
  PROVE  SumOver(S, f) = SumOver(S \ {y}, f) + f[y]
<1> DEFINE T == Tokens(S \ {y}, f)
           of == {y} \X (1 .. f[y])
<1>1. Tokens(S, f) = T \cup of
  BY DEF Tokens
<1>2. T \cap of = {}
  BY DEF Tokens
<1>3. IsFiniteSet(1 .. f[y]) /\ Cardinality(1 .. f[y]) = f[y]
  BY UpToFinite
<1>4. IsFiniteSet({y}) /\ Cardinality({y}) = 1
  BY FS_Singleton
<1>5. IsFiniteSet(of) /\ Cardinality(of) = 1 * f[y]
  <2>1. IsFiniteSet(of) /\ Cardinality(of) = Cardinality({y}) * Cardinality(1 .. f[y])
    BY <1>3, <1>4, FS_Product
  <2> QED BY <1>3, <1>4, <2>1
<1>6. Cardinality(of) = f[y]
  BY <1>5
<1>7. IsFiniteSet(T)
  <2>1. IsFiniteSet(S \ {y})
    BY FS_RemoveElement
  <2> QED BY <2>1, SumType
<1> HIDE DEF of, T
<1>8. Cardinality(T \cup of) = Cardinality(T) + Cardinality(of)
  BY <1>2, <1>5, <1>7, DisjointUnion
<1> QED
  BY <1>1, <1>6, <1>8 DEF SumOver, T

\* A sum over one more is that and the one.
LEMMA SumWith ==
  ASSUME NEW S, IsFiniteSet(S), NEW f, NEW y, y \notin S,
         \A x \in S \cup {y} : f[x] \in Nat
  PROVE  SumOver(S \cup {y}, f) = SumOver(S, f) + f[y]
<1>1. IsFiniteSet(S \cup {y})
  BY FS_AddElement
<1>2. SumOver(S \cup {y}, f) = SumOver((S \cup {y}) \ {y}, f) + f[y]
  BY <1>1, SumSplit
<1>3. (S \cup {y}) \ {y} = S
  OBVIOUS
<1> QED
  BY <1>2, <1>3

\* Where one function is more by one than another on a part of a set, and the
\* same on the rest, its sum is more by the size of the part.
LEMMA SumMore ==
  ASSUME NEW S, IsFiniteSet(S), NEW f, NEW g, NEW U \in SUBSET S,
         \A x \in S : f[x] \in Nat,
         \A x \in U : g[x] = f[x] + 1,
         \A x \in S \ U : g[x] = f[x]
  PROVE  SumOver(S, g) = SumOver(S, f) + Cardinality(U)
<1> DEFINE T == Tokens(S, f)
           M == {<<x, f[x] + 1>> : x \in U}
           h == [x \in U |-> <<x, f[x] + 1>>]
<1>1. Tokens(S, g) = T \cup M
  <2>1. ASSUME NEW x \in S PROVE {x} \X (1 .. g[x]) \subseteq T \cup M
    <3>1. CASE x \in U
      <4>1. 1 .. g[x] = (1 .. f[x]) \cup {f[x] + 1}
        BY <3>1
      <4> QED BY <3>1, <4>1 DEF Tokens
    <3>2. CASE x \notin U
      BY <3>2 DEF Tokens
    <3> QED BY <3>1, <3>2
  <2>2. ASSUME NEW x \in S PROVE {x} \X (1 .. f[x]) \subseteq Tokens(S, g)
    <3>1. 1 .. f[x] \subseteq 1 .. g[x]
      <4>1. g[x] \in {f[x], f[x] + 1} /\ f[x] \in Nat
        OBVIOUS
      <4> QED BY <4>1
    <3> QED BY <3>1 DEF Tokens
  <2>3. ASSUME NEW x \in U PROVE <<x, f[x] + 1>> \in Tokens(S, g)
    <3>1. f[x] + 1 \in 1 .. g[x]
      OBVIOUS
    <3> QED BY <3>1 DEF Tokens
  <2>4. Tokens(S, g) \subseteq T \cup M
    BY <2>1 DEF Tokens
  <2>5. T \subseteq Tokens(S, g)
    BY <2>2 DEF Tokens
  <2>6. M \subseteq Tokens(S, g)
    BY <2>3
  <2> QED BY <2>4, <2>5, <2>6
<1>2. T \cap M = {}
  <2>1. ASSUME NEW x \in U PROVE <<x, f[x] + 1>> \notin T
    <3>1. f[x] \in Nat
      OBVIOUS
    <3>2. f[x] + 1 \notin 1 .. f[x]
      BY <3>1
    <3> QED BY <3>2 DEF Tokens
  <2> QED BY <2>1
<1>3. h \in Bijection(U, M)
  BY DEF Bijection, Injection, Surjection, IsInjective
<1>4. IsFiniteSet(U)
  BY FS_Subset
<1>5. IsFiniteSet(M) /\ Cardinality(M) = Cardinality(U)
  BY <1>3, <1>4, FS_Bijection DEF ExistsBijection
<1>6. IsFiniteSet(T)
  BY SumType
<1>7. Cardinality(T \cup M) = Cardinality(T) + Cardinality(M)
  BY <1>2, <1>5, <1>6, DisjointUnion
<1> QED
  BY <1>1, <1>5, <1>7 DEF SumOver

-----------------------------------------------------------------------------
\* The inductive invariant.
THEOREM Invariance == Spec => []IInv
<1>1. Init => IInv
  BY TypesInit, PhasesInit, KeysConservedInit, WeakGrowthBoundedInit DEF IInv
<1>2. IInv /\ [Next]_vars => IInv'
  BY TypesStep, PhasesStep, KeysConservedStep, WeakGrowthBoundedStep DEF IInv
<1> QED
  BY <1>1, <1>2, PTL DEF Spec

\* Concurrent updates of a dictionary that tells whether it removed a key
\* (NBLExpDictionary.cpp:209-221) neither lose nor duplicate keys.
THEOREM KeysAreConserved == Spec => []KeysConserved
<1>1. IInv => KeysConserved
  BY DEF IInv
<1> QED
  BY <1>1, Invariance, PTL

\* Overlapping weak updates (NBLExpWeakDictionary.cpp:209-219) add no key for
\* good but initial ones.
THEOREM WeakGrowthIsBounded == Spec => []WeakGrowthBounded
<1>1. IInv => WeakGrowthBounded
  BY DEF IInv
<1> QED
  BY <1>1, Invariance, PTL

\* Threads only use the table made for them, and every table is deleted in the
\* end, in whatever order implementations follow one another.
THEOREM TablesAreLive == Spec => []TablesLive
<1>1. IInv => TablesLive
  BY DEF IInv, Types, Phases, Current, TablesLive, Running
<1> QED
  BY <1>1, Invariance, PTL

-----------------------------------------------------------------------------
\* The counters are numbers, at first and after every step.
LEMMA CountTypesInit == Init => CountTypes
  BY DEF Init, CountTypes, NoCount

LEMMA CountTypesStep == CountTypes /\ [Next]_vars => CountTypes'
<1> SUFFICES ASSUME CountTypes, [Next]_vars PROVE CountTypes'
  OBVIOUS
<1> USE DEF CountTypes
<1>1. CASE BenchStep
  BY <1>1 DEF BenchStep, InitImplementationNr, WeakInitImplementationNr,
     NoImplementationNr, NewTable, Start, Stop, DeInitImplementationNr,
     WeakDeInitImplementationNr, Delete, NoCount
<1>2. ASSUME NEW t \in Threads, Step(t) PROVE CountTypes'
  <2>1. ASSUME Counts(t, "insert") PROVE count' \in [Threads -> [insert : Nat, remove : Nat]]
    BY <2>1 DEF Counts
  <2>2. ASSUME Counts(t, "remove") PROVE count' \in [Threads -> [insert : Nat, remove : Nat]]
    BY <2>2 DEF Counts
  <2>3. ASSUME total' = total, \/ count' = count
                              \/ Counts(t, "insert")
                              \/ Counts(t, "remove")
        PROVE  CountTypes'
    BY <2>1, <2>2, <2>3
  <2>4. CASE SaveInserts(t) BY <2>4 DEF SaveInserts
  <2>5. CASE SaveRemoves(t) BY <2>5 DEF SaveRemoves
  <2> QED
    BY <1>2, <2>3, <2>4, <2>5 DEF Step, Loop, Lookup, TryRemove,
       TryRemoveNotFound, Insert, WeakDictionaryInsert, WeakDictionaryRemove
<1>3. CASE UNCHANGED vars
  BY <1>3 DEF vars, bench
<1> QED
  BY <1>1, <1>2, <1>3 DEF Next

-----------------------------------------------------------------------------
LEMMA SavedInit == Init => Saved
  BY DEF Init, Saved

\* A sum stays what it is while the threads in it leave their counters alone.
LEMMA SavedSame ==
  ASSUME IInv, Saved, UNCHANGED <<total, bench>>,
         \A t \in Threads : pc'[t] /= "none",
         InsertsSaved' = InsertsSaved, RemovesSaved' = RemovesSaved,
         \A t \in InsertsSaved : count'[t] = count[t]
  PROVE  Saved'
<1>1. \A t \in RemovesSaved : t \in InsertsSaved
  BY DEF InsertsSaved, RemovesSaved
<1>2. \A t \in InsertsSaved : Inserts[t] = Inserts'[t]
  BY DEF Inserts, InsertsSaved
<1>3. \A t \in RemovesSaved : Removes[t] = Removes'[t]
  BY <1>1 DEF Removes, RemovesSaved
<1>4. SumOver(InsertsSaved, Inserts) = SumOver(InsertsSaved, Inserts')
  BY <1>2, SumSame
<1>5. SumOver(RemovesSaved, Removes) = SumOver(RemovesSaved, Removes')
  BY <1>3, SumSame
<1> QED
  BY <1>4, <1>5 DEF Saved, bench

\* A thread adds its counters to the sums when it goes to the threads that are
\* summed over.
LEMMA SavedStep == IInv /\ CountTypes /\ Saved /\ [Next]_vars => Saved'
<1> SUFFICES ASSUME IInv, CountTypes, Saved, [Next]_vars PROVE Saved'
  OBVIOUS
<1> USE DEF IInv
<1> USE DictionaryAssumption DEF DictionaryAssumption
<1>1. CASE Start
  <2>1. InsertsSaved' = {} /\ RemovesSaved' = {}
    BY <1>1 DEF Start, InsertsSaved, RemovesSaved
  <2>2. ASSUME NEW f PROVE SumOver({}, f) = 0
    <3>1. Tokens({}, f) = {}
      BY DEF Tokens
    <3> QED
      BY <3>1, FS_EmptySet DEF SumOver
  <2>3. SumOver({}, Inserts') = 0 /\ SumOver({}, Removes') = 0
    BY <2>2
  <2>4. total'.insert = 0 /\ total'.remove = 0 /\ harness' = "sleep"
    BY <1>1 DEF Start, Saved, NoCount
  <2> QED
    BY <1>1, <2>1, <2>3, <2>4 DEF Start, Saved
<1>2. CASE Stop
  <2>1. InsertsSaved' = InsertsSaved /\ RemovesSaved' = RemovesSaved
    BY <1>2 DEF Stop, InsertsSaved, RemovesSaved
  <2>2. Inserts' = Inserts /\ Removes' = Removes
    BY <1>2 DEF Stop, Inserts, Removes
  <2> QED
    BY <1>2, <2>1, <2>2 DEF Stop, Saved
<1>3. CASE BenchStep /\ ~Start /\ ~Stop
  BY <1>3 DEF BenchStep, InitImplementationNr, WeakInitImplementationNr,
     NoImplementationNr, NewTable, DeInitImplementationNr,
     WeakDeInitImplementationNr, Delete, Saved
<1>4. ASSUME NEW t \in Threads, Step(t) PROVE Saved'
  <2>1. UNCHANGED bench /\ pc[t] \notin {"none", "done"} /\ harness \in {"sleep", "join"}
    BY <1>4, StepFacts DEF Phases
  <2>2. Inserts \in [Threads -> Nat] /\ Removes \in [Threads -> Nat]
    BY DEF Inserts, Removes, CountTypes
  <2>3. CASE SaveInserts(t)
    <3>1. InsertsSaved' = InsertsSaved \cup {t} /\ t \notin InsertsSaved
      BY <2>3 DEF SaveInserts, Goto, InsertsSaved, Types
    <3>2. RemovesSaved' = RemovesSaved
      BY <2>3 DEF SaveInserts, Goto, RemovesSaved, Types
    <3>3. Inserts' = Inserts /\ Removes' = Removes
      BY <2>3 DEF SaveInserts, Inserts, Removes
    <3>4. InsertsSaved \subseteq Threads
      BY DEF InsertsSaved
    <3>5. IsFiniteSet(InsertsSaved)
      BY <3>4, FS_Subset
    <3>6. SumOver(InsertsSaved \cup {t}, Inserts) = SumOver(InsertsSaved, Inserts) + Inserts[t]
      BY <2>2, <3>1, <3>4, <3>5, SumWith
    <3>7. total'.insert = total.insert + Inserts[t] /\ total'.remove = total.remove
      BY <2>3 DEF SaveInserts, Inserts, CountTypes
    <3>8. \A u \in Threads : pc'[u] /= "none"
      BY <2>1, <2>3 DEF SaveInserts, Goto, Types, Saved
    <3> QED
      BY <2>1, <3>1, <3>2, <3>3, <3>6, <3>7, <3>8 DEF Saved, bench
  <2>4. CASE SaveRemoves(t)
    <3>1. RemovesSaved' = RemovesSaved \cup {t} /\ t \notin RemovesSaved
      BY <2>4 DEF SaveRemoves, Goto, RemovesSaved, Types
    <3>2. InsertsSaved' = InsertsSaved
      BY <2>4 DEF SaveRemoves, Goto, InsertsSaved, Types
    <3>3. Inserts' = Inserts /\ Removes' = Removes
      BY <2>4 DEF SaveRemoves, Inserts, Removes
    <3>4. RemovesSaved \subseteq Threads
      BY DEF RemovesSaved
    <3>5. IsFiniteSet(RemovesSaved)
      BY <3>4, FS_Subset
    <3>6. SumOver(RemovesSaved \cup {t}, Removes) = SumOver(RemovesSaved, Removes) + Removes[t]
      BY <2>2, <3>1, <3>4, <3>5, SumWith
    <3>7. total'.remove = total.remove + Removes[t] /\ total'.insert = total.insert
      BY <2>4 DEF SaveRemoves, Removes, CountTypes
    <3>8. \A u \in Threads : pc'[u] /= "none"
      BY <2>1, <2>4 DEF SaveRemoves, Goto, Types, Saved
    <3> QED
      BY <2>1, <3>1, <3>2, <3>3, <3>6, <3>7, <3>8 DEF Saved, bench
  <2>5. CASE ~(SaveInserts(t) \/ SaveRemoves(t))
    <3>1. /\ \E there \in {"operate", "save_inserts", "loop"} :
               pc' = [pc EXCEPT ![t] = there]
          /\ pc[t] \in {"loop", "operate"}
          /\ total' = total
      BY <1>4, <2>5 DEF Step, Loop, Lookup, TryRemove, TryRemoveNotFound, Insert,
         WeakDictionaryInsert, WeakDictionaryRemove, Goto
    <3>2. \A u \in Threads \ {t} : count'[u] = count[u]
      BY <1>4, <2>5 DEF Step, Loop, Lookup, TryRemove, TryRemoveNotFound, Insert,
         WeakDictionaryInsert, WeakDictionaryRemove, Counts, CountTypes
    <3>3. InsertsSaved' = InsertsSaved /\ RemovesSaved' = RemovesSaved
      BY <3>1 DEF InsertsSaved, RemovesSaved, Types
    <3>4. t \notin InsertsSaved /\ InsertsSaved \subseteq Threads
      BY <3>1 DEF InsertsSaved
    <3>5. \A u \in InsertsSaved : count'[u] = count[u]
      BY <3>2, <3>4
    <3>6. \A u \in Threads : pc'[u] /= "none"
      BY <2>1, <3>1 DEF Types, Saved
    <3> QED
      BY <2>1, <3>1, <3>3, <3>5, <3>6, SavedSame
  <2> QED
    BY <2>3, <2>4, <2>5
<1>5. CASE UNCHANGED vars
  <2>1. InsertsSaved' = InsertsSaved /\ RemovesSaved' = RemovesSaved
    BY <1>5 DEF vars, InsertsSaved, RemovesSaved
  <2>2. Inserts' = Inserts /\ Removes' = Removes
    BY <1>5 DEF vars, Inserts, Removes
  <2> QED
    BY <1>5, <2>1, <2>2 DEF vars, bench, Saved
<1> QED
  BY <1>1, <1>2, <1>3, <1>4, <1>5 DEF Next

-----------------------------------------------------------------------------
LEMMA UpdatesCountedInit == Init => UpdatesCounted
  BY DEF Init, UpdatesCounted

\* A removal is counted when an update begins and an insert when it ends.
LEMMA UpdatesCountedStep ==
  IInv /\ CountTypes /\ UpdatesCounted /\ [Next]_vars => UpdatesCounted'
<1> SUFFICES ASSUME IInv, CountTypes, UpdatesCounted, [Next]_vars,
                    ~weak', harness' \in {"sleep", "join"}
             PROVE  /\ \A t \in Updating' : Removes'[t] = Inserts'[t] + 1
                    /\ \A t \in Threads \ Updating' : Removes'[t] = Inserts'[t]
  BY DEF UpdatesCounted
<1> DEFINE Goal == /\ \A t \in Updating' : Removes'[t] = Inserts'[t] + 1
                   /\ \A t \in Threads \ Updating' : Removes'[t] = Inserts'[t]
<1> USE DEF IInv
<1>1. CASE Start
  BY <1>1 DEF Start, Updating, Removes, Inserts, NoCount
<1>2. CASE Stop
  BY <1>2 DEF Stop, Updating, Removes, Inserts, UpdatesCounted
<1>3. CASE BenchStep /\ ~Start /\ ~Stop
  BY <1>3 DEF BenchStep, InitImplementationNr, WeakInitImplementationNr,
     NoImplementationNr, NewTable, DeInitImplementationNr,
     WeakDeInitImplementationNr, Delete
<1>4. ASSUME NEW t \in Threads, Step(t) PROVE Goal
  <2>1. ~weak /\ harness \in {"sleep", "join"}
    BY <1>4, StepFacts DEF bench
  <2>5. Inserts \in [Threads -> Nat] /\ Removes \in [Threads -> Nat]
    BY DEF Inserts, Removes, CountTypes
  <2>2. CASE TryRemove(t)
    <3>1. t \notin Updating /\ Updating' = Updating \cup {t}
      BY <2>2 DEF TryRemove, Updating, Types
    <3>2. Inserts' = Inserts
      BY <2>2 DEF TryRemove, Counts, Inserts, CountTypes
    <3>3. Removes' = [Removes EXCEPT ![t] = Removes[t] + 1]
      BY <2>2 DEF TryRemove, Counts, Removes, CountTypes
    <3> QED
      BY <2>1, <2>5, <3>1, <3>2, <3>3 DEF UpdatesCounted, Updating
  <2>3. CASE Insert(t)
    <3>1. t \in Updating /\ Updating' = Updating \ {t}
      BY <2>3 DEF Insert, Updating, Types
    <3>2. Removes' = Removes
      BY <2>3 DEF Insert, Counts, Removes, CountTypes
    <3>3. Inserts' = [Inserts EXCEPT ![t] = Inserts[t] + 1]
      BY <2>3 DEF Insert, Counts, Inserts, CountTypes
    <3> QED
      BY <2>1, <2>5, <3>1, <3>2, <3>3 DEF UpdatesCounted, Updating
  <2>4. CASE ~(TryRemove(t) \/ Insert(t))
    <3>1. updating' = updating /\ count' = count
      BY <1>4, <2>1, <2>4 DEF Step, Loop, Lookup, TryRemoveNotFound,
         WeakDictionaryInsert, WeakDictionaryRemove, SaveInserts, SaveRemoves
    <3> QED
      BY <2>1, <3>1 DEF UpdatesCounted, Updating, Removes, Inserts
  <2> QED
    BY <2>2, <2>3, <2>4
<1>5. CASE UNCHANGED vars
  BY <1>5 DEF vars, bench, UpdatesCounted, Updating, Removes, Inserts
<1> QED
  BY <1>1, <1>2, <1>3, <1>4, <1>5 DEF Next

-----------------------------------------------------------------------------
\* When no thread runs the difference of the counters is the number of updates
\* that were not finished, and so of keys that were not put back.
LEMMA DifferenceOfCounts ==
  IInv /\ CountTypes /\ Saved /\ UpdatesCounted => StatisticsAddUp
<1> SUFFICES ASSUME IInv, CountTypes, Saved, UpdatesCounted, Exact, Running = {}
             PROVE  /\ total.remove - total.insert = Cardinality(initial) - Cardinality(dict)
                    /\ total.remove - total.insert \in 0 .. Cardinality(Threads)
  BY DEF StatisticsAddUp
<1> DEFINE N == Cardinality(Updating)
<1>1. IsFiniteSet(Threads)
  BY DictionaryAssumption DEF DictionaryAssumption
<1>2. Updating \in SUBSET Threads
  BY DEF Updating
<1>3. IsFiniteSet(Updating) /\ N \in Nat /\ N <= Cardinality(Threads)
  BY <1>1, <1>2, FS_Subset, FS_CardinalityType
<1>4. ~weak /\ harness \in {"sleep", "join"}
  BY DEF Exact
<1>5. \A t \in Threads : pc[t] = "done"
  BY <1>4 DEF Running, Saved
<1>6. InsertsSaved = Threads /\ RemovesSaved = Threads
  BY <1>5 DEF InsertsSaved, RemovesSaved
<1>7. Inserts \in [Threads -> Nat]
  BY DEF Inserts, CountTypes
<1>8. SumOver(Threads, Removes) = SumOver(Threads, Inserts) + N
  <2>1. \A t \in Updating : Removes[t] = Inserts[t] + 1
    BY <1>4 DEF UpdatesCounted
  <2>2. \A t \in Threads \ Updating : Removes[t] = Inserts[t]
    BY <1>4 DEF UpdatesCounted
  <2> HIDE DEF N
  <2> QED
    BY <1>1, <1>2, <1>7, <2>1, <2>2, SumMore DEF N
<1>9. total.remove = total.insert + N
  BY <1>4, <1>6, <1>8 DEF Saved
<1>10. total.remove - total.insert = N
  BY <1>3, <1>9 DEF CountTypes
<1>11. Cardinality(initial) - Cardinality(dict) = N
  <2> DEFINE h == [t \in Updating |-> key[t]]
  <2>1. KeysConserved
    BY DEF IInv
  <2>2. h \in Bijection(Updating, KeysInUpdate)
    BY <2>1 DEF Bijection, Injection, Surjection, IsInjective, KeysConserved, KeysInUpdate
  <2>3. IsFiniteSet(KeysInUpdate) /\ Cardinality(KeysInUpdate) = N
    BY <1>3, <2>2, FS_Bijection DEF ExistsBijection
  <2>4. initial \subseteq Keys
    BY DEF IInv, Types
  <2>5. IsFiniteSet(initial)
    BY <2>4, FS_Subset, DictionaryAssumption DEF DictionaryAssumption
  <2>6. dict \subseteq initial
    BY <2>1 DEF KeysConserved
  <2>7. IsFiniteSet(dict)
    BY <2>5, <2>6, FS_Subset
  <2>8. Cardinality(dict \cup KeysInUpdate) = Cardinality(dict) + Cardinality(KeysInUpdate)
    BY <2>1, <2>3, <2>7, DisjointUnion DEF KeysConserved
  <2>9. Cardinality(initial) = Cardinality(dict) + N
    BY <2>1, <2>3, <2>8 DEF KeysConserved
  <2> QED
    BY <1>3, <2>7, <2>9, FS_CardinalityType
<1> QED
  <2>1. Cardinality(Threads) \in Nat
    BY <1>1, FS_CardinalityType
  <2> HIDE DEF N
  <2> QED
    BY <1>3, <1>10, <1>11, <2>1

\* The counts that are reported for a dictionary that tells whether it removed
\* a key account for its contents, however the threads are stopped in the
\* middle of their updates (NBLExpDictionary.cpp:209-221, 232-250).
THEOREM StatisticsAlwaysAddUp == Spec => []StatisticsAddUp
<1> DEFINE StatInv == CountTypes /\ Saved /\ UpdatesCounted
<1>1. Init => StatInv
  BY CountTypesInit, SavedInit, UpdatesCountedInit
<1>2. IInv /\ StatInv /\ [Next]_vars => StatInv'
  BY CountTypesStep, SavedStep, UpdatesCountedStep
<1>3. IInv /\ StatInv => StatisticsAddUp
  BY DifferenceOfCounts
<1> QED
  BY <1>1, <1>2, <1>3, Invariance, PTL DEF Spec

-----------------------------------------------------------------------------
\* Induction, for a set of numbers.
LEMMA AllNumbers ==
  ASSUME NEW T, 0 \in T, \A k \in Nat : k \in T => k + 1 \in T
  PROVE  Nat \subseteq T
<1> SUFFICES ASSUME Nat \ T /= {} PROVE FALSE
  OBVIOUS
<1>1. PICK k \in Nat \ T : \A j \in Nat \ T : ~(<<j, k>> \in OpToRel(<, Nat))
  <2>1. Nat \ T \subseteq Nat
    OBVIOUS
  <2> QED BY <2>1, NatLessThanWellFounded, WFMin
<1>2. \A j \in Nat \ T : ~(j < k)
  BY <1>1 DEF OpToRel
<1>3. k /= 0 /\ k - 1 \in Nat /\ k - 1 < k
  OBVIOUS
<1>4. k - 1 \in T
  BY <1>2, <1>3
<1>5. (k - 1) + 1 \in T
  BY <1>3, <1>4
<1> QED
  BY <1>3, <1>5

\* A set of numbers with a bound has a greatest one.
LEMMA Greatest ==
  ASSUME NEW n \in Nat, NEW T, T \subseteq 0 .. n, T /= {}
  PROVE  Max(T) \in T /\ \A x \in T : x <= Max(T)
<1> DEFINE below == {n - x : x \in T}
<1>1. below \subseteq Nat /\ below /= {}
  <2>1. \A x \in T : n - x \in Nat
    OBVIOUS
  <2>2. \E x \in T : n - x \in below
    OBVIOUS
  <2> QED BY <2>1, <2>2
<1>2. PICK d \in below : \A e \in below : ~(<<e, d>> \in OpToRel(<, Nat))
  BY <1>1, NatLessThanWellFounded, WFMin
<1>3. PICK m \in T : d = n - m
  OBVIOUS
<1>4. ASSUME NEW x \in T PROVE x <= m
  <2>1. n - x \in below /\ n - x \in Nat /\ n - m \in Nat
    BY <1>1
  <2>2. ~(n - x < n - m)
    BY <1>2, <1>3, <2>1 DEF OpToRel
  <2> QED BY <2>2
<1> QED
  BY <1>4 DEF Max

\* The settings after the first k options.
Unrolls(f, cl, n) ==
  f = [s \in SUBSET (1 .. n) |->
        IF s = {} THEN NewSettings ELSE Process(f[s \ {Max(s)}], cl[Max(s)])]

LEMMA PrefixUnrolls ==
  ASSUME NEW cl, NEW n \in Nat
  PROVE  \E f : Unrolls(f, cl, n)
<1> DEFINE T == {m \in Nat : \E f : Unrolls(f, cl, m)}
<1>1. 0 \in T
  <2>1. SUBSET (1 .. 0) = {{}}
    OBVIOUS
  <2>2. Unrolls([s \in SUBSET (1 .. 0) |-> NewSettings], cl, 0)
    BY <2>1 DEF Unrolls
  <2> QED BY <2>2
<1>2. ASSUME NEW m \in Nat, m \in T PROVE m + 1 \in T
  <2>1. PICK f : Unrolls(f, cl, m)
    BY <1>2
  <2> DEFINE g == [s \in SUBSET (1 .. m + 1) |->
                    IF m + 1 \in s THEN Process(f[s \ {m + 1}], cl[m + 1]) ELSE f[s]]
             h(s) == IF s = {} THEN NewSettings
                               ELSE Process(g[s \ {Max(s)}], cl[Max(s)])
  <2>2. ASSUME NEW s \in SUBSET (1 .. m + 1) PROVE g[s] = h(s)
    <3>1. CASE m + 1 \in s
      <4>1. Max(s) = m + 1
        <5>1. s \subseteq 0 .. m + 1 /\ s /= {} /\ m + 1 \in Nat
          BY <3>1
        <5>2. Max(s) \in s /\ m + 1 <= Max(s)
          BY <3>1, <5>1, Greatest
        <5>3. Max(s) \in 1 .. m + 1
          BY <5>2
        <5> QED BY <5>2, <5>3
      <4>2. s \ {m + 1} \in SUBSET (1 .. m + 1) /\ m + 1 \notin s \ {m + 1}
        OBVIOUS
      <4>3. g[s \ {m + 1}] = f[s \ {m + 1}]
        BY <4>2
      <4> QED BY <3>1, <4>1, <4>3
    <3>2. CASE m + 1 \notin s
      <4>1. s \in SUBSET (1 .. m) /\ g[s] = f[s]
        BY <3>2
      <4>2. f[s] = IF s = {} THEN NewSettings ELSE Process(f[s \ {Max(s)}], cl[Max(s)])
        BY <2>1, <4>1 DEF Unrolls
      <4>3. g[s \ {Max(s)}] = f[s \ {Max(s)}]
        BY <3>2
      <4> QED BY <4>1, <4>2, <4>3
    <3> QED BY <3>1, <3>2
  <2>3. Unrolls(g, cl, m + 1)
    BY <2>2 DEF Unrolls
  <2> QED BY <2>3
<1>3. Nat \subseteq T
  BY <1>1, <1>2, AllNumbers
<1> QED
  BY <1>3

\* The options are processed from first to last.
LEMMA OneByOne ==
  ASSUME NEW cl, NEW n \in Nat, DOMAIN cl = 1 .. n
  PROVE  \E after :
           /\ after[0] = NewSettings
           /\ \A k \in 1 .. n : after[k] = Process(after[k - 1], cl[k])
           /\ process_arguments(cl) = after[n]
<1> DEFINE f == CHOOSE f : Unrolls(f, cl, n)
           after == [k \in 0 .. n |-> f[1 .. k]]
<1>1. process_arguments(cl) = f[1 .. n]
  BY DEF process_arguments, FoldLeft, MapThenFoldSet, Unrolls
<1>2. Unrolls(f, cl, n)
  BY PrefixUnrolls
<1> HIDE DEF f
<1>3. after[0] = NewSettings
  <2>1. 1 .. 0 = {} /\ {} \in SUBSET (1 .. n)
    OBVIOUS
  <2> QED BY <1>2, <2>1 DEF Unrolls
<1>4. ASSUME NEW k \in 1 .. n PROVE after[k] = Process(after[k - 1], cl[k])
  <2>1. /\ 1 .. k \in SUBSET (1 .. n) /\ 1 .. k /= {} /\ 1 .. k \subseteq 0 .. k
        /\ k \in 1 .. k /\ k \in Nat /\ k \in 0 .. n /\ k - 1 \in 0 .. n
    OBVIOUS
  <2>2. Max(1 .. k) \in 1 .. k /\ k <= Max(1 .. k)
    BY <2>1, Greatest
  <2>3. Max(1 .. k) = k /\ (1 .. k) \ {k} = 1 .. k - 1
    BY <2>2
  <2>4. f[1 .. k] = Process(f[(1 .. k) \ {Max(1 .. k)}], cl[Max(1 .. k)])
    BY <1>2, <2>1 DEF Unrolls
  <2>5. after[k] = f[1 .. k] /\ after[k - 1] = f[1 .. k - 1]
    BY <2>1
  <2> QED BY <2>3, <2>4, <2>5
<1>5. after[n] = f[1 .. n]
  OBVIOUS
<1> QED
  BY <1>1, <1>3, <1>4, <1>5

-----------------------------------------------------------------------------
OptionType == [flag : STRING, values : Seq(Int)]

SettingsTypes(s) ==
  /\ DOMAIN s = DOMAIN NewSettings
  /\ s.experiment \in Experiments
  /\ s.implementations \in Seq(Nat)
  /\ s.nrThreads \in Nat \ {0}
  /\ s.pinning \in NONE .. JUMP_SOCKET
  /\ s.exits \in BOOLEAN

\* What the processing of an option can come to.
Outcome(r, s, option, v) ==
  \/ s.exits /\ r = s
  \/ option.flag = "-e" /\ v = <<>> /\ r = s
  \/ option.flag = "-e" /\ v /= <<>> /\ v[1] = 0 /\ r = [s EXCEPT !.experimentNr = 0]
  \/ /\ option.flag = "-e" /\ v /= <<>> /\ v[1] \in Experiments \ {0}
     /\ r = [s EXCEPT !.experimentNr = v[1], !.experiment = v[1],
                      !.parameters = NewParameters(v[1])]
  \/ /\ option.flag = "-i" /\ v[1] \in 0 .. NrImplementations(s.experiment) - 1
     /\ r = [s EXCEPT !.implementations = Append(s.implementations, v[1])]
  \/ /\ option.flag = "-s" /\ Len(v) = 2 /\ v[2] \in Nat
     /\ v[1] \in 0 .. Len(NewObject(s.experiment).values) - 1
     /\ r = [s EXCEPT !.parameters = SetParameter(s.experiment, s.parameters, v[1], v[2])]
  \/ option.flag = "-t" /\ v[1] \in Nat \ {0} /\ r = [s EXCEPT !.nrThreads = v[1]]
  \/ option.flag = "-p" /\ v[1] \in NONE .. JUMP_SOCKET /\ r = [s EXCEPT !.pinning = v[1]]
  \/ /\ option.flag = "-d" /\ v[1] \in Nat \ {0}
     /\ r = [s EXCEPT !.expDuration = Microseconds(v[1])]
  \/ option.flag = "-mf" /\ r = [s EXCEPT !.useMF = TRUE]
  \/ r = Exit(s)

LEMMA ProcessCases ==
  ASSUME NEW s, SettingsTypes(s), NEW option \in OptionType, NEW v, v = option.values
  PROVE  Outcome(Process(s, option), s, option, v)
<1> DEFINE r == Process(s, option)
<1>0. v \in Seq(Int) /\ \A i \in 1 .. Len(v) : v[i] \in Int
  BY DEF OptionType
<1>1. CASE s.exits
  BY <1>1 DEF Process, Outcome
<1>2. CASE ~s.exits /\ option.flag = "-e"
  <2>1. r = IF v = <<>> THEN s ELSE SelectExperiment(s, v[1])
    BY <1>2 DEF Process, Outcome
  <2> HIDE DEF r
  <2> QED BY <1>2, <2>1 DEF SelectExperiment, Outcome, r
<1>3. CASE ~s.exits /\ option.flag = "-i"
  <2>1. r = IF Len(v) = 1 THEN AddImplementation(s, v[1]) ELSE Exit(s)
    BY <1>3 DEF Process, Outcome
  <2> HIDE DEF r
  <2> QED BY <1>3, <2>1 DEF AddImplementation, Outcome, r
<1>4. CASE ~s.exits /\ option.flag = "-s"
  <2>1. r = IF Len(v) = 2 THEN SetAParameter(s, v[1], v[2]) ELSE Exit(s)
    BY <1>4 DEF Process, Outcome
  <2>2. Len(v) = 2 => v[2] \in Int
    BY <1>0
  <2> HIDE DEF r
  <2> QED BY <1>4, <2>1, <2>2 DEF SetAParameter, Outcome, r
<1>5. CASE ~s.exits /\ option.flag \in {"-t", "-p", "-d"}
  <2>1. Len(v) = 1 => v[1] \in Int
    BY <1>0
  <2>2. CASE option.flag = "-t"
    BY <1>5, <2>1, <2>2 DEF Process, Outcome
  <2>3. CASE option.flag = "-p"
    BY <1>5, <2>1, <2>3 DEF Process, Outcome
  <2>4. CASE option.flag = "-d"
    BY <1>5, <2>1, <2>4 DEF Process, Outcome
  <2> QED BY <1>5, <2>2, <2>3, <2>4
<1>6. CASE ~s.exits /\ option.flag \notin {"-e", "-i", "-s", "-t", "-p", "-d"}
  BY <1>6 DEF Process, Outcome
<1> QED
  BY <1>1, <1>2, <1>3, <1>4, <1>5, <1>6 DEF SettingsTypes

Fields == {"experiment", "parameters", "experimentNr", "implementations",
           "nrThreads", "expDuration", "pinning", "useMF", "exits"}

\* Only the fields in F may differ.
SameBut(r, s, F) ==
  /\ DOMAIN r = DOMAIN s
  /\ \A f \in Fields \ F : r[f] = s[f]

\* What an option that is not bad changes.
Effects(r, s, option) ==
  LET v == option.values
  IN  /\ Selects(option) =>
           /\ v[1] \in Experiments
           /\ r.experiment = v[1] /\ r.parameters = NewParameters(v[1])
           /\ SameBut(r, s, {"experiment", "experimentNr", "parameters"})
      /\ option.flag = "-e" /\ ~Selects(option) => SameBut(r, s, {"experimentNr"})
      /\ option.flag = "-i" =>
           /\ v[1] \in 0 .. NrImplementations(s.experiment) - 1
           /\ r.implementations = Append(s.implementations, v[1])
           /\ SameBut(r, s, {"implementations"})
      /\ option.flag = "-s" =>
           /\ Len(v) = 2 /\ v[2] \in Nat
           /\ v[1] \in 0 .. Len(NewObject(s.experiment).values) - 1
           /\ r.parameters = SetParameter(s.experiment, s.parameters, v[1], v[2])
           /\ SameBut(r, s, {"parameters"})
      /\ option.flag = "-d" =>
           /\ v[1] \in Nat \ {0} /\ r.expDuration = Microseconds(v[1])
           /\ SameBut(r, s, {"expDuration"})
      /\ option.flag \notin {"-e", "-i", "-s", "-d"} =>
           SameBut(r, s, {"nrThreads", "pinning", "useMF"})

\* Whatever the option, the settings keep their types, and once an option was
\* bad the program exits.
LEMMA ProcessEffects ==
  ASSUME NEW s, SettingsTypes(s), NEW option \in OptionType, NEW r, r = Process(s, option)
  PROVE  /\ SettingsTypes(r)
         /\ ~r.exits => ~s.exits /\ Effects(r, s, option)
<1>1. PICK v : v = option.values
  OBVIOUS
<1>2. DOMAIN s = Fields
  BY DEF SettingsTypes, NewSettings, Fields
<1>3. CASE s.exits /\ r = s
  BY <1>3
<1>4. CASE r = Exit(s)
  <2>1. DOMAIN r = Fields /\ r.exits /\ \A f \in Fields \ {"exits"} : r[f] = s[f]
    BY <1>2, <1>4 DEF Exit, Fields
  <2>2. SettingsTypes(r)
    BY <2>1, <1>2 DEF SettingsTypes, Fields
  <2> QED BY <2>1, <2>2
<1>5. CASE option.flag = "-e" /\ v = <<>> /\ r = s
  <2>1. SameBut(r, s, {"experimentNr"})
    BY <1>5 DEF SameBut
  <2> QED BY <1>1, <1>5, <2>1 DEF Selects, Effects
<1>6. CASE option.flag = "-e" /\ v /= <<>> /\ v[1] = 0 /\ r = [s EXCEPT !.experimentNr = 0]
  <2>1. SameBut(r, s, {"experimentNr"})
    BY <1>2, <1>6 DEF SameBut, Fields
  <2>2. SettingsTypes(r) /\ r.exits = s.exits
    BY <1>2, <2>1 DEF SettingsTypes, SameBut, Fields
  <2> QED BY <1>1, <1>6, <2>1, <2>2 DEF Selects, Effects
<1>7. CASE /\ option.flag = "-e" /\ v /= <<>> /\ v[1] \in Experiments \ {0}
           /\ r = [s EXCEPT !.experimentNr = v[1], !.experiment = v[1],
                            !.parameters = NewParameters(v[1])]
  <2>1. /\ SameBut(r, s, {"experiment", "experimentNr", "parameters"})
        /\ r.experiment = v[1] /\ r.parameters = NewParameters(v[1])
    BY <1>2, <1>7 DEF SameBut, Fields
  <2>2. SettingsTypes(r) /\ r.exits = s.exits
    BY <1>2, <1>7, <2>1 DEF SettingsTypes, SameBut, Fields
  <2> QED BY <1>1, <1>7, <2>1, <2>2 DEF Selects, Effects
<1>8. CASE /\ option.flag = "-i" /\ v[1] \in 0 .. NrImplementations(s.experiment) - 1
           /\ r = [s EXCEPT !.implementations = Append(s.implementations, v[1])]
  <2>1. /\ SameBut(r, s, {"implementations"})
        /\ r.implementations = Append(s.implementations, v[1])
    BY <1>2, <1>8 DEF SameBut, Fields
  <2>2. Append(s.implementations, v[1]) \in Seq(Nat)
    BY <1>8, AppendProperties DEF SettingsTypes
  <2>3. SettingsTypes(r) /\ r.exits = s.exits
    BY <1>2, <2>1, <2>2 DEF SettingsTypes, SameBut, Fields
  <2> QED BY <1>1, <1>8, <2>1, <2>3 DEF Selects, Effects
<1>9. CASE /\ option.flag = "-s" /\ Len(v) = 2 /\ v[2] \in Nat
           /\ v[1] \in 0 .. Len(NewObject(s.experiment).values) - 1
           /\ r = [s EXCEPT !.parameters = SetParameter(s.experiment, s.parameters, v[1], v[2])]
  <2>1. /\ SameBut(r, s, {"parameters"})
        /\ r.parameters = SetParameter(s.experiment, s.parameters, v[1], v[2])
    BY <1>2, <1>9 DEF SameBut, Fields
  <2>2. SettingsTypes(r) /\ r.exits = s.exits
    BY <1>2, <2>1 DEF SettingsTypes, SameBut, Fields
  <2> QED BY <1>1, <1>9, <2>1, <2>2 DEF Selects, Effects
<1>10. CASE /\ option.flag = "-d" /\ v[1] \in Nat \ {0}
            /\ r = [s EXCEPT !.expDuration = Microseconds(v[1])]
  <2>1. SameBut(r, s, {"expDuration"}) /\ r.expDuration = Microseconds(v[1])
    BY <1>2, <1>10 DEF SameBut, Fields
  <2>2. SettingsTypes(r) /\ r.exits = s.exits
    BY <1>2, <2>1 DEF SettingsTypes, SameBut, Fields
  <2> QED BY <1>1, <1>10, <2>1, <2>2 DEF Selects, Effects
<1>11. CASE \/ option.flag = "-t" /\ v[1] \in Nat \ {0} /\ r = [s EXCEPT !.nrThreads = v[1]]
            \/ /\ option.flag = "-p" /\ v[1] \in NONE .. JUMP_SOCKET
               /\ r = [s EXCEPT !.pinning = v[1]]
            \/ option.flag = "-mf" /\ r = [s EXCEPT !.useMF = TRUE]
  <2>1. /\ SameBut(r, s, {"nrThreads", "pinning", "useMF"})
        /\ r.nrThreads = s.nrThreads \/ r.nrThreads \in Nat \ {0}
        /\ r.pinning = s.pinning \/ r.pinning \in NONE .. JUMP_SOCKET
    BY <1>2, <1>11 DEF SameBut, Fields
  <2>2. SettingsTypes(r) /\ r.exits = s.exits
    BY <1>2, <2>1 DEF SettingsTypes, SameBut, Fields
  <2> QED BY <1>1, <1>11, <2>1, <2>2 DEF Selects, Effects
<1> QED
  <2>1. Outcome(r, s, option, v)
    BY <1>1, ProcessCases
  <2> QED
    BY <2>1, <1>3, <1>4, <1>5, <1>6, <1>7, <1>8, <1>9, <1>10, <1>11 DEF Outcome

LEMMA NewSettingsTypes == SettingsTypes(NewSettings)
<1>1. <<>> \in Seq(Nat)
  OBVIOUS
<1> QED
  BY <1>1 DEF SettingsTypes, NewSettings, Experiments, ProducerConsumer, NONE, JUMP_SOCKET

LEMMA UpTo ==
  ASSUME NEW n \in Nat, NEW T, 0 \in T, \A k \in 1 .. n : k - 1 \in T => k \in T
  PROVE  \A k \in 0 .. n : k \in T
<1> DEFINE U == {k \in Nat : k <= n => k \in T}
<1>1. 0 \in U
  OBVIOUS
<1>2. ASSUME NEW k \in Nat, k \in U PROVE k + 1 \in U
  <2>1. CASE k + 1 <= n
    <3>1. k + 1 \in 1 .. n /\ (k + 1) - 1 = k /\ k \in T
      BY <1>2, <2>1
    <3> QED BY <3>1
  <2>2. CASE ~(k + 1 <= n)
    BY <2>2
  <2> QED BY <2>1, <2>2
<1>3. Nat \subseteq U
  BY <1>1, <1>2, AllNumbers
<1> QED
  BY <1>3

\* after[k] is what the first k options of a command line without a bad one set.
Trace(after, cl) ==
  /\ after[0] = NewSettings
  /\ \A k \in 0 .. Len(cl) : SettingsTypes(after[k])
  /\ \A k \in 1 .. Len(cl) : Effects(after[k], after[k - 1], cl[k])

LEMMA LineProcessed ==
  ASSUME NEW cl \in Seq(OptionType), ~process_arguments(cl).exits
  PROVE  \E after : Trace(after, cl) /\ process_arguments(cl) = after[Len(cl)]
<1>1. PICK n \in Nat : n = Len(cl) /\ DOMAIN cl = 1 .. n
  OBVIOUS
<1>2. PICK after : /\ after[0] = NewSettings
                   /\ \A k \in 1 .. n : after[k] = Process(after[k - 1], cl[k])
                   /\ process_arguments(cl) = after[n]
  BY <1>1, OneByOne
<1>3. \A k \in 1 .. n : cl[k] \in OptionType
  BY <1>1
<1>4. \A k \in 0 .. n : SettingsTypes(after[k])
  <2> DEFINE T == {k \in 0 .. n : SettingsTypes(after[k])}
  <2>1. 0 \in T
    BY <1>2, NewSettingsTypes
  <2>2. ASSUME NEW k \in 1 .. n, k - 1 \in T PROVE k \in T
    BY <1>2, <1>3, <2>2, ProcessEffects
  <2> HIDE DEF T
  <2>3. \A k \in 0 .. n : k \in T
    BY <2>1, <2>2, UpTo
  <2> QED BY <2>3 DEF T
<1>5. ASSUME NEW k \in 1 .. n
      PROVE  /\ ~after[k].exits => ~after[k - 1].exits
             /\ ~after[k].exits => Effects(after[k], after[k - 1], cl[k])
  <2>1. k - 1 \in 0 .. n
    OBVIOUS
  <2>2. SettingsTypes(after[k - 1])
    BY <1>4, <2>1
  <2> QED BY <1>2, <1>3, <2>2, ProcessEffects
<1>6. \A k \in 0 .. n : ~after[k].exits
  <2> DEFINE T == {k \in 0 .. n : ~after[n - k].exits}
  <2>1. 0 \in T
    BY <1>2
  <2>2. ASSUME NEW k \in 1 .. n, k - 1 \in T PROVE k \in T
    <3>1. /\ n - (k - 1) \in 1 .. n /\ n - k = (n - (k - 1)) - 1
          /\ ~after[n - (k - 1)].exits
      BY <2>2
    <3> QED BY <1>5, <3>1
  <2> HIDE DEF T
  <2>3. \A k \in 0 .. n : k \in T
    BY <2>1, <2>2, UpTo
  <2>4. ASSUME NEW k \in 0 .. n PROVE ~after[k].exits
    <3>1. n - k \in T /\ n - (n - k) = k
      BY <2>3
    <3> QED BY <3>1 DEF T
  <2> QED BY <2>4
<1>7. \A k \in 1 .. n : Effects(after[k], after[k - 1], cl[k])
  <2>1. \A k \in 1 .. n : k \in 0 .. n
    OBVIOUS
  <2> QED BY <1>5, <1>6, <2>1, Zenon
<1>8. Trace(after, cl)
  <2>1. after[0] = NewSettings
    BY <1>2, Zenon
  <2> QED BY <1>1, <1>4, <1>7, <2>1, Zenon DEF Trace
<1> QED
  BY <1>1, <1>2, <1>8, Zenon

-----------------------------------------------------------------------------
\* The last option of a kind.
LEMMA LastOne ==
  ASSUME NEW n \in Nat, NEW S \in SUBSET (1 .. n), NEW k, k = Max({0} \cup S)
  PROVE  /\ k \in 0 .. n
         /\ k = 0 \/ k \in S
         /\ \A j \in S : j <= k
         /\ k = 0 => S = {}
<1>1. {0} \cup S \subseteq 0 .. n /\ {0} \cup S /= {}
  OBVIOUS
<1>2. k \in {0} \cup S /\ \A j \in {0} \cup S : j <= k
  BY <1>1, Greatest
<1> QED
  BY <1>1, <1>2

\* The implementations, if all are named after the experiment is selected.
LEMMA ImplementationsOfExperiment ==
  ASSUME NEW cl \in Seq(OptionType), NEW after, Trace(after, cl), NEW last \in 0 .. Len(cl),
         \A k \in 1 .. Len(cl) : Selects(cl[k]) => k <= last,
         \A k \in 1 .. Len(cl) : cl[k].flag = "-i" => k > last
  PROVE  LET s == after[Len(cl)]
         IN  \A i \in DOMAIN s.implementations :
               s.implementations[i] \in 0 .. NrImplementations(s.experiment) - 1
<1> DEFINE n == Len(cl)
           Exist(s) == \A i \in DOMAIN s.implementations :
                         s.implementations[i] \in 0 .. NrImplementations(s.experiment) - 1
           T == {k \in 0 .. n : /\ Exist(after[k])
                                /\ k <= last => after[k].implementations = <<>>}
<1>1. n \in Nat
  OBVIOUS
<1>2. 0 \in T
  BY DEF Trace, NewSettings
<1>3. ASSUME NEW k \in 1 .. n, k - 1 \in T PROVE k \in T
  <2>1. PICK s, r : s = after[k - 1] /\ r = after[k]
    OBVIOUS
  <2>2. /\ Effects(r, s, cl[k]) /\ SettingsTypes(s) /\ SettingsTypes(r)
        /\ Exist(s) /\ (k - 1 <= last => s.implementations = <<>>)
    <3>1. k - 1 \in 0 .. Len(cl) /\ k \in 0 .. Len(cl) /\ k \in 1 .. Len(cl)
      OBVIOUS
    <3>2. Effects(r, s, cl[k]) /\ SettingsTypes(s) /\ SettingsTypes(r)
      BY <2>1, <3>1, Zenon DEF Trace
    <3>3. Exist(s) /\ (k - 1 <= last => s.implementations = <<>>)
      BY <1>3, <2>1, Zenon
    <3> QED BY <3>2, <3>3
  <2>3. CASE Selects(cl[k])
    <3>1. r.implementations = s.implementations /\ k <= last
      BY <2>2, <2>3 DEF Effects, SameBut, Fields
    <3>2. r.implementations = <<>>
      BY <2>2, <3>1
    <3> QED BY <2>1, <3>2
  <2>4. CASE cl[k].flag = "-i"
    <3>1. PICK t : /\ t \in 0 .. NrImplementations(s.experiment) - 1
                   /\ r.implementations = Append(s.implementations, t)
                   /\ r.experiment = s.experiment
      BY <2>2, <2>4 DEF Effects, SameBut, Fields
    <3>2. s.implementations \in Seq(Nat)
      BY <2>2 DEF SettingsTypes
    <3>3. Exist(r)
      <4> SUFFICES ASSUME NEW i \in DOMAIN r.implementations
                   PROVE  r.implementations[i] \in 0 .. NrImplementations(r.experiment) - 1
        OBVIOUS
      <4>1. i \in DOMAIN s.implementations \/ r.implementations[i] = t
        BY <3>1, <3>2
      <4>2. i \in DOMAIN s.implementations => r.implementations[i] = s.implementations[i]
        BY <3>1, <3>2
      <4> QED BY <2>2, <3>1, <4>1, <4>2
    <3> QED BY <2>1, <2>4, <3>3
  <2>5. CASE ~Selects(cl[k]) /\ cl[k].flag /= "-i"
    <3>1. r.implementations = s.implementations /\ r.experiment = s.experiment
      BY <2>2, <2>5 DEF Effects, SameBut, Fields
    <3> QED BY <2>1, <2>2, <3>1
  <2> QED BY <2>3, <2>4, <2>5
<1> HIDE DEF T
<1>4. \A k \in 0 .. n : k \in T
  BY <1>1, <1>2, <1>3, UpTo
<1>5. n \in T
  BY <1>1, <1>4
<1> QED
  BY <1>5 DEF T

\* An option that sets parameter p of experiment e, and what it sets it to.
IsFor(e, p, option) ==
  /\ option.flag = "-s"
  /\ \/ option.values[1] = p
     \/ e = SpGEMM /\ p = 2 /\ option.values[1] = 1

ValueOf(e, p, v) == IF e \in {Dictionary, WeakDictionary} /\ p = 0 THEN KeySpace(v) ELSE v

LEMMA ParametersOfObjects ==
  ASSUME NEW e \in Experiments
  PROVE  /\ NewParameters(e) \in Seq(Int)
         /\ Len(NewObject(e).values) = Len(NewParameters(e))
         /\ e = SpGEMM => Len(NewParameters(e)) = 3
<1> USE DEF ProducerConsumer, Mandelbrot, GEMM, SpGEMM, Dictionary, WeakDictionary
<1>0. PICK o : o = NewObject(e)
  OBVIOUS
<1>1. CASE e = 0
  <2>1. o = NBLExpProducerConsumer
    BY <1>0, <1>1 DEF NewObject
  <2>2. /\ o.parameters \in Seq(Int) /\ Len(o.values) = Len(o.parameters)
        /\ e = 3 => Len(o.parameters) = 3
    BY <1>1, <2>1 DEF NBLExpProducerConsumer
  <2> QED BY <1>0, <2>2 DEF NewParameters
<1>2. CASE e = 1
  <2>1. o = NBLExpApplicationMandelbrot
    BY <1>0, <1>2 DEF NewObject
  <2>2. /\ o.parameters \in Seq(Int) /\ Len(o.values) = Len(o.parameters)
        /\ e = 3 => Len(o.parameters) = 3
    BY <1>2, <2>1 DEF NBLExpApplicationMandelbrot
  <2> QED BY <1>0, <2>2 DEF NewParameters
<1>3. CASE e = 2
  <2>1. o = NBLExpGEMM
    BY <1>0, <1>3 DEF NewObject
  <2>2. /\ o.parameters \in Seq(Int) /\ Len(o.values) = Len(o.parameters)
        /\ e = 3 => Len(o.parameters) = 3
    BY <1>3, <2>1 DEF NBLExpGEMM
  <2> QED BY <1>0, <2>2 DEF NewParameters
<1>4. CASE e = 3
  <2>1. o = NBLExpSpGEMM
    BY <1>0, <1>4 DEF NewObject
  <2>2. /\ o.parameters \in Seq(Int) /\ Len(o.values) = Len(o.parameters)
        /\ e = 3 => Len(o.parameters) = 3
    BY <1>4, <2>1 DEF NBLExpSpGEMM
  <2> QED BY <1>0, <2>2 DEF NewParameters
<1>5. CASE e = 4
  <2>1. o = NBLExpDictionary
    BY <1>0, <1>5 DEF NewObject
  <2>2. /\ o.parameters \in Seq(Int) /\ Len(o.values) = Len(o.parameters)
        /\ e = 3 => Len(o.parameters) = 3
    BY <1>5, <2>1 DEF NBLExpDictionary
  <2> QED BY <1>0, <2>2 DEF NewParameters
<1>6. CASE e = 5
  <2>1. o = NBLExpWeakDictionary
    BY <1>0, <1>6 DEF NewObject
  <2>2. /\ o.parameters \in Seq(Int) /\ Len(o.values) = Len(o.parameters)
        /\ e = 3 => Len(o.parameters) = 3
    BY <1>6, <2>1 DEF NBLExpWeakDictionary
  <2> QED BY <1>0, <2>2 DEF NewParameters
<1> QED
  BY <1>1, <1>2, <1>3, <1>4, <1>5, <1>6 DEF Experiments

LEMMA Overwritten ==
  ASSUME NEW f, NEW a \in DOMAIN f, NEW x, NEW g, g = [f EXCEPT ![a] = x]
  PROVE  DOMAIN g = DOMAIN f /\ g[a] = x /\ \A b \in DOMAIN f \ {a} : g[b] = f[b]
  OBVIOUS

LEMMA ParameterSet ==
  ASSUME NEW e \in Experiments, NEW old, DOMAIN old = 1 .. Len(NewParameters(e)),
         NEW p \in 0 .. Len(NewParameters(e)) - 1, NEW v,
         NEW new, new = SetParameter(e, old, p, v),
         NEW option, option.flag = "-s", option.values[1] = p
  PROVE  /\ DOMAIN new = DOMAIN old
         /\ \A q \in 0 .. Len(NewParameters(e)) - 1 :
              new[q + 1] = IF IsFor(e, q, option) THEN ValueOf(e, q, v) ELSE old[q + 1]
<1>1. PICK n \in Nat : n = Len(NewParameters(e)) /\ (e = SpGEMM => n = 3)
  <2>1. NewParameters(e) \in Seq(Int) /\ (e = SpGEMM => Len(NewParameters(e)) = 3)
    BY ParametersOfObjects
  <2>2. Len(NewParameters(e)) \in Nat
    BY <2>1
  <2> QED BY <2>1, <2>2
<1>2. CASE e = SpGEMM /\ p = 1
  <2>1. new = [old EXCEPT ![2] = v, ![3] = v]
    BY <1>2 DEF SetParameter
  <2>2. \A q \in 0 .. 2 : IsFor(e, q, option) <=> q \in {1, 2}
    BY <1>2 DEF IsFor
  <2>3. \A q \in 0 .. 2 : ValueOf(e, q, v) = v
    BY <1>2 DEF ValueOf, SpGEMM, Dictionary, WeakDictionary
  <2>4. DOMAIN old = 1 .. 3 /\ n = 3
    BY <1>1, <1>2
  <2>5. PICK one : one = [old EXCEPT ![2] = v]
    OBVIOUS
  <2>6. {1, 2, 3} \subseteq DOMAIN old
    <3>1. {1, 2, 3} \subseteq 1 .. 3
      OBVIOUS
    <3> QED BY <2>4, <3>1, Zenon
  <2>9. DOMAIN one = DOMAIN old /\ one[1] = old[1] /\ one[2] = v
    BY <2>5, <2>6, Overwritten
  <2>7. new = [one EXCEPT ![3] = v]
    BY <2>1, <2>5
  <2>8. DOMAIN new = DOMAIN old /\ new[1] = old[1] /\ new[2] = v /\ new[3] = v
    BY <2>6, <2>7, <2>9, Overwritten
  <2> QED BY <1>1, <2>2, <2>3, <2>4, <2>8
<1>3. CASE ~(e = SpGEMM /\ p = 1)
  <2>1. new = [old EXCEPT ![p + 1] = ValueOf(e, p, v)]
    BY <1>3 DEF SetParameter, ValueOf
  <2>2. \A q \in 0 .. n - 1 : IsFor(e, q, option) <=> q = p
    BY <1>3 DEF IsFor
  <2>3. DOMAIN old = 1 .. n /\ p + 1 \in 1 .. n
    BY <1>1
  <2> QED BY <1>1, <2>1, <2>2, <2>3
<1> QED
  BY <1>2, <1>3

\* Each parameter has the value that the last option for it gave it, unless the
\* experiment was selected after that.
Kept(s, cl, k, p) ==
  \/ /\ s.parameters[p + 1] = NewParameters(s.experiment)[p + 1]
     /\ \A j \in 1 .. k : IsFor(s.experiment, p, cl[j]) => \E i \in j + 1 .. k : Selects(cl[i])
  \/ \E j \in 1 .. k :
       /\ IsFor(s.experiment, p, cl[j])
       /\ cl[j].values[2] \in Nat
       /\ s.parameters[p + 1] = ValueOf(s.experiment, p, cl[j].values[2])
       /\ \A i \in j + 1 .. k : ~IsFor(s.experiment, p, cl[i]) /\ ~Selects(cl[i])

LEMMA KeptOn ==
  ASSUME NEW s, NEW r, NEW cl, NEW k \in Nat, k /= 0, NEW p, Kept(s, cl, k - 1, p),
         r.experiment = s.experiment, r.parameters[p + 1] = s.parameters[p + 1],
         ~IsFor(s.experiment, p, cl[k]), ~Selects(cl[k])
  PROVE  Kept(r, cl, k, p)
<1>1. CASE /\ s.parameters[p + 1] = NewParameters(s.experiment)[p + 1]
           /\ \A j \in 1 .. k - 1 :
                IsFor(s.experiment, p, cl[j]) => \E i \in j + 1 .. k - 1 : Selects(cl[i])
  <2>1. ASSUME NEW j \in 1 .. k, IsFor(s.experiment, p, cl[j])
        PROVE  \E i \in j + 1 .. k : Selects(cl[i])
    <3>1. j /= k /\ j \in 1 .. k - 1
      BY <2>1
    <3> QED BY <1>1, <2>1, <3>1
  <2> QED BY <1>1, <2>1 DEF Kept
<1>2. CASE \E j \in 1 .. k - 1 :
             /\ IsFor(s.experiment, p, cl[j])
             /\ cl[j].values[2] \in Nat
             /\ s.parameters[p + 1] = ValueOf(s.experiment, p, cl[j].values[2])
             /\ \A i \in j + 1 .. k - 1 : ~IsFor(s.experiment, p, cl[i]) /\ ~Selects(cl[i])
  <2>1. PICK j \in 1 .. k - 1 :
             /\ IsFor(s.experiment, p, cl[j])
             /\ cl[j].values[2] \in Nat
             /\ s.parameters[p + 1] = ValueOf(s.experiment, p, cl[j].values[2])
             /\ \A i \in j + 1 .. k - 1 : ~IsFor(s.experiment, p, cl[i]) /\ ~Selects(cl[i])
    BY <1>2
  <2>2. \A i \in j + 1 .. k : i = k \/ i \in j + 1 .. k - 1
    OBVIOUS
  <2>3. \A i \in j + 1 .. k : ~IsFor(s.experiment, p, cl[i]) /\ ~Selects(cl[i])
    BY <2>1, <2>2
  <2>4. j \in 1 .. k
    OBVIOUS
  <2> QED BY <2>1, <2>3, <2>4 DEF Kept
<1> QED
  BY <1>1, <1>2 DEF Kept

LEMMA ParametersOfExperiment ==
  ASSUME NEW cl \in Seq(OptionType), NEW after, Trace(after, cl)
  PROVE  LET s == after[Len(cl)]
         IN  /\ DOMAIN s.parameters = 1 .. Len(NewParameters(s.experiment))
             /\ \A p \in 0 .. Len(NewParameters(s.experiment)) - 1 : Kept(s, cl, Len(cl), p)
<1> DEFINE n == Len(cl)
           Sized(s) == DOMAIN s.parameters = 1 .. Len(NewParameters(s.experiment))
           T == {k \in 0 .. n : /\ Sized(after[k])
                                /\ \A p \in 0 .. Len(NewParameters(after[k].experiment)) - 1 :
                                     Kept(after[k], cl, k, p)}
<1>1. n \in Nat
  OBVIOUS
<1>2. 0 \in T
  <2>1. PICK s : s = after[0]
    OBVIOUS
  <2>2. /\ s.experiment = ProducerConsumer
        /\ s.parameters = NewParameters(ProducerConsumer)
    BY <2>1 DEF Trace, NewSettings
  <2>3. ProducerConsumer \in Experiments
    BY DEF ProducerConsumer, Experiments
  <2>4. Sized(s)
    BY <2>2, <2>3, ParametersOfObjects
  <2>5. \A p : Kept(s, cl, 0, p)
    BY <2>2 DEF Kept
  <2> QED BY <2>1, <2>4, <2>5
<1>3. \A k \in 1 .. n : k \in Nat /\ k /= 0
  BY <1>1
<1>4. ASSUME NEW k \in 1 .. n, k - 1 \in T PROVE k \in T
  <2>1. PICK s, r, e : s = after[k - 1] /\ r = after[k] /\ e = s.experiment
    OBVIOUS
  <2>2. PICK m \in Nat : m = Len(NewParameters(e)) /\ e \in Experiments
    BY <1>4, <2>1, ParametersOfObjects DEF Trace, SettingsTypes
  <2>3. /\ Effects(r, s, cl[k]) /\ r.experiment \in Experiments
        /\ DOMAIN s.parameters = 1 .. m
        /\ \A p \in 0 .. m - 1 : Kept(s, cl, k - 1, p)
    BY <1>4, <2>1, <2>2 DEF Trace, SettingsTypes
  <2>4. CASE Selects(cl[k])
    <3>1. r.parameters = NewParameters(r.experiment)
      BY <2>3, <2>4 DEF Effects
    <3>2. Sized(r)
      BY <2>3, <3>1, ParametersOfObjects
    <3>3. ASSUME NEW p PROVE Kept(r, cl, k, p)
      <4>1. ~IsFor(r.experiment, p, cl[k])
        BY <2>4 DEF Selects, IsFor
      <4>2. ASSUME NEW j \in 1 .. k, IsFor(r.experiment, p, cl[j])
            PROVE  \E i \in j + 1 .. k : Selects(cl[i])
        <5>1. j /= k
          BY <4>1, <4>2
        <5>2. k \in j + 1 .. k
          BY <5>1
        <5> QED BY <2>4, <5>2
      <4> QED BY <3>1, <4>2 DEF Kept
    <3> QED BY <2>1, <3>2, <3>3
  <2>5. CASE ~Selects(cl[k]) /\ cl[k].flag /= "-s"
    <3>1. r.parameters = s.parameters /\ r.experiment = e
      BY <2>1, <2>3, <2>5 DEF Effects, SameBut, Fields
    <3>2. ASSUME NEW p \in 0 .. m - 1 PROVE Kept(r, cl, k, p)
      <4>1. ~IsFor(e, p, cl[k]) /\ Kept(s, cl, k - 1, p)
        BY <2>3, <2>5 DEF IsFor
      <4> QED BY <1>3, <2>1, <2>5, <3>1, <4>1, KeptOn
    <3> QED BY <2>1, <2>2, <2>3, <3>1, <3>2
  <2>6. CASE cl[k].flag = "-s"
    <3> DEFINE v == cl[k].values
    <3>1. /\ v[2] \in Nat /\ v[1] \in 0 .. m - 1
          /\ r.parameters = SetParameter(e, s.parameters, v[1], v[2])
          /\ r.experiment = e
      BY <2>1, <2>2, <2>3, <2>6, ParametersOfObjects DEF Effects, SameBut, Fields
    <3>2. /\ DOMAIN r.parameters = 1 .. m
          /\ \A q \in 0 .. m - 1 :
               r.parameters[q + 1] = IF IsFor(e, q, cl[k]) THEN ValueOf(e, q, v[2])
                                                           ELSE s.parameters[q + 1]
      <4>1. /\ DOMAIN s.parameters = 1 .. Len(NewParameters(e))
            /\ v[1] \in 0 .. Len(NewParameters(e)) - 1
        BY <2>2, <2>3, <3>1
      <4> HIDE DEF v
      <4>2. /\ DOMAIN r.parameters = DOMAIN s.parameters
            /\ \A q \in 0 .. Len(NewParameters(e)) - 1 :
                 r.parameters[q + 1] = IF IsFor(e, q, cl[k]) THEN ValueOf(e, q, v[2])
                                                             ELSE s.parameters[q + 1]
        <5>1. PICK a, b, option, old, new :
                 /\ a = cl[k].values[1] /\ b = cl[k].values[2] /\ option = cl[k]
                 /\ old = s.parameters /\ new = r.parameters
          OBVIOUS
        <5>2. /\ a \in 0 .. Len(NewParameters(e)) - 1
              /\ option.values[1] = a /\ option.flag = "-s"
              /\ DOMAIN old = 1 .. Len(NewParameters(e))
          <6>1. option.values[1] = a /\ option.flag = "-s"
            BY <2>6, <5>1
          <6>2. DOMAIN old = 1 .. Len(NewParameters(e))
            BY <4>1, <5>1
          <6> QED BY <4>1, <5>1, <6>1, <6>2 DEF v
        <5>4. new = SetParameter(e, old, a, b)
          BY <3>1, <5>1, Zenon DEF v
        <5>3. /\ DOMAIN new = DOMAIN old
              /\ \A q \in 0 .. Len(NewParameters(e)) - 1 :
                   new[q + 1] = IF IsFor(e, q, option) THEN ValueOf(e, q, b) ELSE old[q + 1]
          BY <2>2, <5>2, <5>4, ParameterSet
        <5> QED BY <5>1, <5>3 DEF v
      <4> QED BY <2>2, <2>3, <4>2
    <3>3. ~Selects(cl[k])
      BY <2>6 DEF Selects
    <3>4. ASSUME NEW p \in 0 .. m - 1 PROVE Kept(r, cl, k, p)
      <4>1. CASE IsFor(e, p, cl[k])
        <5>1. k \in 1 .. k /\ k + 1 .. k = {}
          OBVIOUS
        <5> QED BY <3>1, <3>2, <4>1, <5>1 DEF Kept
      <4>2. CASE ~IsFor(e, p, cl[k])
        <5>1. r.parameters[p + 1] = s.parameters[p + 1] /\ Kept(s, cl, k - 1, p)
          BY <2>3, <3>2, <4>2
        <5> QED BY <1>3, <2>1, <3>1, <3>3, <4>2, <5>1, KeptOn
      <4> QED BY <4>1, <4>2
    <3> QED BY <2>1, <2>2, <3>1, <3>2, <3>4
  <2> QED BY <2>4, <2>5, <2>6
<1> HIDE DEF T
<1>5. \A k \in 0 .. n : k \in T
  BY <1>1, <1>2, <1>4, UpTo
<1>6. n \in T
  BY <1>1, <1>5
<1> QED
  BY <1>6 DEF T

\* The experiment lasts as long as the last -d says.
LEMMA DurationOfExperiment ==
  ASSUME NEW cl \in Seq(OptionType), NEW after, Trace(after, cl)
  PROVE  LET s == after[Len(cl)]
         IN  \/ s.expDuration = 0 /\ \A j \in 1 .. Len(cl) : cl[j].flag /= "-d"
             \/ \E j \in 1 .. Len(cl) :
                  /\ cl[j].flag = "-d" /\ cl[j].values[1] \in Nat
                  /\ s.expDuration = Microseconds(cl[j].values[1])
                  /\ \A i \in j + 1 .. Len(cl) : cl[i].flag /= "-d"
<1> DEFINE n == Len(cl)
           Lasts(s, k) ==
             \/ s.expDuration = 0 /\ \A j \in 1 .. k : cl[j].flag /= "-d"
             \/ \E j \in 1 .. k :
                  /\ cl[j].flag = "-d" /\ cl[j].values[1] \in Nat
                  /\ s.expDuration = Microseconds(cl[j].values[1])
                  /\ \A i \in j + 1 .. k : cl[i].flag /= "-d"
           T == {k \in 0 .. n : Lasts(after[k], k)}
<1>1. n \in Nat
  OBVIOUS
<1>2. 0 \in T
  BY DEF Trace, NewSettings
<1>3. ASSUME NEW k \in 1 .. n, k - 1 \in T PROVE k \in T
  <2>1. PICK s, r : s = after[k - 1] /\ r = after[k]
    OBVIOUS
  <2>2. Effects(r, s, cl[k]) /\ Lasts(s, k - 1) /\ k \in Nat
    BY <1>1, <1>3, <2>1 DEF Trace
  <2>3. CASE cl[k].flag = "-d"
    <3>1. k \in 1 .. k /\ k + 1 .. k = {}
      OBVIOUS
    <3>2. r.expDuration = Microseconds(cl[k].values[1]) /\ cl[k].values[1] \in Nat
      BY <2>2, <2>3 DEF Effects
    <3>3. Lasts(r, k)
      BY <2>3, <3>1, <3>2
    <3> QED BY <2>1, <3>3
  <2>4. CASE cl[k].flag /= "-d"
    <3>1. r.expDuration = s.expDuration
      BY <2>2, <2>4 DEF Effects, SameBut, Fields, Selects
    <3>2. CASE s.expDuration = 0 /\ \A j \in 1 .. k - 1 : cl[j].flag /= "-d"
      <4>1. \A j \in 1 .. k : j = k \/ j \in 1 .. k - 1
        OBVIOUS
      <4>2. Lasts(r, k)
        BY <2>4, <3>1, <3>2, <4>1
      <4> QED BY <2>1, <4>2
    <3>3. ASSUME NEW j \in 1 .. k - 1, cl[j].flag = "-d", cl[j].values[1] \in Nat,
                 s.expDuration = Microseconds(cl[j].values[1]),
                 \A i \in j + 1 .. k - 1 : cl[i].flag /= "-d"
          PROVE  Lasts(r, k)
      <4>1. j \in 1 .. k /\ \A i \in j + 1 .. k : i = k \/ i \in j + 1 .. k - 1
        OBVIOUS
      <4>2. \A i \in j + 1 .. k : cl[i].flag /= "-d"
        BY <2>4, <3>3, <4>1
      <4> QED BY <3>1, <3>3, <4>1, <4>2
    <3> QED BY <2>1, <2>2, <3>2, <3>3
  <2> QED BY <2>3, <2>4
<1> HIDE DEF T
<1>4. \A k \in 0 .. n : k \in T
  BY <1>1, <1>2, <1>3, UpTo
<1>5. n \in T
  BY <1>1, <1>4
<1> QED
  BY <1>5 DEF T

-----------------------------------------------------------------------------
\* The bench runs with the settings that its command line gives.
LineInv ==
  /\ line \in CommandLines
  /\ settings = process_arguments(line)
  /\ ~settings.exits

LEMMA LineIsTraced ==
  ASSUME LineInv
  PROVE  /\ line \in Seq(OptionType)
         /\ \E after : Trace(after, line) /\ settings = after[Len(line)]
<1>1. line \in Seq(OptionType)
  BY CommandLinesAssumption DEF LineInv, OptionType
<1> QED
  BY <1>1, LineProcessed DEF LineInv

\* The bench runs the experiment that DictionaryExperiment describes.
THEOREM BenchRunsExperiment == MainSpec => Spec
<1>1. MainInit => Init
  BY DEF MainInit
<1>2. [MainNext]_benchVars => [Next]_vars
  BY DEF MainNext, benchVars
<1> QED
  BY <1>1, <1>2, PTL DEF MainSpec, Spec

LEMMA LineInvariance == MainSpec => []LineInv
<1>1. MainInit => LineInv
  BY DEF MainInit, LineInv
<1>2. LineInv /\ [MainNext]_benchVars => LineInv'
  BY DEF LineInv, MainNext, benchVars
<1> QED
  BY <1>1, <1>2, PTL DEF MainSpec

\* What is left of the session was named on the command line.
SessionInv ==
  /\ session \in Seq(Nat)
  /\ \A k \in DOMAIN session :
       \E j \in DOMAIN settings.implementations : session[k] = settings.implementations[j]

LEMMA SessionInit == MainInit => SessionInv
<1> SUFFICES ASSUME MainInit PROVE SessionInv
  OBVIOUS
<1>1. LineInv /\ session = settings.implementations
  BY DEF MainInit, LineInv
<1>2. PICK after : Trace(after, line) /\ settings = after[Len(line)]
  BY <1>1, LineIsTraced
<1>3. Len(line) \in 0 .. Len(line)
  BY <1>1, LineIsTraced
<1>4. settings.implementations \in Seq(Nat)
  BY <1>2, <1>3 DEF Trace, SettingsTypes
<1> QED
  BY <1>1, <1>4 DEF SessionInv

LEMMA SessionStep == IInv /\ SessionInv /\ [MainNext]_benchVars => SessionInv'
<1> SUFFICES ASSUME IInv, SessionInv, [MainNext]_benchVars PROVE SessionInv'
  OBVIOUS
<1>1. settings' = settings
  BY DEF MainNext, benchVars
<1>2. CASE session' = session
  BY <1>1, <1>2 DEF SessionInv
<1>3. CASE \E deleted : Delete(deleted)
  <2>1. session' = Tail(session) /\ session /= <<>> /\ session \in Seq(Nat)
    BY <1>3 DEF Delete, IInv, Phases, SessionInv
  <2>2. session' \in Seq(Nat) /\ Len(session') = Len(session) - 1
    BY <2>1, HeadTailProperties
  <2>3. ASSUME NEW k \in DOMAIN session'
        PROVE  k + 1 \in DOMAIN session /\ session'[k] = session[k + 1]
    BY <2>1, <2>2
  <2> QED BY <1>1, <2>2, <2>3, ZenonT(40) DEF SessionInv
<1>4. session' = session \/ \E deleted : Delete(deleted)
  <2>1. CASE BenchStep
    BY <2>1 DEF BenchStep, InitImplementationNr, WeakInitImplementationNr, NewTable,
                NoImplementationNr, Start, Stop, DeInitImplementationNr,
                WeakDeInitImplementationNr
  <2>2. CASE \E t \in Threads : Step(t)
    BY <2>2, StepFacts DEF IInv, bench
  <2>3. CASE UNCHANGED benchVars
    BY <2>3 DEF benchVars, vars, bench
  <2> QED BY <2>1, <2>2, <2>3 DEF MainNext, Next
<1> QED
  BY <1>2, <1>3, <1>4

\* Every implementation that is run exists (TestBenchCLI.cpp:393), if they are
\* all named after the experiment is selected, because AddImplementation checks
\* each against the experiment of the moment.
THEOREM RunImplementationsExist == MainSpec => []ImplementationsExist
<1>1. MainSpec => []SessionInv
  <2>1. IInv /\ SessionInv /\ [MainNext]_benchVars => SessionInv'
    BY SessionStep
  <2> QED BY <2>1, SessionInit, BenchRunsExperiment, Invariance, PTL DEF MainSpec
<1>2. LineInv /\ SessionInv => ImplementationsExist
  <2> DEFINE last == LastOption(Selects)
  <2> SUFFICES ASSUME LineInv, SessionInv,
                      \A k \in DOMAIN line : line[k].flag = "-i" => k > last,
                      NEW k \in DOMAIN session
               PROVE  session[k] \in 0 .. NrImplementations(settings.experiment) - 1
    BY DEF ImplementationsExist
  <2>1. PICK after : Trace(after, line) /\ settings = after[Len(line)]
    BY LineIsTraced
  <2>2. PICK n \in Nat : n = Len(line) /\ DOMAIN line = 1 .. n /\ line \in Seq(OptionType)
    BY LineIsTraced
  <2>3. last \in 0 .. n /\ \A j \in 1 .. n : Selects(line[j]) => j <= last
    <3> DEFINE S == {j \in DOMAIN line : Selects(line[j])}
    <3>1. S \in SUBSET (1 .. n) /\ last = Max({0} \cup S)
      BY <2>2 DEF LastOption
    <3>2. last \in 0 .. n /\ \A j \in S : j <= last
      <4> HIDE DEF S, last
      <4> QED BY <3>1, LastOne
    <3> QED BY <2>2, <3>2
  <2> HIDE DEF last
  <2>4. \A i \in DOMAIN settings.implementations :
          settings.implementations[i] \in 0 .. NrImplementations(settings.experiment) - 1
    BY <2>1, <2>2, <2>3, ImplementationsOfExperiment
  <2> QED BY <2>4 DEF SessionInv
<1> QED
  BY <1>1, <1>2, LineInvariance, PTL

\* Each parameter of the experiment that runs, except the work unit size that an
\* option for the algorithm of the sparse product has overwritten, and its
\* duration are what the last option for it has set, if there is one and the
\* numbers can be held (NBLExpDictionary.cpp:94, TestBenchCLI.cpp:383).
THEOREM OtherParametersAreAsSet == MainSpec => []OtherParametersAsSet
<1>1. LineInv => OtherParametersAsSet
  <2> SUFFICES ASSUME LineInv PROVE OtherParametersAsSet
    OBVIOUS
  <2>1. PICK after : Trace(after, line) /\ settings = after[Len(line)]
    BY LineIsTraced
  <2>2. PICK n \in Nat : n = Len(line) /\ DOMAIN line = 1 .. n /\ line \in Seq(OptionType)
    BY LineIsTraced
  <2>3. PICK e \in Experiments : e = settings.experiment
    BY <2>1, <2>2 DEF Trace, SettingsTypes
  <2>4. PICK m \in Nat : m = Len(NewParameters(e))
    BY <2>3, ParametersOfObjects
  <2>5. Len(settings.parameters) = m
    BY <2>1, <2>2, <2>3, <2>4, ParametersOfExperiment
  <2>6. \A p \in 0 .. m - 1 : Kept(settings, line, n, p)
    BY <2>1, <2>2, <2>3, <2>4, ParametersOfExperiment
  <2> DEFINE selects == {j \in DOMAIN line : Selects(line[j])}
             last == LastOption(Selects)
             For(p) == {j \in DOMAIN line :
                          /\ line[j].flag = "-s"
                          /\ \/ line[j].values[1] = p
                             \/ e = SpGEMM /\ p = 2 /\ line[j].values[1] = 1}
             lastFor(p) == Max({0} \cup For(p))
             durations == {j \in DOMAIN line : line[j].flag = "-d"}
             lastDuration == Max({0} \cup durations)
             seconds == IF lastDuration = 0 THEN 0 ELSE line[lastDuration].values[1]
  <2>7. last \in 0 .. n /\ (last = 0 \/ last \in selects) /\ \A j \in selects : j <= last
    <3>1. selects \in SUBSET (1 .. n) /\ last = Max({0} \cup selects)
      BY <2>2 DEF LastOption
    <3> HIDE DEF selects, last
    <3> QED BY <3>1, LastOne
  <2>8. ASSUME NEW p \in 0 .. m - 1
        PROVE  IF lastFor(p) <= last
               THEN settings.parameters[p + 1] = NewParameters(e)[p + 1]
               ELSE IF e \in {Dictionary, WeakDictionary} /\ p = 0
               THEN line[lastFor(p)].values[2] < 31 =>
                      settings.parameters[p + 1] = 2 ^ line[lastFor(p)].values[2]
               ELSE settings.parameters[p + 1] = line[lastFor(p)].values[2]
    <3>1. PICK S, k : S = For(p) /\ k = lastFor(p)
      OBVIOUS
    <3>2. S \in SUBSET (1 .. n) /\ k = Max({0} \cup S)
      BY <2>2, <3>1
    <3>3. k \in 0 .. n /\ (k = 0 \/ k \in S) /\ \A j \in S : j <= k
      BY <3>2, LastOne
    <3>4. \A j \in 1 .. n : j \in S <=> IsFor(e, p, line[j])
      BY <2>2, <3>1 DEF IsFor
    <3> HIDE DEF last, lastFor
    <3>5. CASE /\ settings.parameters[p + 1] = NewParameters(e)[p + 1]
               /\ \A j \in 1 .. n : IsFor(e, p, line[j]) => \E i \in j + 1 .. n : Selects(line[i])
      <4>1. k <= last
        <5>1. CASE k = 0
          BY <2>7, <5>1
        <5>2. CASE k \in S
          <6>1. PICK i \in k + 1 .. n : Selects(line[i])
            BY <3>2, <3>4, <3>5, <5>2
          <6>2. i \in 1 .. n /\ k < i
            BY <3>3
          <6> QED BY <2>2, <2>7, <3>3, <6>1, <6>2
        <5> QED BY <3>3, <5>1, <5>2
      <4> QED BY <3>1, <3>5, <4>1
    <3>6. CASE \E j \in 1 .. n :
                 /\ IsFor(e, p, line[j])
                 /\ line[j].values[2] \in Nat
                 /\ settings.parameters[p + 1] = ValueOf(e, p, line[j].values[2])
                 /\ \A i \in j + 1 .. n : ~IsFor(e, p, line[i]) /\ ~Selects(line[i])
      <4>1. PICK j \in 1 .. n :
                 /\ IsFor(e, p, line[j])
                 /\ line[j].values[2] \in Nat
                 /\ settings.parameters[p + 1] = ValueOf(e, p, line[j].values[2])
                 /\ \A i \in j + 1 .. n : ~IsFor(e, p, line[i]) /\ ~Selects(line[i])
        BY <3>6
      <4>2. j \in S /\ j <= k
        BY <3>3, <3>4, <4>1
      <4>3. k = j
        <5>1. k \in S /\ k \in 1 .. n
          BY <3>3, <4>2
        <5>2. ~(k \in j + 1 .. n)
          BY <3>4, <4>1, <5>1
        <5> QED BY <4>2, <5>1, <5>2
      <4>4. ~(k <= last)
        <5>1. ~Selects(line[j])
          BY <4>1 DEF IsFor, Selects
        <5>2. ~(last \in j + 1 .. n)
          BY <2>7, <4>1
        <5>3. last /= j
          BY <2>2, <2>7, <5>1
        <5> QED BY <2>7, <4>3, <5>2, <5>3
      <4>5. PICK v \in Nat : v = line[k].values[2] /\ settings.parameters[p + 1] = ValueOf(e, p, v)
        BY <4>1, <4>3
      <4>6. v < 31 => KeySpace(v) = 2 ^ v
        <5>1. v < 31 => v % 32 = v /\ v /= 31
          OBVIOUS
        <5> QED BY <5>1 DEF KeySpace
      <4> QED BY <3>1, <4>4, <4>5, <4>6 DEF ValueOf
    <3> QED BY <2>3, <2>6, <3>5, <3>6 DEF Kept
  <2>9. seconds * Second < UsecondsRange => settings.expDuration = seconds * Second
    <3>1. PICK S, k : S = durations /\ k = lastDuration
      OBVIOUS
    <3>2. S \in SUBSET (1 .. n) /\ k = Max({0} \cup S)
      BY <2>2, <3>1
    <3>3. k \in 0 .. n /\ (k = 0 \/ k \in S) /\ \A j \in S : j <= k
      BY <3>2, LastOne
    <3>4. \A j \in 1 .. n : j \in S <=> line[j].flag = "-d"
      BY <2>2, <3>1
    <3> HIDE DEF lastDuration
    <3>5. CASE settings.expDuration = 0 /\ \A j \in 1 .. n : line[j].flag /= "-d"
      <4>1. k = 0
        BY <3>2, <3>3, <3>4, <3>5
      <4> QED BY <3>1, <3>5, <4>1 DEF Second
    <3>6. CASE \E j \in 1 .. n :
                 /\ line[j].flag = "-d" /\ line[j].values[1] \in Nat
                 /\ settings.expDuration = Microseconds(line[j].values[1])
                 /\ \A i \in j + 1 .. n : line[i].flag /= "-d"
      <4>1. PICK j \in 1 .. n :
                 /\ line[j].flag = "-d" /\ line[j].values[1] \in Nat
                 /\ settings.expDuration = Microseconds(line[j].values[1])
                 /\ \A i \in j + 1 .. n : line[i].flag /= "-d"
        BY <3>6
      <4>2. k = j
        <5>1. j \in S /\ j <= k
          BY <3>3, <3>4, <4>1
        <5>2. k \in S /\ k \in 1 .. n
          BY <3>3, <5>1
        <5>3. ~(k \in j + 1 .. n)
          BY <3>4, <4>1, <5>2
        <5> QED BY <5>1, <5>2, <5>3
      <4>3. PICK v \in Nat : v = line[k].values[1] /\ settings.expDuration = Microseconds(v)
        BY <4>1, <4>2
      <4>4. seconds = v
        BY <3>1, <4>2, <4>3
      <4>5. v * Second < UsecondsRange => Microseconds(v) = v * Second
        BY DEF Microseconds, Second, UsecondsRange
      <4> HIDE DEF seconds
      <4> QED BY <4>3, <4>4, <4>5
    <3> QED BY <2>1, <2>2, <3>5, <3>6, DurationOfExperiment
  <2>10. ASSUME NEW p \in 0 .. m - 1, ~WorkUnitOverwritten(p) PROVE AsSet(p)
    <3> DEFINE lastSets(q) == LastOption(LAMBDA option : Sets(q, option))
               lastEither == LastOption(LAMBDA option : Sets(2, option) \/ Selects(option))
    <3>1. CASE ~(e = SpGEMM /\ p = 2)
      <4>1. lastFor(p) = lastSets(p)
        BY <3>1 DEF LastOption, Sets
      <4> HIDE DEF last, lastFor, lastSets
      <4> QED BY <2>3, <2>8, <3>1, <4>1 DEF AsSet, last, lastSets
    <3>2. CASE e = SpGEMM /\ p = 2
      <4>1. PICK S1, S2, k, k1, k2, b :
              /\ S1 = {j \in DOMAIN line : Sets(1, line[j])} /\ k1 = lastSets(1)
              /\ S2 = {j \in DOMAIN line : Sets(2, line[j])} /\ k2 = lastSets(2)
              /\ k = lastFor(p) /\ b = lastEither
        OBVIOUS
      <4>2. S1 \in SUBSET (1 .. n) /\ S2 \in SUBSET (1 .. n) /\ selects \in SUBSET (1 .. n)
        BY <2>2, <4>1
      <4>3. k1 = Max({0} \cup S1) /\ k2 = Max({0} \cup S2)
        BY <4>1 DEF LastOption
      <4>4. k = Max({0} \cup (S1 \cup S2))
        <5>1. For(p) = S1 \cup S2
          BY <3>2, <4>1 DEF Sets
        <5> QED BY <4>1, <5>1
      <4>5. b = Max({0} \cup (S2 \cup selects))
        <5>1. S2 \cup selects = {j \in DOMAIN line : Sets(2, line[j]) \/ Selects(line[j])}
          BY <4>1
        <5>2. b = Max({0} \cup {j \in DOMAIN line : Sets(2, line[j]) \/ Selects(line[j])})
          BY <4>1 DEF LastOption
        <5> QED BY <5>1, <5>2
      <4>6. ~(k1 > b)
        <5> HIDE DEF lastEither
        <5>1. ~(lastSets(1) > LastOption(LAMBDA option : Sets(2, option) \/ Selects(option)))
          BY <2>3, <2>10, <3>2 DEF WorkUnitOverwritten
        <5> QED BY <4>1, <5>1 DEF lastEither
      <4>7. k2 \in 0 .. n /\ (k2 = 0 \/ k2 \in S2) /\ \A j \in S2 : j <= k2
        BY <4>2, <4>3, LastOne
      <4>8. k1 \in 0 .. n /\ (k1 = 0 \/ k1 \in S1) /\ \A j \in S1 : j <= k1
        BY <4>2, <4>3, LastOne
      <4>9. k \in 0 .. n /\ (k = 0 \/ k \in S1 \cup S2) /\ \A j \in S1 \cup S2 : j <= k
        <5>1. PICK S \in SUBSET (1 .. n) : S = S1 \cup S2
          BY <4>2
        <5>2. k = Max({0} \cup S)
          BY <4>4, <5>1
        <5>3. k \in 0 .. n /\ (k = 0 \/ k \in S) /\ \A j \in S : j <= k
          BY <5>2, LastOne
        <5> QED BY <5>1, <5>3
      <4>10. b \in 0 .. n /\ (b = 0 \/ b \in S2 \cup selects)
        <5>1. PICK S \in SUBSET (1 .. n) : S = S2 \cup selects
          BY <4>2
        <5>2. b = Max({0} \cup S)
          BY <4>5, <5>1
        <5>3. b \in 0 .. n /\ (b = 0 \/ b \in S) /\ \A j \in S : j <= b
          BY <5>2, LastOne
        <5> QED BY <5>1, <5>3
      <4>11. PICK l \in 0 .. n : l = last /\ \A j \in selects : j <= l
        BY <2>7
      <4> HIDE DEF selects, last, lastFor, lastSets, lastEither
      <4>12. b <= k2 \/ b <= l
        BY <4>7, <4>10, <4>11
      <4>13. (k <= l <=> k2 <= l) /\ (~(k <= l) => k = k2)
        <5>1. k2 <= k
          BY <4>7, <4>9
        <5>2. k <= k1 \/ k <= k2
          BY <4>7, <4>8, <4>9
        <5>3. k1 <= k2 \/ k1 <= l
          BY <4>6, <4>7, <4>8, <4>10, <4>11, <4>12
        <5> QED BY <4>7, <4>8, <4>9, <4>11, <5>1, <5>2, <5>3
      <4>14. (lastFor(p) <= last <=> lastSets(p) <= last)
             /\ (~(lastFor(p) <= last) => lastFor(p) = lastSets(p))
        BY <3>2, <4>1, <4>11, <4>13
      <4> QED BY <2>3, <2>8, <4>14 DEF AsSet, last, lastSets
    <3> QED BY <3>1, <3>2
  <2> HIDE DEF last
  <2>11. \A p \in ParameterNumbers : WorkUnitOverwritten(p) \/ AsSet(p)
    BY <2>5, <2>10 DEF ParameterNumbers
  <2> QED BY <2>9, <2>11, ZenonT(60) DEF OtherParametersAsSet, LastOption
<1> QED
  BY <1>1, LineInvariance, PTL

-----------------------------------------------------------------------------
\* The greater number does not have the smaller quotient.
LEMMA QuotientBelow ==
  ASSUME NEW n \in Nat \ {0}, NEW p \in Int, NEW q \in Int,
         NEW a \in 0 .. n - 1, NEW b \in 0 .. n - 1, n * p + a <= n * q + b
  PROVE  p <= q
<1> SUFFICES ASSUME p >= q + 1 PROVE FALSE
  OBVIOUS
<1>1. n * p >= n * (q + 1) /\ n * (q + 1) = n * q + n
  OBVIOUS
<1>2. n * p \in Int /\ n * q \in Int
  OBVIOUS
<1> QED
  BY <1>1, <1>2

\* A number has one quotient and one remainder.
LEMMA DividedOnce ==
  ASSUME NEW n \in Nat \ {0}, NEW p \in Int, NEW q \in Int,
         NEW a \in 0 .. n - 1, NEW b \in 0 .. n - 1, n * p + a = n * q + b
  PROVE  p = q /\ a = b
<1>1. n * p \in Int /\ n * q \in Int
  OBVIOUS
<1>2. n * p + a <= n * q + b /\ n * q + b <= n * p + a
  BY <1>1
<1>3. p <= q /\ q <= p
  BY <1>2, QuotientBelow
<1>4. p = q
  BY <1>3
<1> QED
  BY <1>1, <1>4

LEMMA Division ==
  ASSUME NEW n \in Nat \ {0}, NEW x \in Nat
  PROVE  /\ x \div n \in Nat /\ x % n \in 0 .. n - 1
         /\ x = n * (x \div n) + (x % n)
  OBVIOUS

LEMMA OnlyDivision ==
  ASSUME NEW n \in Nat \ {0}, NEW q \in Nat, NEW a \in 0 .. n - 1
  PROVE  (n * q + a) % n = a /\ (n * q + a) \div n = q
<1>1. PICK x \in Nat : x = n * q + a
  OBVIOUS
<1>2. PICK p \in Nat, b \in 0 .. n - 1 : p = x \div n /\ b = x % n /\ x = n * p + b
  BY Division
<1>3. p = q /\ b = a
  BY <1>1, <1>2, DividedOnce
<1> QED
  BY <1>1, <1>2, <1>3

LEMMA Remains ==
  ASSUME NEW x \in Nat, NEW y \in Nat, x < y
  PROVE  x % y = x
<1>1. y * 0 + x = x /\ x \in 0 .. y - 1
  OBVIOUS
<1> QED
  BY <1>1, OnlyDivision

\* Where a quotient has a bound.
LEMMA Composed ==
  ASSUME NEW n \in Nat \ {0}, NEW q \in Nat, NEW a \in 0 .. n - 1, NEW l \in Nat
  PROVE  n * q + a \in 0 .. n * l - 1 <=> q < l
<1>1. n * q \in Nat /\ n * l \in Nat
  OBVIOUS
<1>2. ASSUME q < l PROVE n * q + a \in 0 .. n * l - 1
  <2>1. n * (l - q - 1) \in Nat /\ n * l = n * q + n + n * (l - q - 1)
    BY <1>2
  <2> QED BY <1>1, <2>1
<1>3. ASSUME ~(q < l) PROVE n * q + a >= n * l
  <2>1. n * (q - l) \in Nat /\ n * q = n * l + n * (q - l)
    BY <1>3
  <2> QED BY <1>1, <2>1
<1> QED
  BY <1>1, <1>2, <1>3

\* The machine.
LEMMA MachineFacts ==
  \E K \in Nat \ {0} :
    /\ K = PUsPerCore
    /\ {Sockets, CoresPerSocket, TotalCores, TotalPUs} \subseteq Nat \ {0}
    /\ TotalCores = Sockets * CoresPerSocket
    /\ TotalPUs = TotalCores * K /\ TotalPUs = K * TotalCores
    /\ PUsPerSocket = CoresPerSocket => K = 1
<1>1. PICK c \in Nat \ {0}, s \in Nat \ {0}, n \in Nat \ {0} :
         c = CoresPerSocket /\ s = Sockets /\ n = PUsPerSocket /\ n % c = 0
  BY MachineAssumption
<1>2. PICK K \in Nat : K = n \div c /\ n = c * K
  <2>1. n \div c \in Nat /\ n = c * (n \div c) + (n % c)
    BY Division
  <2>2. c * (n \div c) \in Nat
    BY <2>1
  <2> QED BY <1>1, <2>1, <2>2
<1>3. K /= 0
  BY <1>2
<1>4. s * c \in Nat \ {0} /\ s * n \in Nat \ {0}
  OBVIOUS
<1>5. s * n = (s * c) * K /\ s * n = K * (s * c)
  BY <1>2
<1>6. n = c => K = 1
  <2>1. ASSUME n = c PROVE c * 1 + 0 = c * K + 0 /\ 0 \in 0 .. c - 1
    BY <1>2, <2>1
  <2> QED BY <2>1, DividedOnce
<1> QED
  BY <1>1, <1>2, <1>3, <1>4, <1>5, <1>6 DEF TotalCores, TotalPUs, PUsPerCore

\* The threads of a core are as far apart as there are cores.
LEMMA FillsPUs ==
  ASSUME NEW tid \in 0 .. TotalPUs - 1
  PROVE  \E q \in 0 .. TotalCores - 1, r \in 0 .. PUsPerCore - 1 :
           tid = PUsPerCore * q + r /\ pin_thread(tid, FILL_PU) = TotalCores * r + q
<1>1. PICK K \in Nat \ {0}, tc \in Nat \ {0} :
         /\ K = PUsPerCore /\ tc = TotalCores
         /\ TotalPUs = tc * K /\ TotalPUs = K * tc
  BY MachineFacts
<1>2. PICK q \in Nat, r \in 0 .. K - 1 : q = tid \div K /\ r = tid % K /\ tid = K * q + r
  <2>1. tid \in Nat
    OBVIOUS
  <2> QED BY <2>1, Division
<1>3. q < tc
  <2>1. K * q + r \in 0 .. K * tc - 1
    BY <1>1, <1>2
  <2> QED BY <2>1, Composed
<1>4. tc * r + q \in 0 .. tc * K - 1
  <2>1. r \in Nat /\ r < K /\ q \in 0 .. tc - 1
    BY <1>3
  <2> QED BY <2>1, Composed
<1>5. pin_thread(tid, FILL_PU) = (q + r * tc) % (tc * K)
  BY <1>1, <1>2 DEF pin_thread, FILL_PU, FILL_CORE, JUMP_SOCKET
<1>6. q + r * tc = tc * r + q
  OBVIOUS
<1>7. (tc * r + q) % (tc * K) = tc * r + q
  <2>1. PICK x \in Nat, y \in Nat : x = tc * r + q /\ y = tc * K /\ x < y
    BY <1>4
  <2>2. x % y = x
    BY <2>1, Remains
  <2> QED BY <2>1, <2>2
<1>8. pin_thread(tid, FILL_PU) = tc * r + q
  BY <1>5, <1>6, <1>7, Zenon
<1>9. q \in 0 .. tc - 1
  BY <1>3
<1> QED
  BY <1>1, <1>2, <1>8, <1>9, Zenon

\* Thread b of a turn of the sockets goes to socket b, and when all the cores
\* have a thread it starts from the next one.
LEMMA JumpsSockets ==
  ASSUME Sockets = 2 \/ PUsPerSocket = CoresPerSocket,
         NEW tid \in 0 .. TotalPUs - 1
  PROVE  \E q \in 0 .. CoresPerSocket - 1, h \in Nat, b \in 0 .. Sockets - 1 :
           /\ Sockets = 2 \/ h = 0
           /\ tid = Sockets * (CoresPerSocket * h + q) + b
           /\ pin_thread(tid, JUMP_SOCKET) = CoresPerSocket * (2 * h + b) + q
<1>1. PICK K \in Nat \ {0}, c \in Nat \ {0}, s \in Nat \ {0}, tc \in Nat \ {0} :
         /\ K = PUsPerCore /\ c = CoresPerSocket /\ s = Sockets /\ tc = TotalCores
         /\ tc = s * c /\ TotalPUs = tc * K
         /\ s = 2 \/ K = 1
  BY MachineFacts
<1>2. PICK a \in Nat, b \in 0 .. s - 1 : a = tid \div s /\ b = tid % s /\ tid = s * a + b
  <2>1. tid \in Nat
    OBVIOUS
  <2>2. tid \div s \in Nat /\ tid % s \in 0 .. s - 1 /\ tid = s * (tid \div s) + (tid % s)
    BY <2>1, Division, Zenon
  <2> QED BY <2>2, Zenon
<1>3. PICK h \in Nat, q \in 0 .. c - 1 : a = c * h + q
  <2>1. a \div c \in Nat /\ a % c \in 0 .. c - 1 /\ a = c * (a \div c) + (a % c)
    BY Division
  <2> QED BY <2>1, Zenon
<1>4. tid = tc * h + (s * q + b) /\ s * q + b \in 0 .. tc - 1
  <2>1. s * q + b \in 0 .. s * c - 1
    <3>1. q \in Nat /\ q < c
      OBVIOUS
    <3> QED BY <3>1, Composed
  <2>2. s * (c * h + q) = (s * c) * h + s * q
    OBVIOUS
  <2>3. s * q \in Nat /\ (s * c) * h \in Nat
    OBVIOUS
  <2>4. tid = s * (c * h + q) + b
    BY <1>2, <1>3, Zenon
  <2>5. tid = ((s * c) * h + s * q) + b
    BY <2>2, <2>4, Zenon
  <2>6. tid = (s * c) * h + (s * q + b)
    BY <2>3, <2>5
  <2> QED BY <1>1, <2>1, <2>6, Zenon
<1>5. tid \div tc = h
  <2>1. (tc * h + (s * q + b)) \div tc = h
    BY <1>4, OnlyDivision
  <2> QED BY <1>4, <2>1
<1>6. h < K
  <2>1. tc * h + (s * q + b) \in 0 .. tc * K - 1
    BY <1>1, <1>4
  <2> QED BY <1>4, <2>1, Composed
<1>7. s = 2 \/ h = 0
  BY <1>1, <1>6
<1>8. 2 * h + b \in Nat /\ 2 * h + b < s * K
  <2>1. CASE s = 2
    BY <1>6, <2>1
  <2>2. CASE K = 1 /\ h = 0
    BY <2>2
  <2> QED BY <1>1, <1>6, <2>1, <2>2
<1>9. c * (2 * h + b) + q \in 0 .. tc * K - 1
  <2>1. s * K \in Nat /\ c * (s * K) = (s * c) * K
    OBVIOUS
  <2>2. PICK u \in Nat, l \in Nat : u = 2 * h + b /\ l = s * K /\ u < l
    BY <1>8, <2>1
  <2>3. c * u + q \in 0 .. c * l - 1
    BY <2>2, Composed
  <2> QED BY <1>1, <2>1, <2>2, <2>3
<1>10. pin_thread(tid, JUMP_SOCKET) = (a + b * c + h * c) % (tc * K)
  BY <1>1, <1>2, <1>5 DEF pin_thread, JUMP_SOCKET, FILL_PU, FILL_CORE
<1>11. a + b * c + h * c = c * (2 * h + b) + q
  <2>1. c * (2 * h + b) = c * h + c * h + c * b /\ c * h \in Nat /\ c * b \in Nat
    OBVIOUS
  <2>2. b * c = c * b /\ h * c = c * h
    OBVIOUS
  <2> QED BY <1>3, <2>1, <2>2
<1>12. (c * (2 * h + b) + q) % (tc * K) = c * (2 * h + b) + q
  <2>1. PICK x \in Nat, y \in Nat : x = c * (2 * h + b) + q /\ y = tc * K /\ x < y
    BY <1>9
  <2>2. x % y = x
    BY <2>1, Remains
  <2> QED BY <2>1, <2>2
<1>13. pin_thread(tid, JUMP_SOCKET) = c * (2 * h + b) + q
  BY <1>10, <1>11, <1>12, Zenon
<1> QED
  BY <1>1, <1>2, <1>3, <1>7, <1>13, Zenon

\* No strategy gives two threads the same PU as long as there are enough.
LEMMA NoPUTwice ==
  ASSUME Sockets = 2 \/ PUsPerSocket = CoresPerSocket,
         NEW strategy \in {FILL_PU, FILL_CORE, JUMP_SOCKET},
         NEW t \in 0 .. TotalPUs - 1, NEW u \in 0 .. TotalPUs - 1,
         pin_thread(t, strategy) = pin_thread(u, strategy)
  PROVE  t = u
<1>1. PICK c \in Nat \ {0}, s \in Nat \ {0}, tc \in Nat \ {0}, n \in Nat \ {0} :
        c = CoresPerSocket /\ s = Sockets /\ tc = TotalCores /\ n = TotalPUs
  BY MachineFacts
<1>2. CASE strategy = FILL_PU
  <2>1. PICK q1 \in 0 .. tc - 1, r1 \in 0 .. PUsPerCore - 1 :
          t = PUsPerCore * q1 + r1 /\ pin_thread(t, FILL_PU) = tc * r1 + q1
    BY <1>1, FillsPUs
  <2>2. PICK q2 \in 0 .. tc - 1, r2 \in 0 .. PUsPerCore - 1 :
          u = PUsPerCore * q2 + r2 /\ pin_thread(u, FILL_PU) = tc * r2 + q2
    BY <1>1, FillsPUs
  <2>3. tc * r1 + q1 = tc * r2 + q2
    BY <1>2, <2>1, <2>2, Zenon
  <2>4. r1 \in Int /\ r2 \in Int
    OBVIOUS
  <2>5. r1 = r2 /\ q1 = q2
    BY <2>3, <2>4, DividedOnce
  <2> QED BY <2>1, <2>2, <2>5
<1>3. CASE strategy = FILL_CORE
  <2>1. t \in Nat /\ t < n /\ u \in Nat /\ u < n
    BY <1>1
  <2>2. t % n = t /\ u % n = u
    BY <2>1, Remains
  <2>3. pin_thread(t, FILL_CORE) = t % n /\ pin_thread(u, FILL_CORE) = u % n
    BY <1>1 DEF pin_thread, FILL_PU, FILL_CORE, JUMP_SOCKET
  <2> QED BY <1>3, <2>2, <2>3
<1>4. CASE strategy = JUMP_SOCKET
  <2>1. PICK q1 \in 0 .. c - 1, h1 \in Nat, b1 \in 0 .. s - 1 :
          /\ s = 2 \/ h1 = 0
          /\ t = s * (c * h1 + q1) + b1
          /\ pin_thread(t, JUMP_SOCKET) = c * (2 * h1 + b1) + q1
    <3>1. \E q \in 0 .. CoresPerSocket - 1, h \in Nat, b \in 0 .. Sockets - 1 :
            /\ Sockets = 2 \/ h = 0
            /\ t = Sockets * (CoresPerSocket * h + q) + b
            /\ pin_thread(t, JUMP_SOCKET) = CoresPerSocket * (2 * h + b) + q
      BY JumpsSockets
    <3> QED BY <1>1, <3>1, Zenon
  <2>2. PICK q2 \in 0 .. c - 1, h2 \in Nat, b2 \in 0 .. s - 1 :
          /\ s = 2 \/ h2 = 0
          /\ u = s * (c * h2 + q2) + b2
          /\ pin_thread(u, JUMP_SOCKET) = c * (2 * h2 + b2) + q2
    <3>1. \E q \in 0 .. CoresPerSocket - 1, h \in Nat, b \in 0 .. Sockets - 1 :
            /\ Sockets = 2 \/ h = 0
            /\ u = Sockets * (CoresPerSocket * h + q) + b
            /\ pin_thread(u, JUMP_SOCKET) = CoresPerSocket * (2 * h + b) + q
      BY JumpsSockets
    <3> QED BY <1>1, <3>1, Zenon
  <2>3. c * (2 * h1 + b1) + q1 = c * (2 * h2 + b2) + q2
    BY <1>4, <2>1, <2>2, Zenon
  <2>4. 2 * h1 + b1 \in Int /\ 2 * h2 + b2 \in Int
    OBVIOUS
  <2>5. 2 * h1 + b1 = 2 * h2 + b2 /\ q1 = q2
    BY <2>3, <2>4, DividedOnce
  <2>6. h1 = h2 /\ b1 = b2
    <3>1. CASE s = 2
      BY <2>5, <3>1
    <3>2. CASE h1 = 0 /\ h2 = 0
      BY <2>5, <3>2
    <3> QED BY <2>1, <2>2, <3>1, <3>2
  <2> QED BY <2>1, <2>2, <2>5, <2>6
<1> QED
  BY <1>2, <1>3, <1>4

\* Threads that are pinned to as many PUs as there are threads do not get in
\* each other's way (pin_thread, TestBenchCLI.cpp:529-543).  JUMP_SOCKET shifts
\* by one socket when the cores are full, which does for two sockets, as
\* TestBenchCLI.cpp:50-52 has them, and where a core has only one PU.
THEOREM PinnedThreadsAreApart ==
  Sockets = 2 \/ PUsPerSocket = CoresPerSocket => (MainSpec => []PinnedApart)
<1> SUFFICES ASSUME Sockets = 2 \/ PUsPerSocket = CoresPerSocket
             PROVE  MainSpec => []PinnedApart
  OBVIOUS
<1>1. LineInv => PinnedApart
  <2> DEFINE n == settings.nrThreads
             p == settings.pinning
             PUs == {pin_thread(tid, p) : tid \in 0 .. n - 1}
  <2> SUFFICES ASSUME LineInv, p /= NONE, n <= TotalPUs PROVE Cardinality(PUs) = n
    BY DEF PinnedApart
  <2>1. n \in Nat \ {0} /\ p \in {FILL_PU, FILL_CORE, JUMP_SOCKET}
    <3>1. PICK after : Trace(after, line) /\ settings = after[Len(line)]
      BY LineIsTraced
    <3>2. Len(line) \in 0 .. Len(line)
      BY LineIsTraced
    <3>3. SettingsTypes(settings)
      BY <3>1, <3>2 DEF Trace
    <3> QED BY <3>3 DEF SettingsTypes, NONE, FILL_PU, FILL_CORE, JUMP_SOCKET
  <2>2. PICK m \in Nat : m = n /\ m /= 0
    BY <2>1
  <2>3. 0 .. m - 1 \subseteq 0 .. TotalPUs - 1
    <3>1. TotalPUs \in Nat
      BY MachineFacts
    <3> QED BY <2>2, <3>1
  <2>4. \A t, u \in 0 .. m - 1 : pin_thread(t, p) = pin_thread(u, p) => t = u
    BY <2>1, <2>3, NoPUTwice
  <2> HIDE DEF n, p
  <2>5. ExistsBijection(0 .. m - 1, PUs)
    <3> DEFINE f == [tid \in 0 .. m - 1 |-> pin_thread(tid, p)]
    <3>1. f \in [0 .. m - 1 -> PUs]
      BY <2>2
    <3>2. \A t, u \in 0 .. m - 1 : f[t] = f[u] => t = u
      BY <2>4
    <3>3. \A x \in PUs : \E t \in 0 .. m - 1 : f[t] = x
      BY <2>2
    <3> HIDE DEF f, PUs
    <3>4. f \in Bijection(0 .. m - 1, PUs)
      BY <3>1, <3>2, <3>3 DEF Bijection, Injection, Surjection, IsInjective
    <3> QED BY <3>4 DEF ExistsBijection
  <2>6. IsFiniteSet(0 .. m - 1) /\ Cardinality(0 .. m - 1) = m
    <3>1. 0 \in Int /\ m - 1 \in Int /\ ~(0 > m - 1) /\ (m - 1) - 0 + 1 = m
      BY <2>2
    <3> QED BY <3>1, FS_Interval
  <2> HIDE DEF PUs
  <2>7. Cardinality(PUs) = Cardinality(0 .. m - 1)
    BY <2>5, <2>6, FS_Bijection
  <2> QED BY <2>2, <2>6, <2>7
<1> QED
  BY <1>1, LineInvariance, PTL
=============================================================================
