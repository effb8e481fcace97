-------------------------- MODULE TestBenchProofs --------------------------
(***************************************************************************)
(* What the test bench guarantees for any numbers of threads and           *)
(* implementations and whatever the experiment does.                       *)
(***************************************************************************)
EXTENDS TestBench, Counting, FiniteSetTheorems, TLAPS

BenchTypes ==
  /\ harness \in {"prepare", "create", "wait", "sleep", "join", "report", "end"}
  /\ nrThreads \in NrThreads
  /\ runningCounter \in Int
  /\ go \in {0, 1}
  /\ pc = [t \in Threads |-> pc[t]]
  /\ ended \subseteq Started

BenchMeasuring == harness \in {"sleep", "join", "report"}

\* The threads are created in the order of their numbers and are all gone
\* before the next implementation is prepared.
BenchCreation ==
  /\ \A t \in Threads \ Started : pc[t] = "none"
  /\ harness \in {"prepare", "end"} => \A t \in Threads : pc[t] = "none"
  /\ harness = "create" =>
       \E k \in Started : \A t \in Started : pc[t] = "none" <=> t >= k
  /\ harness = "wait" => \A t \in Started : pc[t] /= "none"
  /\ harness = "report" => \A t \in Started : pc[t] = "exit"

\* Before the start signal the threads come to wait for it; it is only given
\* when all of them do.
BenchSignals ==
  /\ harness \in {"create", "wait"} =>
       /\ go = 0 /\ ended = {}
       /\ \A t \in Started : pc[t] \in {"none", "start", "spin"}
  /\ BenchMeasuring => \A t \in Started : pc[t] \notin {"none", "start"}

CountedIn == {t \in Started : pc[t] \notin {"none", "start", "end_time", "exit"}}

\* The threads counted in and not out are as many as runningCounter says, and
\* one of them, the last, writes end_time.
BenchCounters ==
  /\ harness \notin {"prepare", "end"} => runningCounter = Cardinality(CountedIn)
  /\ BenchMeasuring =>
       IF CountedIn /= {}
       THEN ended = {} /\ \A t \in Started : pc[t] /= "end_time"
       ELSE \E t \in Started :
              /\ \/ pc[t] = "end_time" /\ ended = {}
                 \/ pc[t] = "exit" /\ ended = {t}
              /\ \A u \in Started \ {t} : pc[u] = "exit"

BenchIInv == BenchTypes /\ BenchCreation /\ BenchSignals /\ BenchCounters

-----------------------------------------------------------------------------
\* The numbers up to n are n numbers.
LEMMA UpToFinite ==
  ASSUME NEW n \in Nat PROVE IsFiniteSet(1 .. n) /\ Cardinality(1 .. n) = n
<1>1. Cardinality(1 .. n) = IF 1 > n THEN 0 ELSE n - 1 + 1
  BY FS_Interval
<1> QED
  BY <1>1, FS_Interval

\* The size of the union of two sets with nothing in common.
LEMMA DisjointUnion ==
  ASSUME NEW S, NEW T, IsFiniteSet(S), IsFiniteSet(T), S \cap T = {}
  PROVE  Cardinality(S \cup T) = Cardinality(S) + Cardinality(T)
<1>1. Cardinality(S \cup T) = Cardinality(S) + Cardinality(T) - Cardinality(S \cap T)
  BY FS_Union
<1>2. Cardinality(S) \in Nat /\ Cardinality(T) \in Nat /\ Cardinality(S \cap T) = 0
  BY FS_CardinalityType, FS_EmptySet
<1> QED
  BY <1>1, <1>2

\* A sum of finitely many numbers is a number.
LEMMA SumType ==
  ASSUME NEW S, IsFiniteSet(S), NEW f, \A x \in S : f[x] \in Nat
  PROVE  IsFiniteSet(Tokens(S, f)) /\ SumOver(S, f) \in Nat
<1> DEFINE of(x) == {x} \X (1 .. f[x])
           g == [x \in S |-> of(x)]
           all == {of(x) : x \in S}
<1>1. g \in Surjection(S, all)
  BY DEF Surjection
<1>2. IsFiniteSet(all)
  BY <1>1, FS_Surjection
<1>3. ASSUME NEW x \in S PROVE IsFiniteSet(of(x))
  <2>1. IsFiniteSet({x})
    BY FS_Singleton
  <2>2. IsFiniteSet(1 .. f[x])
    BY UpToFinite
  <2> QED
    BY <2>1, <2>2, FS_Product
<1>4. IsFiniteSet(UNION all)
  BY <1>2, <1>3, FS_UNION
<1> QED
  BY <1>4, FS_CardinalityType DEF Tokens, SumOver

\* A sum depends on the summands only.
LEMMA SumSame ==
  ASSUME NEW S, NEW f, NEW g, \A x \in S : f[x] = g[x]
  PROVE  SumOver(S, f) = SumOver(S, g)
<1>1. Tokens(S, f) = Tokens(S, g)
  BY DEF Tokens
<1> QED
  BY <1>1 DEF SumOver

\* A sum of nothing but zeros is zero, and no other is.
LEMMA SumZero ==
  ASSUME NEW S, IsFiniteSet(S), NEW f, \A x \in S : f[x] \in Nat
  PROVE  SumOver(S, f) = 0 <=> \A x \in S : f[x] = 0
<1>1. SumOver(S, f) = 0 <=> Tokens(S, f) = {}
  BY SumType, FS_EmptySet DEF SumOver
<1>2. ASSUME \A x \in S : f[x] = 0 PROVE Tokens(S, f) = {}
  <2>1. 1 .. 0 = {}
    OBVIOUS
  <2> QED BY <1>2, <2>1 DEF Tokens
<1>3. ASSUME NEW x \in S, f[x] /= 0 PROVE <<x, 1>> \in Tokens(S, f)
  BY <1>3, 1 \in 1 .. f[x] DEF Tokens
<1> QED
  BY <1>1, <1>2, <1>3

\* A sum is that of all but one and the one.
LEMMA SumSplit ==
  ASSUME NEW S, IsFiniteSet(S), NEW f, \A x \in S : f[x] \in Nat, NEW y \in S
  PROVE  SumOver(S, f) = SumOver(S \ {y}, f) + f[y]
<1> DEFINE T == Tokens(S \ {y}, f)
           of == {y} \X (1 .. f[y])
<1>1. Tokens(S, f) = T \cup of
  BY DEF Tokens
<1>2. T \cap of = {}
  BY DEF Tokens
<1>3. IsFiniteSet(1 .. f[y]) /\ Cardinality(1 .. f[y]) = f[y]
  BY UpToFinite
<1>4. IsFiniteSet({y}) /\ Cardinality({y}) = 1
  BY FS_Singleton
<1>5. IsFiniteSet(of) /\ Cardinality(of) = 1 * f[y]
  <2>1. IsFiniteSet(of) /\ Cardinality(of) = Cardinality({y}) * Cardinality(1 .. f[y])
    BY <1>3, <1>4, FS_Product, Zenon
  <2> QED BY <1>3, <1>4, <2>1, Zenon
<1>6. Cardinality(of) = f[y]
  BY <1>5
<1>7. IsFiniteSet(T)
  <2>1. IsFiniteSet(S \ {y})
    BY FS_RemoveElement
  <2> QED BY <2>1, SumType
<1> HIDE DEF of, T
<1>8. Cardinality(T \cup of) = Cardinality(T) + Cardinality(of)
  BY <1>2, <1>5, <1>7, DisjointUnion
<1> QED
  BY <1>1, <1>6, <1>8 DEF SumOver, T

\* A sum changes as its only summand that does.
LEMMA SumChange ==
  ASSUME NEW S, IsFiniteSet(S), NEW f, \A x \in S : f[x] \in Nat,
         NEW g, \A x \in S : g[x] \in Nat,
         NEW y \in S, \A x \in S \ {y} : g[x] = f[x]
  PROVE  SumOver(S, g) + f[y] = SumOver(S, f) + g[y]
<1>1. SumOver(S \ {y}, g) = SumOver(S \ {y}, f)
  BY SumSame
<1>2. IsFiniteSet(S \ {y})
  BY FS_RemoveElement
<1>3. SumOver(S \ {y}, f) \in Nat
  BY <1>2, SumType
<1>4. /\ SumOver(S, f) = SumOver(S \ {y}, f) + f[y]
      /\ SumOver(S, g) = SumOver(S \ {y}, g) + g[y]
  BY SumSplit
<1> QED
  BY <1>1, <1>3, <1>4

\* A bag with one item more, and with one less.
LEMMA SumOneMore ==
  ASSUME NEW S, IsFiniteSet(S), NEW f \in [S -> Nat], NEW y \in S
  PROVE  SumOver(S, [f EXCEPT ![y] = @ + 1]) = SumOver(S, f) + 1
<1> DEFINE g == [f EXCEPT ![y] = @ + 1]
<1>1. /\ \A x \in S : f[x] \in Nat /\ g[x] \in Nat
      /\ g[y] = f[y] + 1 /\ \A x \in S \ {y} : g[x] = f[x]
  OBVIOUS
<1>2. SumOver(S, f) \in Nat /\ SumOver(S, g) \in Nat
  BY <1>1, SumType
<1> HIDE DEF g
<1>3. SumOver(S, g) + f[y] = SumOver(S, f) + g[y]
  BY <1>1, SumChange
<1>4. SumOver(S, g) = SumOver(S, f) + 1
  BY <1>1, <1>2, <1>3
<1> QED
  BY <1>4 DEF g

LEMMA SumOneLess ==
  ASSUME NEW S, IsFiniteSet(S), NEW f \in [S -> Nat], NEW y \in S, f[y] > 0
  PROVE  SumOver(S, [f EXCEPT ![y] = @ - 1]) + 1 = SumOver(S, f)
<1> DEFINE g == [f EXCEPT ![y] = @ - 1]
<1>1. /\ \A x \in S : f[x] \in Nat /\ g[x] \in Nat
      /\ g[y] + 1 = f[y] /\ \A x \in S \ {y} : g[x] = f[x]
  OBVIOUS
<1>2. SumOver(S, f) \in Nat /\ SumOver(S, g) \in Nat
  BY <1>1, SumType
<1> HIDE DEF g
<1>3. SumOver(S, g) + f[y] = SumOver(S, f) + g[y]
  BY <1>1, SumChange
<1>4. SumOver(S, g) + 1 = SumOver(S, f)
  BY <1>1, <1>2, <1>3
<1> QED
  BY <1>4 DEF g

-----------------------------------------------------------------------------
\* The remainder of a division by n.
LEMMA Division ==
  ASSUME NEW n \in Nat \ {0}, NEW r \in Nat
  PROVE  \E q \in Nat : \E a \in 0 .. n - 1 : r = n * q + a /\ a = r % n
<1>1. r = n * (r \div n) + (r % n) /\ r \div n \in Nat /\ r % n \in 0 .. n - 1
  OBVIOUS
<1> QED
  BY <1>1

\* The greater number does not have the smaller quotient.
LEMMA QuotientBelow ==
  ASSUME NEW n \in Nat \ {0}, NEW p \in Int, NEW q \in Int,
         NEW a \in 0 .. n - 1, NEW b \in 0 .. n - 1, n * p + a <= n * q + b
  PROVE  p <= q
<1> SUFFICES ASSUME p >= q + 1 PROVE FALSE
  OBVIOUS
<1>1. n * p >= n * (q + 1) /\ n * (q + 1) = n * q + n
  OBVIOUS
<1>2. n * p \in Int /\ n * q \in Int
  OBVIOUS
<1> QED
  BY <1>1, <1>2

\* Numbers that are n apart have the same remainder.
LEMMA NextSameRemainder ==
  ASSUME NEW n \in Nat \ {0}, NEW r \in Nat
  PROVE  (r + n) % n = r % n
<1>1. PICK q \in Nat : \E a \in 0 .. n - 1 : r = n * q + a /\ a = r % n
  BY Division
<1>2. PICK a \in 0 .. n - 1 : r = n * q + a /\ a = r % n
  BY <1>1
<1>3. PICK p \in Nat : \E b \in 0 .. n - 1 : r + n = n * p + b /\ b = (r + n) % n
  BY r + n \in Nat, Division
<1>4. PICK b \in 0 .. n - 1 : r + n = n * p + b /\ b = (r + n) % n
  BY <1>3
<1>5. /\ n * p + b = n * (q + 1) + a
      /\ n * p \in Int /\ n * q \in Int /\ n * (q + 1) \in Int
  BY <1>2, <1>4
<1>6. p <= q + 1 /\ q + 1 <= p
  <2>1. n * p + b <= n * (q + 1) + a /\ n * (q + 1) + a <= n * p + b
    BY <1>5
  <2> QED BY <2>1, QuotientBelow
<1>7. p = q + 1
  BY <1>6
<1>8. n * p + b = n * p + a
  BY <1>5, <1>7, Zenon
<1>9. a = b
  BY <1>5, <1>8
<1> QED
  BY <1>2, <1>4, <1>9, Zenon

\* Numbers with the same remainder are n apart.
LEMMA SameRemainder ==
  ASSUME NEW n \in Nat \ {0}, NEW r \in Nat, NEW s \in Nat, r % n = s % n, r < s + n
  PROVE  r <= s
<1>1. PICK q \in Nat : \E a \in 0 .. n - 1 : r = n * q + a /\ a = r % n
  BY Division
<1>2. PICK a \in 0 .. n - 1 : r = n * q + a /\ a = r % n
  BY <1>1
<1>3. PICK p \in Nat : \E b \in 0 .. n - 1 : s = n * p + b /\ b = s % n
  BY Division
<1>4. s = n * p + a
  BY <1>2, <1>3
<1>5. n * q \in Int /\ n * p \in Int /\ n * (p + 1) = n * p + n /\ n * (p + 1) \in Int
  OBVIOUS
<1>6. CASE q <= p
  <2>1. n * q <= n * p
    BY <1>6
  <2> QED BY <1>2, <1>4, <1>5, <2>1
<1>7. CASE q >= p + 1
  <2>1. n * q >= n * (p + 1)
    BY <1>7
  <2> QED BY <1>2, <1>4, <1>5, <2>1
<1> QED
  BY <1>6, <1>7

-----------------------------------------------------------------------------
\* The threads that are started are threads, and finitely many.
LEMMA StartedThreads ==
  ASSUME nrThreads \in NrThreads
  PROVE  /\ nrThreads \in Nat \ {0}
         /\ Started \subseteq Threads
         /\ IsFiniteSet(Started)
         /\ 0 \in Started
         /\ Cardinality(Started) = nrThreads
<1>1. nrThreads \in Nat \ {0}
  BY BenchAssumption
<1> QED
  BY <1>1, FS_Interval DEF Started, Threads

\* CountedIn is finite, and its cardinality changes by one with a thread.
LEMMA CountedFinite ==
  ASSUME nrThreads \in NrThreads
  PROVE  IsFiniteSet(CountedIn) /\ Cardinality(CountedIn) \in Nat
  BY StartedThreads, FS_Subset, FS_CardinalityType, CountedIn \in SUBSET Started DEF CountedIn

\* The bench starts in the invariant.
LEMMA InitBenchInv == BenchInit => BenchIInv
<1> SUFFICES ASSUME BenchInit PROVE BenchIInv
  OBVIOUS
<1> QED
  BY StartedThreads DEF BenchInit, BenchIInv, BenchTypes, BenchCreation, BenchSignals,
     BenchCounters, BenchMeasuring

\* When all threads are counted and none has the start signal, all wait for
\* it.
LEMMA AllCounted ==
  ASSUME nrThreads \in NrThreads, Cardinality(CountedIn) >= nrThreads
  PROVE  CountedIn = Started
<1>1. CountedIn \in SUBSET Started /\ Started \ CountedIn = {} => CountedIn = Started
  BY DEF CountedIn
<1>2. Started \cap CountedIn = CountedIn
  BY DEF CountedIn
<1>3. IsFiniteSet(Started \ CountedIn)
      /\ Cardinality(Started \ CountedIn) = Cardinality(Started) - Cardinality(CountedIn)
  BY StartedThreads, <1>2, FS_Difference
<1>4. Cardinality(Started \ CountedIn) = 0
  BY <1>3, StartedThreads, CountedFinite, FS_CardinalityType
<1> QED
  BY <1>1, <1>3, <1>4, FS_EmptySet DEF CountedIn

-----------------------------------------------------------------------------
\* The thread that is created is the one after those that are there.
LEMMA CreateNext ==
  ASSUME BenchIInv, Create
  PROVE  \E k \in Started :
           /\ pc[k] = "none"
           /\ \A t \in Started : pc[t] = "none" <=> t >= k
           /\ pc' = [pc EXCEPT ![k] = "start"]
           /\ harness' = IF k + 1 < nrThreads THEN "create" ELSE "wait"
<1> USE DEF BenchIInv
<1>0. /\ nrThreads \in Nat /\ Started \subseteq Threads
      /\ \A n : n \in Started <=> n \in Int /\ 0 <= n /\ n < nrThreads
  BY StartedThreads DEF BenchTypes, Started
<1>1. PICK k \in Started : \A t \in Started : pc[t] = "none" <=> t >= k
  BY DEF Create, BenchCreation
<1>2. {t \in Threads : pc[t] /= "none"} = 0 .. k - 1
  <2>1. ASSUME NEW t \in Threads PROVE pc[t] /= "none" <=> t \in 0 .. k - 1
    BY <1>0, <1>1 DEF BenchCreation
  <2>2. \A t \in 0 .. k - 1 : t \in Started
    BY <1>0, <1>1
  <2> QED BY <1>0, <2>1, <2>2
<1>3. Cardinality({t \in Threads : pc[t] /= "none"}) = k
  <2>1. k \in Int /\ 0 <= k
    BY <1>0
  <2>2. Cardinality(0 .. k - 1) = k
    BY <2>1, FS_Interval
  <2> QED BY <1>2, <2>2
<1>4. pc[k] = "none"
  BY <1>0, <1>1
<1> QED
  BY <1>1, <1>3, <1>4 DEF Create

\* The steps of perform_experiment keep the invariant.
LEMMA HarnessKeepsBenchIInv == BenchIInv /\ (BenchPrepare \/ BenchHarnessStep) => BenchIInv'
<1> SUFFICES ASSUME BenchIInv, BenchPrepare \/ BenchHarnessStep PROVE BenchIInv'
  OBVIOUS
<1> USE DEF BenchIInv
<1>0. /\ nrThreads \in Nat \ {0} /\ Started \subseteq Threads /\ 0 \in Started
      /\ \A n : n \in Started <=> n \in Int /\ 0 <= n /\ n < nrThreads
  BY StartedThreads DEF BenchTypes, Started
<1> USE <1>0
<1>1. CASE BenchPrepare
  <2>1. CountedIn' = {} /\ Started' = Started /\ Threads' = Threads
    BY <1>1 DEF BenchPrepare, CountedIn, Started, Threads, BenchTypes, BenchCreation
  <2>2. BenchTypes' /\ BenchCreation' /\ BenchSignals'
    BY <1>1, <2>1 DEF BenchPrepare, BenchTypes, BenchCreation, BenchSignals, BenchMeasuring, Started
  <2>3. BenchCounters'
    BY <1>1, <2>1, FS_EmptySet DEF BenchPrepare, BenchCounters, BenchMeasuring
  <2> QED BY <2>2, <2>3
<1>2. CASE Create
  <2>1. PICK k \in Started :
               /\ \A t \in Started : pc[t] = "none" <=> t >= k
               /\ pc' = [pc EXCEPT ![k] = "start"]
               /\ harness' = IF k + 1 < nrThreads THEN "create" ELSE "wait"
    BY <1>2, CreateNext
  <2>2. /\ harness = "create"
        /\ UNCHANGED <<impl, nrThreads, runningCounter, go, mainCounter, ended>>
    BY <1>2 DEF Create
  <2>3. Started' = Started
    BY <2>2 DEF Started
  <2>4. CountedIn' = CountedIn
    BY <2>1, <2>2, <2>3 DEF CountedIn, BenchTypes
  <2>5. BenchTypes'
    BY <2>1, <2>2, <2>3 DEF BenchTypes
  <2>6. BenchCreation'
    <3>1. \A t \in Started : pc'[t] = "none" <=> t >= k + 1
      BY <2>1, <2>2 DEF BenchTypes
    <3>2. \A t \in Threads \ Started : pc'[t] = "none"
      BY <2>1 DEF BenchCreation, BenchTypes
    <3>3. CASE k + 1 < nrThreads
      <4>1. k + 1 \in Started
        BY <3>3
      <4> QED BY <3>1, <3>2, <3>3, <4>1, <2>1, <2>2, <2>3 DEF BenchCreation
    <3>4. CASE ~(k + 1 < nrThreads)
      <4>1. \A t \in Started : pc'[t] /= "none"
        BY <3>1, <3>4
      <4> QED BY <3>2, <3>4, <4>1, <2>1, <2>2, <2>3 DEF BenchCreation
    <3> QED BY <3>3, <3>4
  <2>7. BenchSignals'
    BY <2>1, <2>2, <2>3 DEF BenchSignals, BenchMeasuring, BenchTypes
  <2>8. BenchCounters'
    BY <2>1, <2>2, <2>4 DEF BenchCounters, BenchMeasuring
  <2> QED BY <2>5, <2>6, <2>7, <2>8
<1>3. CASE Go
  <2> USE <1>3 DEF Go
  <2>1. CountedIn = Started
    BY AllCounted DEF BenchCounters, BenchTypes
  <2>2. Started' = Started /\ CountedIn' = CountedIn
    BY DEF Started, CountedIn
  <2>3. BenchTypes' /\ BenchCreation'
    BY <2>2 DEF BenchTypes, BenchCreation
  <2>4. BenchSignals' /\ BenchCounters'
    BY <2>1, <2>2 DEF BenchSignals, BenchCounters, CountedIn, BenchMeasuring, BenchTypes
  <2> QED BY <2>3, <2>4
<1>4. CASE Stop
  <2>1. Started' = Started /\ CountedIn' = CountedIn
    BY <1>4 DEF Stop, Started, CountedIn
  <2> QED
    BY <1>4, <2>1 DEF Stop, BenchTypes, BenchCreation, BenchSignals, BenchCounters, BenchMeasuring
<1>5. CASE Join
  <2>1. Started' = Started /\ CountedIn' = CountedIn
    BY <1>5 DEF Join, Started, CountedIn
  <2> QED
    BY <1>5, <2>1 DEF Join, BenchTypes, BenchCreation, BenchSignals, BenchCounters, BenchMeasuring
<1>6. CASE Report
  <2>1. Started' = Started /\ harness' \in {"prepare", "end"}
    BY <1>6 DEF Report, Started
  <2> QED
    BY <1>6, <2>1 DEF Report, BenchTypes, BenchCreation, BenchSignals, BenchCounters, BenchMeasuring
<1> QED
  BY <1>1, <1>2, <1>3, <1>4, <1>5, <1>6 DEF BenchHarnessStep

\* A thread runs only while it is started and the harness waits for it.
LEMMA RunningThread ==
  ASSUME BenchIInv, NEW t \in Threads, pc[t] /= "none"
  PROVE  /\ t \in Started
         /\ harness \notin {"prepare", "end"}
         /\ pc[t] \notin {"none", "start", "spin"} => BenchMeasuring
  BY DEF BenchIInv, BenchCreation, BenchSignals, BenchMeasuring, BenchTypes

\* The steps of experiment_thread keep the invariant.
LEMMA ThreadKeepsBenchIInv ==
  ASSUME BenchIInv, NEW t \in Threads,
         BenchThreadStep(t) \/ Run(t) \/ (SeeGo(t, pc'[t]) /\ pc'[t] \notin Outside)
  PROVE  BenchIInv'
<1> USE DEF BenchIInv
<1>0. /\ nrThreads \in Nat \ {0} /\ Started \subseteq Threads /\ 0 \in Started
      /\ \A n : n \in Started <=> n \in Int /\ 0 <= n /\ n < nrThreads
  BY StartedThreads DEF BenchTypes, Started
<1> USE <1>0
<1>1. CASE CountIn(t)
  <2> USE <1>1 DEF CountIn
  <2>1. t \in Started /\ harness \in {"create", "wait"}
    BY RunningThread DEF BenchSignals, BenchMeasuring, BenchTypes
  <2>2. Started' = Started
    BY DEF Started
  <2>3. t \notin CountedIn /\ CountedIn' = CountedIn \cup {t}
    BY <2>1, <2>2 DEF CountedIn, BenchTypes
  <2>4. Cardinality(CountedIn') = Cardinality(CountedIn) + 1
    BY <2>3, CountedFinite, FS_AddElement DEF BenchTypes
  <2>5. BenchTypes' /\ BenchSignals'
    BY <2>1, <2>2 DEF BenchTypes, BenchSignals, BenchMeasuring
  <2>6. BenchCreation'
    <3>1. \A u \in Threads : pc'[u] = IF u = t THEN "spin" ELSE pc[u]
      BY DEF BenchTypes
    <3>2. harness' = harness /\ pc[t] /= "none" /\ pc'[t] /= "none"
      BY <3>1
    <3>3. \A u \in Threads : pc'[u] = "none" <=> pc[u] = "none"
      BY <3>1, <3>2
    <3> QED BY <2>1, <2>2, <3>2, <3>3 DEF BenchCreation
  <2>7. BenchCounters'
    BY <2>1, <2>4 DEF BenchCounters, BenchMeasuring
  <2> QED BY <2>5, <2>6, <2>7
<1>2. CASE CountOut(t)
  <2> USE <1>2 DEF CountOut
  <2>1. t \in Started /\ BenchMeasuring
    BY RunningThread
  <2>2. Started' = Started
    BY DEF Started
  <2>3. t \in CountedIn /\ CountedIn' = CountedIn \ {t}
    BY <2>1, <2>2 DEF CountedIn, BenchTypes
  <2>4. /\ IsFiniteSet(CountedIn')
        /\ Cardinality(CountedIn') = Cardinality(CountedIn) - 1
        /\ CountedIn' = {} <=> Cardinality(CountedIn') = 0
    BY <2>3, CountedFinite, FS_RemoveElement, FS_EmptySet DEF BenchTypes
  <2>5. runningCounter = Cardinality(CountedIn)
    BY <2>1 DEF BenchCounters, BenchMeasuring
  <2>6. BenchTypes' /\ BenchCreation' /\ BenchSignals'
    BY <2>1, <2>2 DEF BenchTypes, BenchCreation, BenchSignals, BenchMeasuring
  <2>7. BenchCounters'
    <3>1. harness' \notin {"prepare", "end"} => runningCounter' = Cardinality(CountedIn')
      BY <2>4, <2>5
    <3>2. CountedIn' = {} <=> pc'[t] = "end_time"
      BY <2>4, <2>5, CountedFinite DEF BenchTypes
    <3>3. ended = {} /\ \A u \in Started : pc[u] /= "end_time"
      BY <2>1, <2>3 DEF BenchCounters
    <3>4. \A u \in Started \ {t} : pc'[u] = pc[u]
      BY DEF BenchTypes
    <3>5. ASSUME CountedIn' = {}, NEW u \in Started \ {t} PROVE pc'[u] = "exit"
      BY <3>3, <3>4, <3>5, <2>1, <2>2 DEF CountedIn, BenchSignals
    <3>6. ASSUME CountedIn' /= {}, NEW u \in Started PROVE pc'[u] /= "end_time"
      BY <3>2, <3>3, <3>4, <3>6
    <3> QED
      <4>1. BenchMeasuring' /\ ended' = {}
        BY <2>1, <3>3 DEF BenchMeasuring
      <4>2. CASE CountedIn' = {}
        <5>1. t \in Started' /\ pc'[t] = "end_time"
          BY <2>1, <2>2, <3>2, <4>2
        <5>2. \A u \in Started' \ {t} : pc'[u] = "exit"
          BY <2>2, <3>5, <4>2
        <5> QED BY <3>1, <4>1, <4>2, <5>1, <5>2 DEF BenchCounters
      <4>3. CASE CountedIn' /= {}
        BY <2>2, <3>1, <3>6, <4>1, <4>3 DEF BenchCounters
      <4> QED BY <4>2, <4>3
  <2> QED BY <2>6, <2>7
<1>3. CASE WriteEndTime(t)
  <2> USE <1>3 DEF WriteEndTime
  <2>1. t \in Started /\ BenchMeasuring
    BY RunningThread
  <2>2. Started' = Started
    BY DEF Started
  <2>3. CountedIn' = CountedIn
    BY <2>2 DEF CountedIn, BenchTypes
  <2>4. CountedIn = {} /\ ended = {} /\ \A u \in Started \ {t} : pc[u] = "exit"
    BY <2>1 DEF BenchCounters
  <2>5. BenchTypes' /\ BenchCreation' /\ BenchSignals'
    BY <2>1, <2>2 DEF BenchTypes, BenchCreation, BenchSignals, BenchMeasuring
  <2>6. BenchCounters'
    BY <2>1, <2>2, <2>3, <2>4 DEF BenchCounters, BenchMeasuring, BenchTypes
  <2> QED BY <2>5, <2>6
<1>4. ASSUME Run(t) \/ (SeeGo(t, pc'[t]) /\ pc'[t] \notin Outside) PROVE BenchIInv'
  <2>1. /\ pc[t] \notin Outside \/ (pc[t] = "spin" /\ go = 1)
        /\ pc' = [pc EXCEPT ![t] = pc'[t]]
        /\ pc'[t] \notin Outside \ {"finish"}
        /\ UNCHANGED bench
    BY <1>4 DEF Run, SeeGo, bench
  <2>2. t \in Started /\ BenchMeasuring
    BY <2>1, RunningThread DEF Outside, BenchSignals, BenchMeasuring, BenchTypes
  <2>3. Started' = Started /\ BenchMeasuring'
    BY <2>1, <2>2 DEF Started, bench, BenchMeasuring
  <2>4. t \in CountedIn /\ CountedIn' = CountedIn
    BY <2>1, <2>2, <2>3 DEF CountedIn, BenchTypes, Outside
  <2>5. BenchTypes'
    BY <2>1, <2>3 DEF BenchTypes, bench
  <2>6. BenchCreation' /\ BenchSignals'
    BY <2>1, <2>2, <2>3 DEF BenchTypes, bench, BenchCreation, BenchSignals, BenchMeasuring, Outside
  <2>7. BenchCounters'
    BY <2>1, <2>2, <2>3, <2>4 DEF BenchCounters, BenchTypes, bench, Outside
  <2> QED BY <2>5, <2>6, <2>7
<1> QED
  BY <1>1, <1>2, <1>3, <1>4 DEF BenchThreadStep

\* Stuttering keeps the invariant.
LEMMA StutterKeepsBenchIInv == BenchIInv /\ UNCHANGED <<bench, pc>> => BenchIInv'
<1> SUFFICES ASSUME BenchIInv, UNCHANGED <<bench, pc>> PROVE BenchIInv'
  OBVIOUS
<1>1. Started' = Started /\ CountedIn' = CountedIn
  BY DEF bench, Started, CountedIn
<1> QED
  BY <1>1 DEF BenchIInv, bench, BenchTypes, BenchCreation, BenchSignals, BenchCounters, BenchMeasuring

\* Every step keeps the invariant.
LEMMA BenchStepKeepsIInv == BenchIInv /\ [BenchNext]_<<bench, pc>> => BenchIInv'
  BY HarnessKeepsBenchIInv, ThreadKeepsBenchIInv, StutterKeepsBenchIInv DEF BenchNext

\* The invariant says what MeasuresAll does.
LEMMA BenchIInvMeasuresAll == BenchIInv => MeasuresAll
<1> SUFFICES ASSUME BenchIInv PROVE MeasuresAll
  OBVIOUS
<1> USE StartedThreads DEF BenchIInv, BenchTypes
<1>1. ASSUME NEW t \in Started, pc[t] \notin {"none", "start", "spin"},
             NEW u \in Started
      PROVE  pc[u] \notin {"none", "start"}
  BY <1>1, RunningThread DEF BenchSignals
<1>2. ASSUME NEW t \in Started, pc[t] = "end_time", NEW u \in Started \ {t}
      PROVE  pc[u] = "exit"
  BY <1>2, RunningThread DEF BenchCounters
<1>3. ASSUME harness = "report" PROVE Cardinality(ended) = 1
  <2>1. CountedIn = {} /\ \A t \in Started : pc[t] /= "end_time"
    BY <1>3 DEF BenchCreation, CountedIn
  <2>2. PICK t \in Started : ended = {t}
    BY <1>3, <2>1 DEF BenchCounters, BenchMeasuring
  <2> QED BY <2>2, FS_Singleton
<1> QED
  BY <1>1, <1>2, <1>3 DEF MeasuresAll

\* Whatever the experiment does, no thread begins it before all are there, and
\* the time is taken once, when all have finished.
THEOREM BenchMeasuresAll == BenchSpec => []MeasuresAll
  BY InitBenchInv, BenchStepKeepsIInv, BenchIInvMeasuresAll, PTL DEF BenchSpec
=============================================================================
