---------------------------- MODULE RowStoreProofs ----------------------------
(***************************************************************************)
(* What is proved of the two programs that run the row store, SpTest and   *)
(* the SpGEMM experiment.                                                  *)
(*                                                                         *)
(* First what holds of the row store whoever runs it: where the rows are   *)
(* in C, and what a step on rows does to the rows that are computed, that  *)
(* are yet to be copied, and that are in C.                                *)
(*                                                                         *)
(* Then SpTest, for any finite set of workers and any matrix: workers that *)
(* come late do no harm, and what the row store, the triplet store and the *)
(* sequential algorithm leave in C is the product.  phase1 is the number   *)
(* of workers in phase 1 (LateInv).  The rows' part follows each row from  *)
(* the claim to the copy (RegionRowInv); the triplet store's follows each  *)
(* nonzero from the bag to a slot of its row, counts the slots that are    *)
(* left, and keeps the claimed ones apart (TripletInv); the sequential     *)
(* algorithm's says how far it has come (SequentialInv).                   *)
(*                                                                         *)
(* Then the experiment, for both builds, any matrix, work units and number *)
(* of iterations, and as many threads as the object counts (FewThreads):   *)
(* one thread runs the sequential phase, alone (PhaseInv), every row is    *)
(* computed, laid out and copied once (RowInv), and the product is         *)
(* complete when all are done.                                             *)
(***************************************************************************)
EXTENDS SpTest, SpGEMMExperiment, FiniteSetTheorems, TLAPS

\* C is laid out for the product, and holds row i of it.
Laid ==
  /\ rp = [i \in 0 .. M |-> Before(Nnz, i)]
  /\ DOMAIN C = 0 .. Before(Nnz, M) - 1

Copied(i) == \A k \in 0 .. Nnz[i] - 1 : C[Before(Nnz, i) + k] = <<i, k>>

UnitType == [first : 0 .. M, next : 0 .. M, end : 0 .. M]

RowTypes ==
  /\ nextci \in Nat
  /\ element_count \in [Rows -> Nat]
  /\ bag \subseteq Rows
  /\ rp \in [0 .. M -> Nat]
  /\ DOMAIN C = 0 .. rp[M] - 1
  /\ unit \in [Workers -> UnitType]
  /\ \A t \in Workers :
       /\ pc[t] \in {"compute", "insert", "copy"} =>
            unit[t].first \in Rows /\ unit[t].end = UnitRows(unit[t].first).end
       /\ pc[t] \in {"compute", "copy"} =>
            unit[t].first <= unit[t].next /\ unit[t].next < unit[t].end

\* A row is unclaimed, yet to be computed, or its size is known.
Sized ==
  \A i \in Rows :
    \/ nextci <= i
    \/ \E t \in Workers :
         pc[t] = "compute" /\ unit[t].next <= i /\ i < unit[t].end
    \/ element_count[i] = Nnz[i]

\* Row i is still to be copied: it is unclaimed, or in the unit of a worker of
\* phase 1, in a unit in the bag, or in the rest of a unit taken from it.
Pending(i) ==
  \/ nextci <= i
  \/ \E t \in Workers :
       pc[t] \in {"compute", "insert"} /\ unit[t].first <= i /\ i < unit[t].end
  \/ \E a \in bag : a <= i /\ i < UnitRows(a).end
  \/ \E t \in Workers :
       pc[t] = "copy" /\ unit[t].next <= i /\ i < unit[t].end

-----------------------------------------------------------------------------
\* The first n positive numbers are n.
LEMMA UpToFinite ==
  ASSUME NEW n \in Nat PROVE IsFiniteSet(1 .. n) /\ Cardinality(1 .. n) = n
<1>1. Cardinality(1 .. n) = IF 1 > n THEN 0 ELSE n - 1 + 1
  BY FS_Interval
<1> QED
  BY <1>1, FS_Interval

\* The size of the union of two sets with nothing in common.
LEMMA DisjointUnion ==
  ASSUME NEW S, NEW T, IsFiniteSet(S), IsFiniteSet(T), S \cap T = {}
  PROVE  Cardinality(S \cup T) = Cardinality(S) + Cardinality(T)
<1>1. Cardinality(S \cup T) = Cardinality(S) + Cardinality(T) - Cardinality(S \cap T)
  BY FS_Union
<1>2. Cardinality(S) \in Nat /\ Cardinality(T) \in Nat /\ Cardinality(S \cap T) = 0
  BY FS_CardinalityType, FS_EmptySet
<1> QED
  BY <1>1, <1>2

\* The entries before a row are finitely many.
LEMMA EntriesFinite ==
  ASSUME NEW size \in [Rows -> Nat], NEW i \in 0 .. M
  PROVE  IsFiniteSet(Tokens(0 .. i - 1, size)) /\ Before(size, i) \in Nat
<1> DEFINE row(r) == {r} \X (1 .. size[r])
           f == [r \in 0 .. i - 1 |-> row(r)]
           rows == {row(r) : r \in 0 .. i - 1}
<1>1. i \in Int /\ 0 .. i - 1 \subseteq Rows
  BY RowStoreAssumption DEF Rows
<1>2. IsFiniteSet(0 .. i - 1)
  BY <1>1, FS_Interval
<1>3. f \in Surjection(0 .. i - 1, rows)
  BY DEF Surjection
<1>4. IsFiniteSet(rows)
  BY <1>2, <1>3, FS_Surjection
<1>5. ASSUME NEW r \in 0 .. i - 1 PROVE IsFiniteSet(row(r))
  <2>1. size[r] \in Nat
    BY <1>1
  <2>2. IsFiniteSet({r})
    BY FS_Singleton
  <2>3. IsFiniteSet(1 .. size[r])
    BY <2>1, UpToFinite
  <2> QED
    BY <2>2, <2>3, FS_Product
<1>6. IsFiniteSet(UNION rows)
  BY <1>4, <1>5, FS_UNION
<1> QED
  BY <1>6, FS_CardinalityType DEF Tokens, SumOver, Before

\* Row i + 1 starts where row i ends.
LEMMA BeforeNext ==
  ASSUME NEW size \in [Rows -> Nat], NEW i \in Rows
  PROVE  Before(size, i + 1) = Before(size, i) + size[i]
<1> DEFINE E == Tokens(0 .. i - 1, size)
           row == {i} \X (1 .. size[i])
<1>1. i \in 0 .. M /\ i + 1 \in 0 .. M /\ 0 .. (i + 1) - 1 = (0 .. i - 1) \cup {i}
  BY RowStoreAssumption DEF Rows
<1>2. Tokens(0 .. i, size) = E \cup row
  BY <1>1 DEF Tokens
<1>3. E \cap row = {}
  BY <1>1 DEF Tokens
<1>4. size[i] \in Nat /\ Cardinality(1 .. size[i]) = size[i] /\ IsFiniteSet(1 .. size[i])
  BY UpToFinite
<1>5. IsFiniteSet({i}) /\ Cardinality({i}) = 1
  BY FS_Singleton
<1>6. IsFiniteSet(row) /\ Cardinality(row) = 1 * size[i]
  <2>1. IsFiniteSet(row) /\ Cardinality(row) = Cardinality({i}) * Cardinality(1 .. size[i])
    BY <1>4, <1>5, FS_Product, Zenon
  <2> QED BY <1>4, <1>5, <2>1, Zenon
<1>7. Cardinality(row) = size[i]
  BY <1>4, <1>6
<1>8. IsFiniteSet(E)
  BY <1>1, EntriesFinite
<1> HIDE DEF row, E
<1>9. Cardinality(E \cup row) = Cardinality(E) + Cardinality(row)
  BY <1>3, <1>6, <1>8, DisjointUnion
<1> QED
  <2>1. Before(size, i + 1) = Cardinality(Tokens(0 .. i, size))
    BY <1>1 DEF Before, SumOver
  <2>2. Before(size, i) = Cardinality(E)
    BY DEF Before, SumOver, E
  <2> QED BY <1>2, <1>7, <1>9, <2>1, <2>2

\* A later row does not start before an earlier one.
LEMMA BeforeMonotone ==
  ASSUME NEW size \in [Rows -> Nat], NEW i \in 0 .. M, NEW j \in 0 .. M, i <= j
  PROVE  Before(size, i) <= Before(size, j)
<1>1. Tokens(0 .. i - 1, size) \subseteq Tokens(0 .. j - 1, size)
  BY DEF Tokens
<1> QED
  BY <1>1, EntriesFinite, FS_Subset DEF Before, SumOver

\* Each slot of C belongs to one row only, and is in C.
LEMMA SlotOfOneRow ==
  ASSUME NEW i \in Rows, NEW k \in 0 .. Nnz[i] - 1
  PROVE  /\ Before(Nnz, i) + k \in 0 .. Before(Nnz, M) - 1
         /\ \A j \in Rows : \A l \in 0 .. Nnz[j] - 1 :
              Before(Nnz, i) + k = Before(Nnz, j) + l => i = j /\ k = l
<1> USE RowStoreAssumption
<1>1. ASSUME NEW r \in Rows
      PROVE  /\ r \in 0 .. M /\ r + 1 \in 0 .. M /\ Nnz[r] \in Nat
             /\ Before(Nnz, r) \in Nat /\ Before(Nnz, r + 1) = Before(Nnz, r) + Nnz[r]
             /\ \A q \in Rows : r < q => Before(Nnz, r + 1) <= Before(Nnz, q)
  <2>1. r \in 0 .. M /\ r + 1 \in 0 .. M
    BY DEF Rows
  <2>2. ASSUME NEW q \in Rows, r < q PROVE Before(Nnz, r + 1) <= Before(Nnz, q)
    <3>1. q \in 0 .. M /\ r + 1 <= q
      BY <2>2 DEF Rows
    <3> QED
      BY <2>1, <3>1, BeforeMonotone
  <2> QED
    BY <2>1, <2>2, EntriesFinite, BeforeNext
<1>2. Before(Nnz, i + 1) <= Before(Nnz, M) /\ Before(Nnz, M) \in Nat
  <2>1. i + 1 \in 0 .. M /\ M \in 0 .. M /\ i + 1 <= M
    BY DEF Rows
  <2> QED
    BY <2>1, BeforeMonotone, EntriesFinite
<1>3. Before(Nnz, i) + k \in 0 .. Before(Nnz, M) - 1
  BY <1>1, <1>2
<1>4. ASSUME NEW j \in Rows, NEW l \in 0 .. Nnz[j] - 1,
             Before(Nnz, i) + k = Before(Nnz, j) + l
      PROVE  i = j /\ k = l
  <2>1. ~(i < j) /\ ~(j < i)
    BY <1>1, <1>4
  <2>2. i = j
    BY <2>1 DEF Rows
  <2> QED
    BY <1>1, <1>4, <2>2
<1> QED
  BY <1>3, <1>4

-----------------------------------------------------------------------------
\* The smaller of two numbers.
LEMMA MinOfTwo ==
  ASSUME NEW a \in Int, NEW b \in Int
  PROVE  Min({a, b}) \in {a, b} /\ Min({a, b}) <= a /\ Min({a, b}) <= b
<1>1. \E x \in {a, b} : \A y \in {a, b} : x <= y
  OBVIOUS
<1> QED
  BY <1>1 DEF Min

\* A work unit has its first row, is in the matrix, and has WUSize rows as far
\* as there are.
LEMMA UnitRowsInMatrix ==
  ASSUME NEW i \in Rows
  PROVE  /\ UnitRows(i) \in UnitType
         /\ UnitRows(i).first = i /\ UnitRows(i).next = i
         /\ i < UnitRows(i).end /\ UnitRows(i).end \in 0 .. M
         /\ \A j \in Rows : j < i + WUSize => j < UnitRows(i).end
<1> DEFINE m == Min({i + WUSize, M})
<1>1. i \in Nat /\ i < M /\ M \in Nat /\ WUSize \in Nat \ {0} /\ i + WUSize \in Int
  BY RowStoreAssumption DEF Rows
<1>2. m \in {i + WUSize, M} /\ m <= i + WUSize /\ m <= M
  BY <1>1, MinOfTwo
<1>3. m \in 0 .. M /\ i < m /\ \A j \in Rows : j < i + WUSize => j < m
  BY <1>1, <1>2 DEF Rows
<1> QED
  BY <1>1, <1>3 DEF UnitRows, UnitType

\* A worker that computes or copies is at a row of its unit.
LEMMA RowAtHand ==
  ASSUME RowTypes, NEW t \in Workers, pc[t] \in {"compute", "copy"}
  PROVE  /\ unit[t].next \in Rows /\ unit[t].next \in Nat
         /\ unit[t].first \in Nat /\ unit[t].first <= unit[t].next
         /\ unit[t].next < unit[t].end /\ unit[t].end \in 0 .. M
         /\ unit[t].next + 1 \in 0 .. M
         /\ [unit[t] EXCEPT !.next = unit[t].next + 1] \in UnitType
<1>1. /\ unit[t] \in UnitType
      /\ unit[t].first <= unit[t].next /\ unit[t].next < unit[t].end
  BY DEF RowTypes
<1>2. /\ unit[t].first \in 0 .. M /\ unit[t].next \in 0 .. M /\ unit[t].end \in 0 .. M
      /\ M \in Nat
  BY <1>1, RowStoreAssumption DEF UnitType
<1>3. unit[t].next \in Rows /\ unit[t].next + 1 \in 0 .. M
  BY <1>1, <1>2 DEF Rows
<1> QED
  BY <1>1, <1>2, <1>3 DEF UnitType

\* What concerns the rows has its type after each step on them.
LEMMA RowTypesStep ==
  ASSUME RowTypes, pc = [w \in Workers |-> pc[w]],
         NEW t \in Workers, NEW there, there \notin {"compute", "insert", "copy"},
         RowStep(t, there)
  PROVE  RowTypes'
<1> USE RowStoreAssumption DEF RowTypes, Goto
<1>0. NoUnit \in UnitType
  BY DEF NoUnit, UnitType
<1>1. CASE ClaimUnit(t)
  <2>1. nextci \in Rows
    BY <1>1 DEF ClaimUnit, Rows
  <2>2. /\ unit' = [unit EXCEPT ![t] = UnitRows(nextci)]
        /\ nextci' \in Nat /\ pc' = [pc EXCEPT ![t] = "compute"]
        /\ UNCHANGED <<element_count, bag, rp, C>>
    BY <1>1 DEF ClaimUnit
  <2>3. unit' \in [Workers -> UnitType]
    BY <2>1, <2>2, UnitRowsInMatrix
  <2>4. /\ unit'[t].first = nextci /\ unit'[t].next = nextci /\ nextci <= nextci
        /\ unit'[t].end = UnitRows(nextci).end /\ nextci < UnitRows(nextci).end
        /\ \A w \in Workers \ {t} : unit'[w] = unit[w] /\ pc'[w] = pc[w]
    BY <2>1, <2>2, <2>3, UnitRowsInMatrix DEF Rows
  <2> QED
    BY <2>1, <2>2, <2>3, <2>4
<1>2. CASE NoUnitLeft(t, there)
  <2>1. nextci + WUSize \in Nat
    OBVIOUS
  <2> QED
    BY <1>2, <2>1 DEF NoUnitLeft
<1>3. CASE ComputeRow(t)
  <2> DEFINE j == unit[t].next
  <2>1. unit[t] \in UnitType /\ j < unit[t].end /\ unit[t].first <= j
    BY <1>3 DEF ComputeRow
  <2>2. /\ j \in Rows /\ Nnz[j] \in Nat /\ j + 1 \in 0 .. M
        /\ j \in Nat /\ unit[t].first \in Nat /\ unit[t].first <= j
        /\ [unit[t] EXCEPT !.next = j + 1] \in UnitType
    <3>1. pc[t] \in {"compute", "copy"}
      BY <1>3, Zenon DEF ComputeRow
    <3> HIDE DEF RowTypes
    <3> QED BY <3>1, RowAtHand
  <2>3. [unit[t] EXCEPT !.next = j + 1] \in UnitType
    BY <2>2
  <2>4. unit' \in [Workers -> UnitType] /\ element_count' \in [Rows -> Nat]
    BY <1>3, <2>2, <2>3 DEF ComputeRow
  <2>5. /\ \A w \in Workers \ {t} : unit'[w] = unit[w] /\ pc'[w] = pc[w]
        /\ unit'[t].first = unit[t].first /\ unit'[t].end = unit[t].end
        /\ unit'[t].next = j + 1 /\ pc[t] = "compute"
        /\ pc'[t] = IF j + 1 < unit[t].end THEN "compute" ELSE "insert"
        /\ UNCHANGED <<nextci, bag, rp, C>>
    BY <1>3, <2>1 DEF ComputeRow, UnitType
  <2>6. unit[t].first <= j + 1
    BY <2>2
  <2>7. \A w \in Workers \ {t} :
          /\ pc'[w] \in {"compute", "insert", "copy"} =>
               unit'[w].first \in Rows /\ unit'[w].end = UnitRows(unit'[w].first).end
          /\ pc'[w] \in {"compute", "copy"} =>
               unit'[w].first <= unit'[w].next /\ unit'[w].next < unit'[w].end
    BY <2>5
  <2>8. /\ unit'[t].first \in Rows /\ unit'[t].end = UnitRows(unit'[t].first).end
        /\ pc'[t] \in {"compute", "copy"} =>
             unit'[t].first <= unit'[t].next /\ unit'[t].next < unit'[t].end
    BY <2>1, <2>5, <2>6
  <2> QED
    BY <2>4, <2>5, <2>7, <2>8
<1>4. CASE InsertUnit(t)
  BY <1>0, <1>4 DEF InsertUnit
<1>5. CASE RemoveUnit(t)
  <2>1. PICK a \in bag : bag' = bag \ {a} /\ unit' = [unit EXCEPT ![t] = UnitRows(a)]
    BY <1>5 DEF RemoveUnit
  <2>2. pc' = [pc EXCEPT ![t] = "copy"] /\ UNCHANGED <<nextci, element_count, rp, C>>
    BY <1>5 DEF RemoveUnit
  <2>3. a \in Rows /\ unit' \in [Workers -> UnitType]
    <3>1. a \in Rows /\ UnitRows(a) \in UnitType
      BY UnitRowsInMatrix
    <3> QED BY <2>1, <3>1
  <2>4. /\ unit'[t].first = a /\ unit'[t].next = a /\ a <= a
        /\ unit'[t].end = UnitRows(a).end /\ a < UnitRows(a).end
        /\ \A w \in Workers \ {t} : unit'[w] = unit[w] /\ pc'[w] = pc[w]
    BY <2>1, <2>2, <2>3, UnitRowsInMatrix DEF Rows
  <2> QED
    BY <2>1, <2>2, <2>3, <2>4
<1>6. CASE NothingToRemove(t)
  BY <1>6 DEF NothingToRemove, rowVars
<1>7. CASE CopyRow(t)
  <2> DEFINE j == unit[t].next
  <2>1. unit[t] \in UnitType /\ j < unit[t].end /\ unit[t].first <= j
    BY <1>7 DEF CopyRow
  <2>2. CASE j + 1 < unit[t].end
    <3>1. [unit[t] EXCEPT !.next = j + 1] \in UnitType /\ unit[t].first <= j + 1
      <4>1. pc[t] \in {"compute", "copy"}
        BY <1>7, Zenon DEF CopyRow
      <4>2. /\ [unit[t] EXCEPT !.next = j + 1] \in UnitType
            /\ unit[t].first \in Nat /\ j \in Nat /\ unit[t].first <= j
        <5> HIDE DEF RowTypes
        <5> QED BY <4>1, RowAtHand
      <4> QED BY <4>2
    <3>2. /\ unit' = [unit EXCEPT ![t] = [unit[t] EXCEPT !.next = j + 1]]
          /\ pc' = [pc EXCEPT ![t] = "copy"] /\ pc[t] = "copy" /\ DOMAIN C' = DOMAIN C
          /\ UNCHANGED <<nextci, element_count, bag, rp>>
      BY <1>7, <2>2 DEF CopyRow
    <3>3. unit' \in [Workers -> UnitType]
      BY <3>1, <3>2
    <3>4. /\ unit'[t].first = unit[t].first /\ unit'[t].end = unit[t].end
          /\ unit'[t].next = j + 1
          /\ \A w \in Workers \ {t} : unit'[w] = unit[w] /\ pc'[w] = pc[w]
      BY <2>1, <3>2 DEF UnitType
    <3> QED
      BY <2>2, <3>1, <3>2, <3>3, <3>4
  <2>3. CASE ~(j + 1 < unit[t].end)
    BY <1>0, <1>7, <2>3 DEF CopyRow
  <2> QED BY <2>2, <2>3
<1> QED
  BY <1>1, <1>2, <1>3, <1>4, <1>5, <1>6, <1>7 DEF RowStep

\* A row that was claimed gets its size before its unit is left.
LEMMA SizedStep ==
  ASSUME RowTypes, Sized, pc = [w \in Workers |-> pc[w]],
         NEW t \in Workers, NEW there, there \notin {"compute", "insert", "copy"},
         RowStep(t, there)
  PROVE  Sized'
<1> USE RowStoreAssumption DEF RowTypes, Sized, Goto
<1>1. CASE ClaimUnit(t)
  <2>1. nextci \in Rows
    BY <1>1 DEF ClaimUnit, Rows
  <2>2. /\ unit'[t] = UnitRows(nextci) /\ pc'[t] = "compute" /\ element_count' = element_count
        /\ \A w \in Workers \ {t} : unit'[w] = unit[w] /\ pc'[w] = pc[w]
        /\ pc[t] /= "compute" /\ nextci' = nextci + WUSize
    BY <1>1 DEF ClaimUnit
  <2>3. ASSUME NEW i \in Rows, nextci <= i, ~(nextci' <= i)
        PROVE  UnitRows(nextci).next <= i /\ i < UnitRows(nextci).end
    <3>1. i < nextci + WUSize
      BY <2>1, <2>2, <2>3 DEF Rows
    <3> QED
      BY <2>1, <2>3, <3>1, UnitRowsInMatrix
  <2> QED
    BY <2>2, <2>3
<1>2. CASE NoUnitLeft(t, there)
  <2>1. \A i \in Rows : ~(nextci <= i)
    BY <1>2 DEF NoUnitLeft, Rows
  <2> QED
    BY <1>2, <2>1 DEF NoUnitLeft
<1>3. CASE ComputeRow(t)
  <2> DEFINE j == unit[t].next
  <2>1. j \in Rows /\ j \in Nat /\ unit[t] \in UnitType
    BY <1>3, RowAtHand DEF ComputeRow
  <2>2. element_count'[j] = Nnz[j] /\ nextci' = nextci
    BY <1>3, <2>1 DEF ComputeRow
  <2>3. ASSUME NEW i \in Rows \ {j} PROVE element_count'[i] = element_count[i]
    BY <1>3 DEF ComputeRow
  <2>4. /\ \A w \in Workers \ {t} : unit'[w] = unit[w] /\ pc'[w] = pc[w]
        /\ unit'[t].next = j + 1 /\ unit'[t].end = unit[t].end
        /\ j + 1 < unit[t].end => pc'[t] = "compute"
        /\ unit[t].end \in Nat
    BY <1>3, <2>1 DEF ComputeRow, UnitType
  <2>5. ASSUME NEW i \in Rows, i /= j, j <= i, i < unit[t].end
        PROVE  pc'[t] = "compute" /\ unit'[t].next <= i /\ i < unit'[t].end
    <3>1. i \in Nat /\ j + 1 <= i
      BY <2>1, <2>5 DEF Rows
    <3>2. j + 1 < unit[t].end
      BY <2>1, <2>4, <2>5, <3>1
    <3> QED
      BY <2>4, <2>5, <3>1, <3>2
  <2> QED
    BY <2>2, <2>3, <2>4, <2>5
<1>4. CASE InsertUnit(t)
  BY <1>4 DEF InsertUnit
<1>5. CASE RemoveUnit(t)
  BY <1>5 DEF RemoveUnit
<1>6. CASE NothingToRemove(t)
  BY <1>6 DEF NothingToRemove, rowVars
<1>7. CASE CopyRow(t)
  BY <1>7 DEF CopyRow
<1> QED
  BY <1>1, <1>2, <1>3, <1>4, <1>5, <1>6, <1>7 DEF RowStep

\* Once C is laid out, and the size of a row is the one it was laid out for, to
\* copy the row puts it in its place and leaves the other rows alone.
LEMMA RowCopied ==
  ASSUME Laid, NEW j \in Rows, element_count[j] = Nnz[j],
         rp' = rp, C' = [s \in DOMAIN C |-> IF s - rp[j] \in 0 .. element_count[j] - 1
                                            THEN <<j, s - rp[j]>> ELSE C[s]]
  PROVE  /\ Laid'
         /\ \A i \in Rows : i = j \/ Copied(i) => Copied(i)'
<1> USE RowStoreAssumption
<1>1. j \in 0 .. M
  BY DEF Rows
<1>2. rp[j] = Before(Nnz, j) /\ Nnz[j] \in Nat
  BY <1>1 DEF Laid
<1>3. Before(Nnz, j) \in Nat
  BY <1>1, EntriesFinite
<1>4. DOMAIN C' = DOMAIN C
  OBVIOUS
<1>5. ASSUME NEW s \in DOMAIN C
      PROVE  /\ s - Before(Nnz, j) \in 0 .. Nnz[j] - 1 => C'[s] = <<j, s - Before(Nnz, j)>>
             /\ s - Before(Nnz, j) \notin 0 .. Nnz[j] - 1 => C'[s] = C[s]
  BY <1>2
<1>6. Laid'
  BY <1>4 DEF Laid
<1>7. ASSUME NEW k \in 0 .. Nnz[j] - 1 PROVE C'[Before(Nnz, j) + k] = <<j, k>>
  <2>1. Before(Nnz, j) + k \in DOMAIN C
    BY <1>1, SlotOfOneRow DEF Laid
  <2>2. (Before(Nnz, j) + k) - Before(Nnz, j) = k
    BY <1>2, <1>3
  <2> QED
    BY <1>5, <2>1, <2>2
<1>8. ASSUME NEW i \in Rows, NEW k \in 0 .. Nnz[i] - 1, i /= j
      PROVE  C'[Before(Nnz, i) + k] = C[Before(Nnz, i) + k]
  <2> DEFINE s == Before(Nnz, i) + k
  <2>1. s \in DOMAIN C
    BY <1>8, SlotOfOneRow DEF Laid
  <2>2. s \in Int
    <3>1. i \in 0 .. M
      BY DEF Rows
    <3> QED
      BY <3>1, EntriesFinite
  <2>3. ASSUME s - Before(Nnz, j) \in 0 .. Nnz[j] - 1 PROVE FALSE
    <3>1. s = Before(Nnz, j) + (s - Before(Nnz, j))
      BY <1>3, <2>2
    <3> QED
      BY <1>1, <1>8, <2>3, <3>1, SlotOfOneRow
  <2> QED
    BY <1>5, <2>1, <2>3
<1> QED
  BY <1>6, <1>7, <1>8 DEF Copied

LEMMA CopiedStep ==
  ASSUME RowTypes, Laid, NEW t \in Workers, CopyRow(t),
         \A i \in Rows : element_count[i] = Nnz[i]
  PROVE  /\ Laid'
         /\ \A i \in Rows : i = unit[t].next \/ Copied(i) => Copied(i)'
<1>1. PICK j \in Rows : j = unit[t].next
  BY RowAtHand DEF CopyRow
<1>2. rp' = rp /\ C' = [s \in DOMAIN C |-> IF s - rp[j] \in 0 .. element_count[j] - 1
                                           THEN <<j, s - rp[j]>> ELSE C[s]]
  BY <1>1 DEF CopyRow
<1> QED
  BY <1>1, <1>2, RowCopied

\* A row that is yet to be copied is so after a step on rows, unless the step
\* copies it.
LEMMA PendingStep ==
  ASSUME RowTypes, pc = [w \in Workers |-> pc[w]],
         NEW t \in Workers, NEW there, there \notin {"compute", "insert", "copy"},
         RowStep(t, there), NEW i \in Rows, Pending(i),
         CopyRow(t) => unit[t].next /= i
  PROVE  Pending(i)'
<1> USE RowStoreAssumption DEF Goto
<1>0. i \in Nat /\ nextci \in Nat
  BY DEF Rows, RowTypes
<1>1. CASE ClaimUnit(t)
  <2>1. nextci \in Rows
    BY <1>1 DEF ClaimUnit, Rows, RowTypes
  <2>2. /\ unit'[t] = UnitRows(nextci) /\ pc'[t] = "compute" /\ bag' = bag
        /\ \A w \in Workers \ {t} : unit'[w] = unit[w] /\ pc'[w] = pc[w]
        /\ pc[t] \notin {"compute", "insert", "copy"} /\ nextci' = nextci + WUSize
    BY <1>1 DEF ClaimUnit, RowTypes
  <2>3. ASSUME nextci <= i, ~(nextci' <= i)
        PROVE  UnitRows(nextci).first <= i /\ i < UnitRows(nextci).end
    <3>1. i < nextci + WUSize
      BY <1>0, <2>2, <2>3
    <3> QED
      BY <2>1, <2>3, <3>1, UnitRowsInMatrix
  <2> QED
    BY <2>2, <2>3 DEF Pending
<1>2. CASE NoUnitLeft(t, there)
  <2>1. ~(nextci <= i)
    BY <1>0, <1>2 DEF NoUnitLeft, Rows
  <2> QED
    BY <1>2, <2>1 DEF NoUnitLeft, Pending
<1>3. CASE ComputeRow(t)
  <2>1. /\ \A w \in Workers \ {t} : unit'[w] = unit[w] /\ pc'[w] = pc[w]
        /\ unit'[t].first = unit[t].first /\ unit'[t].end = unit[t].end
        /\ pc[t] = "compute" /\ pc'[t] \in {"compute", "insert"}
        /\ nextci' = nextci /\ bag' = bag
    BY <1>3 DEF ComputeRow, RowTypes
  <2> QED
    BY <2>1 DEF Pending
<1>4. CASE InsertUnit(t)
  <2>1. /\ \A w \in Workers \ {t} : unit'[w] = unit[w] /\ pc'[w] = pc[w]
        /\ pc[t] = "insert" /\ nextci' = nextci /\ bag' = bag \cup {unit[t].first}
        /\ unit[t].end = UnitRows(unit[t].first).end
    BY <1>4 DEF InsertUnit, RowTypes
  <2> QED
    BY <2>1 DEF Pending
<1>5. CASE RemoveUnit(t)
  <2>1. PICK a \in bag : bag' = bag \ {a} /\ unit'[t] = UnitRows(a)
    BY <1>5 DEF RemoveUnit, RowTypes
  <2>2. /\ \A w \in Workers \ {t} : unit'[w] = unit[w] /\ pc'[w] = pc[w]
        /\ pc[t] = "remove" /\ pc'[t] = "copy" /\ nextci' = nextci
    BY <1>5 DEF RemoveUnit, RowTypes
  <2>3. unit'[t].next = a /\ unit'[t].end = UnitRows(a).end
    BY <2>1, UnitRowsInMatrix DEF RowTypes
  <2> QED
    BY <2>1, <2>2, <2>3 DEF Pending
<1>6. CASE NothingToRemove(t)
  BY <1>6 DEF NothingToRemove, rowVars, Pending
<1>7. CASE CopyRow(t)
  <2>1. /\ \A w \in Workers \ {t} : unit'[w] = unit[w] /\ pc'[w] = pc[w]
        /\ pc[t] = "copy" /\ nextci' = nextci /\ bag' = bag
        /\ unit[t].next + 1 < unit[t].end =>
             /\ pc'[t] = "copy"
             /\ unit'[t].next = unit[t].next + 1 /\ unit'[t].end = unit[t].end
    BY <1>7 DEF CopyRow, RowTypes
  <2>2. unit[t].next \in Int /\ unit[t].end \in Int /\ unit[t].next /= i
    <3>1. unit[t].next \in Nat /\ unit[t].end \in 0 .. M /\ M \in Nat
      BY <2>1, RowAtHand
    <3> QED
      BY <1>7, <3>1
  <2>3. ASSUME unit[t].next <= i, i < unit[t].end
        PROVE  pc'[t] = "copy" /\ unit'[t].next <= i /\ i < unit'[t].end
    <3>1. unit[t].next + 1 <= i /\ unit[t].next + 1 < unit[t].end
      BY <1>0, <2>2, <2>3
    <3> QED
      BY <2>1, <2>3, <3>1
  <2> QED
    BY <2>1, <2>3 DEF Pending
<1> QED
  BY <1>1, <1>2, <1>3, <1>4, <1>5, <1>6, <1>7 DEF RowStep

\* A step of threads that have no unit does not concern the rows.
LEMMA RowsElsewhere ==
  ASSUME UNCHANGED <<nextci, element_count, bag, unit>>,
         \A w \in Workers :
           \/ pc'[w] = pc[w]
           \/ /\ pc[w] \notin {"compute", "insert", "copy"}
              /\ pc'[w] \notin {"compute", "insert", "copy"}
  PROVE  /\ RowTypes /\ UNCHANGED <<rp, C>> => RowTypes'
         /\ Sized => Sized'
         /\ \A i \in Rows : Pending(i) => Pending(i)'
  BY DEF RowTypes, Sized, Pending

\* The starts of the rows are the row pointers of the product, and C has the
\* length it says.
LEMMA StartsOfRows ==
  ASSUME NEW size \in [Rows -> Nat]
  PROVE  /\ [i \in 0 .. M |-> Before(size, i)] \in [0 .. M -> Nat]
         /\ M \in 0 .. M
  BY EntriesFinite, RowStoreAssumption

-----------------------------------------------------------------------------
(***************************************************************************)
(* SpTest and the OpenMP region of DSParallelSpGEMM.                       *)
(***************************************************************************)
RegionPCs == {"join", "claim_unit", "compute", "insert", "leave", "wait_phase1",
        "read_phase2", "claim_phase2", "create", "lay_out", "launch",
        "wait_phase3", "remove", "copy", "done"}

\* The workers that phase1 counts.
InPhase1 == {t \in Workers : pc[t] \in {"claim_unit", "compute", "insert", "leave"}}

\* The points that a worker reaches once it has found no row left, and once it
\* has seen phase 1 end.
PastPhase1 == {"read_phase2", "claim_phase2", "create", "lay_out", "launch",
               "wait_phase3", "remove", "copy", "done"}

PastRows == {"leave", "wait_phase1"} \cup PastPhase1

RegionTypes == pc \in [Workers -> RegionPCs] /\ nextci \in Nat

CountsPhase1 == phase1 = Cardinality(InPhase1)

\* When some worker found no row, there is none left for the others either.
NoRowLeft == \A t \in Workers : pc[t] \in PastRows => nextci >= M

\* phase1 was 0 for one worker: at that point no other had a row, and those
\* that come later get none.
NoneComputing ==
  \A t, u \in Workers : pc[t] \in PastPhase1 => pc[u] \notin {"compute", "insert"}

LateInv == RegionTypes /\ CountsPhase1 /\ NoRowLeft /\ NoneComputing

\* The points of the sequential phase, and those after it.
RegionSequential == {"create", "lay_out", "launch"}

RegionPastPhase2 == {"remove", "copy", "done"}

\* When phase2 is 1 one worker came to the sequential phase; while it is there
\* no other is past it, and once it is over no other comes to it.
Unraced ==
  /\ phase2 \in Nat /\ phase3 \in Nat
  /\ Workers = {} => phase2 = 0
  /\ phase2 = 0 =>
       /\ phase3 = 0
       /\ \A t \in Workers :
            pc[t] \notin RegionSequential \cup RegionPastPhase2 \cup {"wait_phase3"}
  /\ phase2 = 1 /\ phase3 = 0 =>
       /\ \A t \in Workers : pc[t] \notin RegionPastPhase2
       /\ \A t, u \in Workers : pc[t] \in RegionSequential /\ pc[u] \in RegionSequential => t = u
  /\ phase2 = 1 /\ phase3 /= 0 => \A t \in Workers : pc[t] \notin RegionSequential

\* Unless two workers laid C out, nobody who copies finds it in another shape.
RegionLaidOut ==
  phase2 = 1 =>
    /\ \A t \in Workers : pc[t] \in {"launch"} \cup RegionPastPhase2 => Laid
    /\ phase3 /= 0 => Laid

\* No row is lost: each is to be copied, or was copied after the layout.
RegionCovered ==
  phase2 \in {0, 1} =>
    \A i \in Rows :
      \/ Pending(i)
      \/ Copied(i) /\ \E t \in Workers : pc[t] \in RegionPastPhase2

RegionEmptied == (\E t \in Workers : pc[t] = "done") => bag = {}

\* However many workers ran the sequential phase: when someone may copy, C is
\* laid out or a worker is about to do it again.
RegionShape ==
  phase3 /= 0 \/ (\E t \in Workers : pc[t] \in {"launch"} \cup RegionPastPhase2)
    => Laid \/ \E t \in Workers : pc[t] = "lay_out"

RegionRowInv ==
  RowTypes /\ Sized /\ Unraced /\ RegionLaidOut /\ RegionCovered /\ RegionEmptied /\ RegionShape

-----------------------------------------------------------------------------
\* The set of workers in phase 1 is finite, and empty when its size is 0.
LEMMA Phase1Finite ==
  /\ IsFiniteSet(InPhase1)
  /\ Cardinality(InPhase1) \in Nat
  /\ Cardinality(InPhase1) = 0 => InPhase1 = {}
<1>1. IsFiniteSet(Workers) /\ InPhase1 \subseteq Workers
  BY RowStoreAssumption DEF InPhase1
<1>2. IsFiniteSet(InPhase1)
  BY <1>1, FS_Subset
<1> QED
  BY <1>2, FS_CardinalityType, FS_EmptySet

\* At first nobody has joined.
LEMMA InitLateInv == RegionInit => LateInv
<1> SUFFICES ASSUME RegionInit PROVE LateInv
  OBVIOUS
<1>1. InPhase1 = {}
  BY DEF RegionInit, InPhase1
<1>2. CountsPhase1
  BY <1>1, FS_EmptySet DEF CountsPhase1, RegionInit
<1> QED
  BY <1>2 DEF RegionInit, RowStoreInit, LateInv, RegionTypes, RegionPCs, NoRowLeft, NoneComputing,
              PastRows, PastPhase1

\* A step of t that keeps it on its side of phase 1 keeps the count.
LEMMA CountKept ==
  ASSUME LateInv, NEW t \in Workers, NEW there, Goto(t, there), UNCHANGED phase1,
         t \in InPhase1
           <=> there \in {"claim_unit", "compute", "insert", "leave"}
  PROVE  CountsPhase1'
<1>1. InPhase1' = InPhase1
  BY DEF Goto, InPhase1, LateInv, RegionTypes
<1> QED
  BY <1>1 DEF LateInv, CountsPhase1

\* phase1 counts the workers between Join and Leave.
LEMMA CountStep == ASSUME LateInv, NEW t \in Workers, RegionStep(t) PROVE CountsPhase1'
<1> USE DEF LateInv, RegionTypes
<1>1. CASE Join(t)
  <2>1. t \notin InPhase1 /\ InPhase1' = InPhase1 \cup {t}
    BY <1>1 DEF Join, Goto, InPhase1
  <2>2. Cardinality(InPhase1') = Cardinality(InPhase1) + 1
    BY <2>1, Phase1Finite, FS_AddElement
  <2> QED
    BY <1>1, <2>2 DEF Join, CountsPhase1
<1>2. CASE Leave(t)
  <2>1. t \in InPhase1 /\ InPhase1' = InPhase1 \ {t}
    BY <1>2 DEF Leave, Goto, InPhase1
  <2>2. Cardinality(InPhase1') = Cardinality(InPhase1) - 1
    BY <2>1, Phase1Finite, FS_RemoveElement
  <2> QED
    BY <1>2, <2>2 DEF Leave, CountsPhase1
<1>3. CASE ClaimUnit(t) /\ UNCHANGED phases
  BY <1>3, CountKept DEF ClaimUnit, InPhase1, phases
<1>4. CASE NoUnitLeft(t, "leave") /\ UNCHANGED phases
  BY <1>4, CountKept DEF NoUnitLeft, InPhase1, phases
<1>5. CASE ComputeRow(t) /\ UNCHANGED phases
  <2>1. PICK there \in {"compute", "insert"} : Goto(t, there)
    BY <1>5 DEF ComputeRow
  <2> QED
    BY <1>5, <2>1, CountKept DEF ComputeRow, InPhase1, phases
<1>6. CASE InsertUnit(t) /\ UNCHANGED phases
  BY <1>6, CountKept DEF InsertUnit, InPhase1, phases
<1>7. CASE (RemoveUnit(t) \/ NothingToRemove(t)) /\ UNCHANGED phases
  BY <1>7, CountKept DEF RemoveUnit, NothingToRemove, InPhase1, phases
<1>8. CASE CopyRow(t) /\ UNCHANGED phases
  <2>1. PICK there \in {"copy", "remove"} : Goto(t, there)
    BY <1>8 DEF CopyRow
  <2> QED
    BY <1>8, <2>1, CountKept DEF CopyRow, InPhase1, phases
<1>9. CASE WaitPhase1(t) \/ CountPhase2(t)
  BY <1>9, CountKept DEF WaitPhase1, CountPhase2, InPhase1, phases
<1>10. CASE SeePhase2(t)
  <2>1. PICK there \in {"claim_phase2", "wait_phase3"} : Goto(t, there)
    BY <1>10 DEF SeePhase2
  <2> QED
    BY <1>10, <2>1, CountKept DEF SeePhase2, InPhase1, phases
<1>11. CASE Create(t) \/ LayOutRows(t)
  BY <1>11, CountKept DEF Create, LayOutRows, InPhase1, phases
<1>12. CASE LaunchPhase3(t) \/ AwaitPhase3(t)
  BY <1>12, CountKept DEF LaunchPhase3, AwaitPhase3, InPhase1, phases
<1> QED
  BY <1>1, <1>2, <1>3, <1>4, <1>5, <1>6, <1>7, <1>8, <1>9, <1>10, <1>11, <1>12
     DEF RegionStep, RowStep

\* What the first worker past phase 1 relies on is not undone by later ones.
LEMMA RowsStep ==
  ASSUME LateInv, NEW t \in Workers, RegionStep(t)
  PROVE  RegionTypes' /\ NoRowLeft' /\ NoneComputing'
<1> USE RowStoreAssumption
    DEF LateInv, RegionTypes, NoRowLeft, NoneComputing, RegionPCs, PastRows, PastPhase1, Goto
<1>1. CASE Join(t) \/ Leave(t)
  BY <1>1 DEF Join, Leave, rowVars
<1>2. CASE WaitPhase1(t)
  <2>1. InPhase1 = {}
    BY <1>2, Phase1Finite DEF WaitPhase1, CountsPhase1
  <2>2. \A u \in Workers : pc[u] \notin {"compute", "insert"}
    BY <2>1 DEF InPhase1
  <2> QED
    BY <1>2, <2>2 DEF WaitPhase1, rowVars
<1>3. CASE ClaimUnit(t)
  BY <1>3 DEF ClaimUnit
<1>4. CASE NoUnitLeft(t, "leave")
  BY <1>4 DEF NoUnitLeft
<1>5. CASE ComputeRow(t)
  BY <1>5 DEF ComputeRow
<1>6. CASE InsertUnit(t)
  BY <1>6 DEF InsertUnit
<1>7. CASE RemoveUnit(t) \/ NothingToRemove(t)
  BY <1>7 DEF RemoveUnit, NothingToRemove, rowVars
<1>8. CASE CopyRow(t)
  BY <1>8 DEF CopyRow
<1>9. CASE SeePhase2(t) \/ CountPhase2(t)
  BY <1>9 DEF SeePhase2, CountPhase2, rowVars
<1>10. CASE Create(t) \/ LayOutRows(t)
  BY <1>10 DEF Create, LayOutRows
<1>11. CASE LaunchPhase3(t) \/ AwaitPhase3(t)
  BY <1>11 DEF LaunchPhase3, AwaitPhase3, rowVars
<1> QED
  BY <1>1, <1>2, <1>3, <1>4, <1>5, <1>6, <1>7, <1>8, <1>9, <1>10, <1>11
     DEF RegionStep, RowStep

\* The invariant holds in every state.
LEMMA LateInvStep == LateInv /\ [RegionNext]_regionVars => LateInv'
<1>1. LateInv /\ UNCHANGED regionVars => LateInv'
  BY DEF LateInv, RegionTypes, CountsPhase1, NoRowLeft, NoneComputing, InPhase1, regionVars,
         rowVars, phases
<1> QED
  BY <1>1, CountStep, RowsStep DEF RegionNext, LateInv

LEMMA LateInvariance == RegionSpec => []LateInv
BY LateInvStep, InitLateInv, PTL DEF RegionSpec

LEMMA LateInvSafe == LateInv => LateArrivalsSafe
BY DEF LateInv, NoRowLeft, NoneComputing, LateArrivalsSafe, RowsStored,
       PastPhase1, PastRows

\* However late a worker arrives: once one has seen phase 1 end, all rows are
\* computed and stored.
THEOREM LateArrivalsAreSafe == RegionSpec => []LateArrivalsSafe
BY LateInvSafe, LateInvariance, PTL

-----------------------------------------------------------------------------
\* The steps between the phases, which leave the rows alone.
RegionWaiting(t) ==
  \/ Join(t) \/ Leave(t) \/ WaitPhase1(t) \/ SeePhase2(t) \/ CountPhase2(t)
  \/ LaunchPhase3(t) \/ AwaitPhase3(t)

LEMMA RegionWaitingLeavesRows ==
  ASSUME RegionTypes, NEW t \in Workers, RegionWaiting(t)
  PROVE  /\ UNCHANGED rowVars
         /\ \A w \in Workers :
              \/ pc'[w] = pc[w]
              \/ /\ pc[w] \notin {"compute", "insert", "copy", "done"}
                 /\ pc'[w] \notin {"compute", "insert", "copy", "done"}
         /\ (\E w \in Workers : pc[w] \in RegionPastPhase2)
              => \E w \in Workers : pc'[w] \in RegionPastPhase2
<1> USE DEF Goto, RegionTypes, RegionPastPhase2
<1>1. CASE Join(t) \/ Leave(t)
  BY <1>1 DEF Join, Leave
<1>2. CASE WaitPhase1(t) \/ SeePhase2(t)
  BY <1>2 DEF WaitPhase1, SeePhase2
<1>3. CASE CountPhase2(t) \/ LaunchPhase3(t) \/ AwaitPhase3(t)
  BY <1>3 DEF CountPhase2, LaunchPhase3, AwaitPhase3
<1> QED
  BY <1>1, <1>2, <1>3 DEF RegionWaiting

\* What a step on rows leaves alone.
RegionRowsOnly(t) == RowStep(t, "leave") /\ UNCHANGED phases

LEMMA RegionRowStepFacts ==
  ASSUME RegionTypes, NEW t \in Workers, RegionRowsOnly(t)
  PROVE  /\ phase2' = phase2 /\ phase3' = phase3
         /\ \A w \in Workers \ {t} : pc'[w] = pc[w]
         /\ \/ /\ pc[t] \in {"claim_unit", "compute", "insert"}
               /\ pc'[t] \in {"claim_unit", "compute", "insert", "leave"}
            \/ pc[t] \in {"remove", "copy"} /\ pc'[t] \in {"remove", "copy"}
            \/ pc[t] = "remove" /\ pc'[t] = "done" /\ bag = {} /\ bag' = {}
         /\ ~CopyRow(t) => UNCHANGED <<rp, C>>
<1> USE DEF Goto, RegionTypes, RegionRowsOnly, phases
<1>1. CASE ClaimUnit(t) \/ NoUnitLeft(t, "leave")
  BY <1>1 DEF ClaimUnit, NoUnitLeft
<1>2. CASE ComputeRow(t)
  BY <1>2 DEF ComputeRow
<1>3. CASE InsertUnit(t)
  BY <1>3 DEF InsertUnit
<1>4. CASE RemoveUnit(t) \/ NothingToRemove(t)
  BY <1>4 DEF RemoveUnit, NothingToRemove, rowVars
<1>5. CASE CopyRow(t)
  BY <1>5 DEF CopyRow
<1> QED
  BY <1>1, <1>2, <1>3, <1>4, <1>5 DEF RowStep

LEMMA WorkerSteps ==
  ASSUME NEW t \in Workers, RegionStep(t)
  PROVE  RegionRowsOnly(t) \/ Create(t) \/ LayOutRows(t) \/ RegionWaiting(t)
  BY DEF RegionStep, RegionRowsOnly, RegionWaiting

\* The sequential phase moves one worker.
LEMMA SequentialFacts ==
  ASSUME RegionTypes, NEW t \in Workers, Create(t) \/ LayOutRows(t)
  PROVE  /\ UNCHANGED <<nextci, element_count, bag, unit, phase1, phase2, phase3>>
         /\ pc[t] \in RegionSequential /\ pc'[t] \in RegionSequential
         /\ \A w \in Workers \ {t} : pc'[w] = pc[w]
         /\ \A w \in Workers :
              \/ pc'[w] = pc[w]
              \/ /\ pc[w] \notin {"compute", "insert", "copy"}
                 /\ pc'[w] \notin {"compute", "insert", "copy"}
  BY DEF Create, LayOutRows, Goto, RegionTypes, RegionSequential, phases

\* Past phase 1 the size of every row is known.
LEMMA RegionSizesKnown ==
  ASSUME LateInv, RowTypes, Sized, NEW t \in Workers, pc[t] \in PastPhase1
  PROVE  element_count = Nnz /\ \A i \in Rows : element_count[i] = Nnz[i]
<1>1. nextci >= M /\ nextci \in Nat
  BY DEF LateInv, RegionTypes, NoRowLeft, PastRows
<1>2. \A w \in Workers : pc[w] /= "compute"
  BY DEF LateInv, NoneComputing
<1>3. \A i \in Rows : ~(nextci <= i)
  BY <1>1, RowStoreAssumption DEF Rows
<1>4. \A i \in Rows : element_count[i] = Nnz[i]
  BY <1>2, <1>3 DEF Sized
<1> QED
  BY <1>4, RowStoreAssumption DEF RowTypes

-----------------------------------------------------------------------------
\* One worker at most is in the sequential phase as long as phase2 is 1.
LEMMA UnracedKept ==
  ASSUME RegionTypes, Unraced, NEW t \in Workers, RegionStep(t)
  PROVE  Unraced'
<1> USE DEF RegionTypes, Unraced, RegionSequential, RegionPastPhase2, Goto
<1>1. CASE RegionRowsOnly(t)
  BY <1>1, RegionRowStepFacts
<1>2. CASE Create(t) \/ LayOutRows(t)
  BY <1>2, SequentialFacts
<1>3. CASE Join(t) \/ Leave(t)
  BY <1>3 DEF Join, Leave
<1>4. CASE WaitPhase1(t) \/ SeePhase2(t)
  BY <1>4 DEF WaitPhase1, SeePhase2, phases
<1>5. CASE CountPhase2(t)
  BY <1>5 DEF CountPhase2
<1>6. CASE LaunchPhase3(t)
  BY <1>6 DEF LaunchPhase3
<1>7. CASE AwaitPhase3(t)
  BY <1>7 DEF AwaitPhase3, phases
<1> QED
  BY <1>1, <1>2, <1>3, <1>4, <1>5, <1>6, <1>7, WorkerSteps DEF RegionWaiting

LEMMA RegionRowTypesKept ==
  ASSUME LateInv, RowTypes, Sized, NEW t \in Workers, RegionStep(t)
  PROVE  RowTypes' /\ Sized'
<1>0. pc = [w \in Workers |-> pc[w]] /\ RegionTypes
  BY DEF LateInv, RegionTypes
<1>1. CASE RegionRowsOnly(t)
  BY <1>0, <1>1, RowTypesStep, SizedStep DEF RegionRowsOnly
<1>2. CASE Create(t) \/ LayOutRows(t)
  <2>1. rp' \in [0 .. M -> Nat] /\ DOMAIN C' = 0 .. rp'[M] - 1
    <3>1. CASE Create(t)
      BY <3>1, RowStoreAssumption DEF Create
    <3>2. CASE LayOutRows(t)
      <4>1. element_count \in [Rows -> Nat]
        BY DEF RowTypes
      <4> QED
        BY <3>2, <4>1, StartsOfRows DEF LayOutRows, LayOut, SizeBefore
    <3> QED BY <1>2, <3>1, <3>2
  <2>2. Sized'
    BY <1>0, <1>2, SequentialFacts, RowsElsewhere
  <2> QED
    BY <1>0, <1>2, <2>1, <2>2, SequentialFacts DEF RowTypes
<1>3. CASE RegionWaiting(t)
  <2>1. \A w \in Workers :
          \/ pc'[w] = pc[w]
          \/ /\ pc[w] \notin {"compute", "insert", "copy"}
             /\ pc'[w] \notin {"compute", "insert", "copy"}
    BY <1>0, <1>3, RegionWaitingLeavesRows
  <2> QED
    BY <1>0, <1>3, <2>1, RegionWaitingLeavesRows, RowsElsewhere DEF rowVars
<1> QED
  BY <1>1, <1>2, <1>3, WorkerSteps

\* If phase2 stays 1, C is laid out once, for the product, before anyone copies.
LEMMA RegionLaidOutKept ==
  ASSUME LateInv, RegionRowInv, NEW t \in Workers, RegionStep(t)
  PROVE  RegionLaidOut'
<1>0. RegionTypes
  BY DEF LateInv
<1>1. CASE RegionRowsOnly(t)
  <2>1. CASE CopyRow(t) /\ phase2 = 1
    <3>1. pc[t] = "copy"
      BY <2>1 DEF CopyRow
    <3>2. Laid
      BY <2>1, <3>1 DEF RegionRowInv, RegionLaidOut, RegionPastPhase2
    <3>3. \A i \in Rows : element_count[i] = Nnz[i]
      BY <3>1, RegionSizesKnown DEF RegionRowInv, PastPhase1
    <3> QED
      BY <2>1, <3>2, <3>3, CopiedStep DEF RegionLaidOut, RegionRowInv
  <2>2. CASE CopyRow(t) /\ phase2 /= 1
    BY <1>0, <1>1, <2>2, RegionRowStepFacts DEF RegionLaidOut
  <2>3. CASE ~CopyRow(t)
    <3>1. Laid' <=> Laid
      BY <1>0, <1>1, <2>3, RegionRowStepFacts DEF Laid
    <3> QED
      BY <1>0, <1>1, <3>1, RegionRowStepFacts DEF RegionRowInv, RegionLaidOut, RegionPastPhase2
  <2> QED BY <2>1, <2>2, <2>3
<1>2. CASE Create(t)
  <2>1. pc[t] = "create" /\ pc' = [pc EXCEPT ![t] = "lay_out"] /\ phase2' = phase2
        /\ phase3' = phase3
    BY <1>2 DEF Create, Goto, phases
  <2> QED
    BY <1>0, <2>1 DEF RegionRowInv, Unraced, RegionLaidOut, RegionSequential,
       RegionPastPhase2, RegionTypes
<1>3. CASE LayOutRows(t)
  <2>1. pc[t] = "lay_out"
    BY <1>3 DEF LayOutRows
  <2>2. element_count = Nnz
    BY <2>1, RegionSizesKnown DEF PastPhase1, RegionRowInv
  <2>3. Laid'
    BY <1>3, <2>2 DEF LayOutRows, LayOut, SizeBefore, Laid
  <2> QED BY <2>3 DEF RegionLaidOut
<1>4. CASE RegionWaiting(t)
  <2>1. Laid' <=> Laid
    BY <1>0, <1>4, RegionWaitingLeavesRows DEF rowVars, Laid
  <2> USE <2>1 DEF RegionRowInv, LateInv, RegionLaidOut, RegionTypes, Unraced,
        RegionSequential, RegionPastPhase2, Goto, phases
  <2>2. CASE Join(t) \/ Leave(t)
    BY <2>2 DEF Join, Leave
  <2>3. CASE WaitPhase1(t) \/ SeePhase2(t)
    BY <2>3 DEF WaitPhase1, SeePhase2
  <2>4. CASE CountPhase2(t)
    BY <2>4 DEF CountPhase2
  <2>5. CASE LaunchPhase3(t)
    BY <2>5 DEF LaunchPhase3
  <2>6. CASE AwaitPhase3(t)
    BY <2>6 DEF AwaitPhase3
  <2> QED
    BY <1>4, <2>2, <2>3, <2>4, <2>5, <2>6 DEF RegionWaiting
<1> QED
  BY <1>1, <1>2, <1>3, <1>4, WorkerSteps

\* No row is lost, and the bag that was found empty stays so.
LEMMA RegionCoveredKept ==
  ASSUME LateInv, RegionRowInv, NEW t \in Workers, RegionStep(t)
  PROVE  RegionCovered' /\ RegionEmptied'
<1>0. pc = [w \in Workers |-> pc[w]] /\ RegionTypes /\ phase2 \in Nat
  BY DEF LateInv, RegionTypes, RegionRowInv, Unraced
<1>1. CASE RegionRowsOnly(t)
  <2> USE RegionRowStepFacts, <1>0, <1>1
  <2>1. (\E w \in Workers : pc[w] \in RegionPastPhase2) =>
          \E w \in Workers : pc'[w] \in RegionPastPhase2
    BY DEF RegionPastPhase2
  <2>2. ASSUME NEW i \in Rows, phase2 \in {0, 1}, CopyRow(t), i = unit[t].next \/ Copied(i)
        PROVE  Copied(i)' /\ \E w \in Workers : pc'[w] \in RegionPastPhase2
    <3>1. pc[t] = "copy" /\ pc[t] \in RegionPastPhase2 /\ pc[t] \in PastPhase1
      BY <2>2 DEF CopyRow, RegionPastPhase2, PastPhase1
    <3>2. phase2 = 1
      BY <2>2, <3>1 DEF RegionRowInv, Unraced
    <3>3. Laid
      BY <3>1, <3>2 DEF RegionRowInv, RegionLaidOut
    <3>4. \A j \in Rows : element_count[j] = Nnz[j]
      BY <3>1, RegionSizesKnown DEF RegionRowInv
    <3> QED
      BY <2>1, <2>2, <3>1, <3>3, <3>4, CopiedStep DEF RegionRowInv
  <2>3. ASSUME NEW i \in Rows, ~CopyRow(t), Copied(i) PROVE Copied(i)'
    BY <2>3 DEF Copied
  <2>4. ASSUME NEW i \in Rows, Pending(i), CopyRow(t) => unit[t].next /= i
        PROVE  Pending(i)'
    BY <2>4, PendingStep DEF RegionRowsOnly, RegionRowInv
  <2>5. RegionCovered'
    BY <2>1, <2>2, <2>3, <2>4 DEF RegionCovered, RegionRowInv
  <2>6. CASE pc[t] \in {"compute", "insert"}
    <3>1. \A w \in Workers : pc[w] /= "done" /\ pc'[w] /= "done"
      BY <2>6 DEF LateInv, NoneComputing, PastPhase1
    <3> QED BY <2>5, <3>1 DEF RegionEmptied
  <2>7. CASE pc[t] \notin {"compute", "insert"}
    <3>1. ClaimUnit(t) \/ NoUnitLeft(t, "leave") \/ RemoveUnit(t) \/ NothingToRemove(t)
            \/ CopyRow(t)
      BY <2>7 DEF RegionRowsOnly, RowStep, ComputeRow, InsertUnit
    <3>2. bag = {} => bag' = {}
      BY <3>1 DEF ClaimUnit, NoUnitLeft, RemoveUnit, NothingToRemove, CopyRow, rowVars
    <3> QED BY <2>5, <2>7, <3>2 DEF RegionEmptied, RegionRowInv
  <2> QED BY <2>6, <2>7
<1>2. CASE Create(t) \/ LayOutRows(t)
  <2>1. pc[t] \in RegionSequential /\ phase2' = phase2 /\ bag' = bag
    BY <1>0, <1>2, SequentialFacts
  <2>2. phase2 \in {0, 1} => \A w \in Workers : pc[w] \notin RegionPastPhase2
    BY <2>1 DEF RegionRowInv, Unraced
  <2>3. \A i \in Rows : Pending(i) => Pending(i)'
    BY <1>0, <1>2, SequentialFacts, RowsElsewhere
  <2>4. \A w \in Workers : pc'[w] = "done" => pc[w] = "done"
    BY <1>0, <1>2, SequentialFacts DEF RegionSequential
  <2> QED BY <2>1, <2>2, <2>3, <2>4 DEF RegionRowInv, RegionCovered, RegionEmptied
<1>3. CASE RegionWaiting(t)
  <2>0. UNCHANGED <<nextci, element_count, bag, unit, rp, C>>
    BY <1>0, <1>3, RegionWaitingLeavesRows DEF rowVars
  <2>1. \A i \in Rows : Pending(i) => Pending(i)'
    <3>1. \A w \in Workers :
            \/ pc'[w] = pc[w]
            \/ /\ pc[w] \notin {"compute", "insert", "copy"}
               /\ pc'[w] \notin {"compute", "insert", "copy"}
      BY <1>0, <1>3, RegionWaitingLeavesRows
    <3> QED
      BY <2>0, <3>1, RowsElsewhere
  <2>2. \A i \in Rows : Copied(i) => Copied(i)'
    BY <2>0 DEF Copied
  <2>3. phase2' \in {0, 1} => phase2 \in {0, 1}
    BY <1>0, <1>3 DEF RegionWaiting, Join, Leave, WaitPhase1, SeePhase2, CountPhase2,
       LaunchPhase3, AwaitPhase3, phases
  <2>4. RegionCovered'
    BY <1>0, <1>3, <2>1, <2>2, <2>3, RegionWaitingLeavesRows DEF RegionCovered, RegionRowInv
  <2>5. \A w \in Workers : pc'[w] = "done" => pc[w] = "done"
    BY <1>0, <1>3, RegionWaitingLeavesRows
  <2> QED
    BY <2>0, <2>4, <2>5 DEF RegionEmptied, RegionRowInv
<1> QED
  BY <1>1, <1>2, <1>3, WorkerSteps

\* A worker that makes new arrays lays them out, and copying to arrays that are
\* laid out leaves them so.
LEMMA RegionShapeKept ==
  ASSUME LateInv, RegionRowInv, NEW t \in Workers, RegionStep(t)
  PROVE  RegionShape'
<1>0. RegionTypes /\ RegionShape
  BY DEF LateInv, RegionRowInv
<1>1. CASE RegionRowsOnly(t)
  <2>1. Laid => Laid'
    BY <1>0, <1>1, RegionRowStepFacts DEF Laid, CopyRow
  <2>2. /\ phase3' = phase3
        /\ \A w \in Workers : pc'[w] \in {"launch"} \cup RegionPastPhase2
             => pc[w] \in {"launch"} \cup RegionPastPhase2
        /\ \A w \in Workers : pc[w] = "lay_out" => pc'[w] = "lay_out"
    BY <1>0, <1>1, RegionRowStepFacts DEF RegionPastPhase2
  <2> QED
    BY <1>0, <2>1, <2>2 DEF RegionShape
<1>2. CASE Create(t)
  BY <1>0, <1>2 DEF Create, Goto, RegionShape, RegionTypes
<1>3. CASE LayOutRows(t)
  <2>1. pc[t] = "lay_out"
    BY <1>3 DEF LayOutRows
  <2>2. element_count = Nnz
    BY <2>1, RegionSizesKnown DEF PastPhase1, RegionRowInv
  <2>3. Laid'
    BY <1>3, <2>2 DEF LayOutRows, LayOut, SizeBefore, Laid
  <2> QED BY <2>3 DEF RegionShape
<1>4. CASE RegionWaiting(t)
  <2>1. Laid' <=> Laid
    BY <1>0, <1>4, RegionWaitingLeavesRows DEF rowVars, Laid
  <2> USE <1>0, <2>1 DEF RegionShape, RegionTypes, RegionPastPhase2, Goto, phases
  <2>2. CASE Join(t) \/ Leave(t)
    BY <2>2 DEF Join, Leave
  <2>3. CASE WaitPhase1(t) \/ SeePhase2(t)
    BY <2>3 DEF WaitPhase1, SeePhase2
  <2>4. CASE CountPhase2(t)
    BY <2>4 DEF CountPhase2
  <2>5. CASE LaunchPhase3(t)
    BY <2>5 DEF LaunchPhase3
  <2>6. CASE AwaitPhase3(t)
    BY <2>6 DEF AwaitPhase3
  <2> QED
    BY <1>4, <2>2, <2>3, <2>4, <2>5, <2>6 DEF RegionWaiting
<1> QED
  BY <1>1, <1>2, <1>3, <1>4, WorkerSteps

\* All rows are to be computed at first.
LEMMA RegionInitRowInv == RegionInit => RegionRowInv
<1> SUFFICES ASSUME RegionInit PROVE RegionRowInv
  OBVIOUS
<1> USE RowStoreAssumption DEF RegionInit, RowStoreInit
<1>1. RowTypes
  BY DEF RowTypes, NoUnit, UnitType
<1>2. /\ \A i \in Rows : nextci <= i
      /\ \A t \in Workers : pc[t] = "join"
  BY DEF Rows
<1>3. Sized /\ RegionLaidOut /\ RegionCovered /\ RegionEmptied
  BY <1>2 DEF Sized, RegionLaidOut, RegionCovered, Pending, RegionEmptied, RegionPastPhase2
<1>4. Unraced
  BY <1>2 DEF Unraced, RegionSequential, RegionPastPhase2
<1>5. RegionShape
  BY <1>2 DEF RegionShape, RegionPastPhase2
<1> QED
  BY <1>1, <1>3, <1>4, <1>5 DEF RegionRowInv

\* The invariant of the rows holds in every state.
LEMMA RowInvStep == LateInv /\ RegionRowInv /\ [RegionNext]_regionVars => RegionRowInv'
<1>1. RegionRowInv /\ UNCHANGED regionVars => RegionRowInv'
  BY DEF RegionRowInv, RowTypes, Sized, Unraced, RegionLaidOut, Laid, RegionCovered,
         Pending, Copied, RegionEmptied, RegionShape,
         regionVars, rowVars, phases
<1>2. ASSUME LateInv, RegionRowInv, NEW t \in Workers, RegionStep(t) PROVE RegionRowInv'
  BY <1>2, RegionRowTypesKept, UnracedKept, RegionLaidOutKept, RegionCoveredKept,
     RegionShapeKept
     DEF RegionRowInv, LateInv
<1> QED
  BY <1>1, <1>2 DEF RegionNext

LEMMA RegionRowInvariance == RegionSpec => []RegionRowInv
BY RowInvStep, RegionInitRowInv, LateInvariance, PTL DEF RegionSpec

LEMMA ProductOfInv == LateInv /\ RegionRowInv => ProductUnlessRaced
<1>1. ASSUME LateInv, RegionRowInv, AllDone, phase2 = 1 PROVE IsProduct /\ bag = {}
  <2>1. PICK t \in Workers : pc[t] = "done"
    BY <1>1 DEF AllDone, RegionRowInv, Unraced
  <2>2. bag = {} /\ Laid
    BY <1>1, <2>1 DEF RegionRowInv, RegionEmptied, RegionLaidOut, RegionPastPhase2
  <2>3. nextci >= M /\ nextci \in Nat
    BY <1>1, <2>1 DEF LateInv, RegionTypes, NoRowLeft, PastRows, PastPhase1
  <2>4. \A i \in Rows : ~Pending(i)
    BY <1>1, <2>2, <2>3, RowStoreAssumption DEF Pending, AllDone, Rows
  <2>5. \A i \in Rows : Copied(i)
    BY <1>1, <2>4 DEF RegionRowInv, RegionCovered
  <2> QED
    BY <2>2, <2>5 DEF Laid, Copied, IsProduct
<1> QED
  BY <1>1 DEF ProductUnlessRaced

\* If only one worker claimed phase 2, C is the product when all are done,
\* whatever the matrix and however late the others arrived.
THEOREM UnracedProduct == RegionSpec => []ProductUnlessRaced
BY ProductOfInv, LateInvariance, RegionRowInvariance, PTL

LEMMA PointersOfInv == LateInv /\ RegionRowInv => RowPointersRight
<1>1. ASSUME LateInv, RegionRowInv, AllDone, phase2 > 0 PROVE Laid
  <2>1. PICK t \in Workers : pc[t] = "done"
    BY <1>1 DEF AllDone, RegionRowInv, Unraced
  <2> QED
    BY <1>1, <2>1 DEF AllDone, RegionRowInv, RegionShape, RegionPastPhase2
<1> QED
  BY <1>1 DEF RowPointersRight, Laid

\* However many workers claimed phase 2, when all are done the row pointers of C
\* are those of the product.
THEOREM RowPointersAreRight == RegionSpec => []RowPointersRight
BY PointersOfInv, LateInvariance, RegionRowInvariance, PTL

-----------------------------------------------------------------------------
\* The triplet store.

\* The points of its two parallel regions.
Filling == {"claim_unit", "compute", "end_parallel"}

Emptying == {"remove", "claim_slot", "fill", "done"}

FirstRegion == \A t \in Workers : pc[t] \in Filling

SecondRegion == \A t \in Workers : pc[t] \in Emptying

\* The nonzeros of row i, and all of them.
Triples(i) == {<<i, k>> : k \in 0 .. Nnz[i] - 1}

Nonzeros == UNION {Triples(i) : i \in Rows}

TripletTypes ==
  /\ pc = [t \in Workers |-> pc[t]]
  /\ FirstRegion \/ SecondRegion
  /\ nextci \in Nat
  /\ element_count \in [Rows -> Nat]
  /\ unit \in [Workers -> UnitType]
  /\ nnz \in [Workers -> Nat]
  /\ bag \subseteq Nonzeros
  /\ rp \in [0 .. M -> Int]
  /\ idx \in [Workers -> Int]
  /\ triple = [t \in Workers |-> triple[t]]
  /\ \A t \in Workers :
       /\ pc[t] = "compute" =>
            /\ unit[t].next < unit[t].end
            /\ nnz[t] <= Nnz[unit[t].next]
       /\ pc[t] /= "compute" => nnz[t] = 0
       /\ pc[t] \notin {"claim_unit", "compute"} => nextci >= M
       /\ pc[t] \in {"claim_slot", "fill"} => triple[t] \in Nonzeros

\* What worker t, in the first region, has yet to do of row i, and of its
\* nonzero k.
HasRow(t, i) == pc[t] = "compute" /\ unit[t].next <= i /\ i < unit[t].end

HasNonzero(t, i, k) == HasRow(t, i) /\ (i = unit[t].next => nnz[t] <= k)

\* A row is unclaimed, in the rest of a unit, or its size is known; and a
\* nonzero is yet to be found, or it is in the bag.
TripletSized ==
  \A i \in Rows :
    nextci <= i \/ (\E t \in Workers : HasRow(t, i)) \/ element_count[i] = Nnz[i]

Found ==
  FirstRegion =>
    \A i \in Rows : \A k \in 0 .. Nnz[i] - 1 :
      nextci <= i \/ (\E t \in Workers : HasNonzero(t, i, k)) \/ <<i, k>> \in bag

\* The slots of row i that were claimed.
ClaimedSlots(i) == rp[i] .. Before(Nnz, i + 1) - 1

Unplaced(i) == {x \in bag : x[1] = i}

Deciding(i) == {t \in Workers : pc[t] = "claim_slot" /\ triple[t][1] = i}

Shape ==
  /\ rp[M] = Before(Nnz, M)
  /\ \A i \in Rows : rp[i] <= Before(Nnz, i + 1)
  /\ DOMAIN C = 0 .. Before(Nnz, M) - 1

SlotsCounted ==
  \A i \in Rows :
    rp[i] - Before(Nnz, i) = Cardinality(Unplaced(i)) + Cardinality(Deciding(i))

\* Two workers that fill C have claimed two slots.
OwnSlots ==
  /\ \A t \in Workers : pc[t] = "fill" => idx[t] \in ClaimedSlots(triple[t][1])
  /\ \A t, u \in Workers : pc[t] = "fill" /\ pc[u] = "fill" /\ idx[t] = idx[u] => t = u

\* No worker is about to fill slot s.
Settled(s) == \A t \in Workers : pc[t] = "fill" => idx[t] /= s

\* A slot that was claimed is about to be filled, or has a nonzero of its row.
SlotsFilled ==
  \A i \in Rows : \A s \in ClaimedSlots(i) : Settled(s) => C[s] \in Triples(i)

\* No nonzero is lost.
Placed(x) == \E s \in ClaimedSlots(x[1]) : C[s] = x /\ Settled(s)

NonzerosKept ==
  \A x \in Nonzeros :
    \/ x \in bag
    \/ \E t \in Workers : pc[t] \in {"claim_slot", "fill"} /\ triple[t] = x
    \/ Placed(x)

BagEmptied == (\E t \in Workers : pc[t] = "done") => bag = {}

SlotInv == Shape /\ SlotsCounted /\ OwnSlots /\ SlotsFilled /\ NonzerosKept /\ BagEmptied

TripletInv == TripletTypes /\ TripletSized /\ Found /\ (SecondRegion => SlotInv)

\* A row has as many triples as nonzeros.
LEMMA TriplesOfRow ==
  ASSUME NEW i \in Rows
  PROVE  /\ IsFiniteSet(Triples(i)) /\ Cardinality(Triples(i)) = Nnz[i]
         /\ \A x \in Nonzeros : x[1] \in Rows /\ (x[1] = i => x \in Triples(i))
<1> DEFINE h == [k \in 0 .. Nnz[i] - 1 |-> <<i, k>>]
<1>1. Nnz[i] \in Nat
  BY RowStoreAssumption
<1>2. IsFiniteSet(0 .. Nnz[i] - 1) /\ Cardinality(0 .. Nnz[i] - 1) = Nnz[i]
  <2>1. Nnz[i] - 1 \in Int
    BY <1>1
  <2>2. Cardinality(0 .. Nnz[i] - 1)
          = IF 0 > Nnz[i] - 1 THEN 0 ELSE (Nnz[i] - 1) - 0 + 1
    BY <2>1, FS_Interval
  <2>3. IsFiniteSet(0 .. Nnz[i] - 1)
    BY <2>1, FS_Interval
  <2> QED
    BY <1>1, <2>2, <2>3
<1>3. h \in Bijection(0 .. Nnz[i] - 1, Triples(i))
  BY DEF Bijection, Injection, Surjection, IsInjective, Triples
<1>4. IsFiniteSet(Triples(i)) /\ Cardinality(Triples(i)) = Nnz[i]
  BY <1>2, <1>3, FS_Bijection DEF ExistsBijection
<1>5. ASSUME NEW x \in Nonzeros PROVE x[1] \in Rows /\ (x[1] = i => x \in Triples(i))
  BY DEF Nonzeros, Triples
<1> QED
  BY <1>4, <1>5

\* The two regions of the steps.
FirstRegionStep(t) ==
  \/ (ClaimUnit(t) \/ NoUnitLeft(t, "end_parallel")) /\ UNCHANGED tripletVars
  \/ InsertTriple(t) \/ FinishRow(t)

SecondStep(t) ==
  \/ NothingToRemove(t) /\ UNCHANGED tripletVars
  \/ RemoveTriple(t) \/ ClaimSlot(t) \/ Fill(t)

LEMMA TripletSteps ==
  ASSUME TripletTypes, NEW t \in Workers, TripletStep(t)
  PROVE  /\ FirstRegionStep(t) \/ SecondStep(t)
         /\ FirstRegionStep(t) => FirstRegion /\ FirstRegion' /\ ~SecondRegion' /\ ~SecondRegion
         /\ SecondStep(t) => SecondRegion /\ SecondRegion' /\ ~FirstRegion' /\ ~FirstRegion
<1> USE DEF TripletTypes, FirstRegion, SecondRegion, Filling, Emptying, Goto
<1>1. FirstRegionStep(t) \/ SecondStep(t)
  BY DEF TripletStep, FirstRegionStep, SecondStep
<1>2. ASSUME FirstRegionStep(t)
      PROVE  /\ pc[t] \in Filling
             /\ \E there \in Filling : pc' = [pc EXCEPT ![t] = there]
  <2>1. CASE ClaimUnit(t) \/ NoUnitLeft(t, "end_parallel")
    BY <2>1 DEF ClaimUnit, NoUnitLeft
  <2>2. CASE InsertTriple(t)
    BY <2>2 DEF InsertTriple
  <2>3. CASE FinishRow(t)
    BY <2>3 DEF FinishRow
  <2> QED BY <1>2, <2>1, <2>2, <2>3 DEF FirstRegionStep
<1>3. ASSUME SecondStep(t)
      PROVE  /\ pc[t] \in Emptying
             /\ \E there \in Emptying : pc' = [pc EXCEPT ![t] = there]
  <2>1. CASE NothingToRemove(t) \/ RemoveTriple(t)
    BY <2>1 DEF NothingToRemove, RemoveTriple
  <2>2. CASE ClaimSlot(t) \/ Fill(t)
    BY <2>2 DEF ClaimSlot, Fill
  <2> QED BY <1>3, <2>1, <2>2 DEF SecondStep
<1> QED
  BY <1>1, <1>2, <1>3

\* A worker that computes is at a row of its unit.
LEMMA RowOfTriples ==
  ASSUME TripletTypes, NEW t \in Workers, pc[t] = "compute"
  PROVE  /\ unit[t].next \in Rows /\ unit[t].next \in Nat
         /\ unit[t].next < unit[t].end /\ unit[t].end \in 0 .. M
         /\ Nnz[unit[t].next] \in Nat /\ nnz[t] \in Nat /\ nnz[t] <= Nnz[unit[t].next]
         /\ [unit[t] EXCEPT !.next = unit[t].next + 1] \in UnitType
<1>1. /\ unit[t] \in UnitType /\ unit[t].next < unit[t].end
      /\ nnz[t] \in Nat /\ nnz[t] <= Nnz[unit[t].next]
  BY DEF TripletTypes
<1>2. unit[t].next \in 0 .. M /\ unit[t].end \in 0 .. M /\ M \in Nat
  BY <1>1, RowStoreAssumption DEF UnitType
<1>3. unit[t].next \in Rows /\ unit[t].next + 1 \in 0 .. M
  BY <1>1, <1>2 DEF Rows
<1> QED
  BY <1>1, <1>2, <1>3, RowStoreAssumption DEF UnitType

\* Each step of the first region keeps the types.
LEMMA FirstTypesStep ==
  ASSUME TripletTypes, NEW t \in Workers, FirstRegionStep(t)
  PROVE  TripletTypes'
<1>0. FirstRegion' /\ NoUnit \in UnitType
  BY TripletSteps, RowStoreAssumption DEF NoUnit, UnitType, FirstRegionStep, TripletStep
<1> USE <1>0, RowStoreAssumption DEF TripletTypes, tripletVars, Goto
<1>1. CASE ClaimUnit(t) /\ UNCHANGED tripletVars
  <2>1. nextci \in Rows
    BY <1>1 DEF ClaimUnit, Rows
  <2>2. /\ unit' = [unit EXCEPT ![t] = UnitRows(nextci)]
        /\ nextci' = nextci + WUSize /\ pc' = [pc EXCEPT ![t] = "compute"]
        /\ pc[t] = "claim_unit"
        /\ UNCHANGED <<element_count, bag, rp, C, nnz, triple, idx>>
    BY <1>1 DEF ClaimUnit
  <2>3. unit' \in [Workers -> UnitType]
    BY <2>1, <2>2, UnitRowsInMatrix
  <2>4. /\ unit'[t].next = nextci /\ unit'[t].next < unit'[t].end
        /\ nnz'[t] <= Nnz[unit'[t].next]
    <3>1. nnz[t] = 0 /\ Nnz[nextci] \in Nat
      BY <2>1, <2>2
    <3> QED
      BY <2>1, <2>2, <3>1, UnitRowsInMatrix
  <2>5. nextci' \in Nat /\ (nextci >= M => nextci' >= M)
    BY <2>2
  <2> QED
    BY <2>2, <2>3, <2>4, <2>5
<1>2. CASE NoUnitLeft(t, "end_parallel") /\ UNCHANGED tripletVars
  <2>1. nextci' \in Nat /\ (nextci >= M => nextci' >= M) /\ nextci >= M
    BY <1>2 DEF NoUnitLeft
  <2> QED
    BY <1>2, <2>1 DEF NoUnitLeft
<1>3. CASE InsertTriple(t)
  <2> DEFINE i == unit[t].next
  <2>1. i \in Rows /\ Nnz[i] \in Nat /\ nnz[t] \in Nat /\ nnz[t] < Nnz[i] /\ pc[t] = "compute"
    BY <1>3, RowOfTriples DEF InsertTriple
  <2>2. <<i, nnz[t]>> \in Nonzeros
    BY <2>1 DEF Nonzeros, Triples
  <2>3. /\ nnz' = [nnz EXCEPT ![t] = nnz[t] + 1] /\ bag' = bag \cup {<<i, nnz[t]>>}
        /\ UNCHANGED <<nextci, element_count, rp, C, unit, pc, triple, idx>>
    BY <1>3 DEF InsertTriple
  <2>4. /\ nnz' \in [Workers -> Nat] /\ nnz'[t] = nnz[t] + 1 /\ nnz'[t] <= Nnz[i]
        /\ \A w \in Workers \ {t} : nnz'[w] = nnz[w]
    BY <2>1, <2>3
  <2>5. bag' \subseteq Nonzeros
    BY <2>2, <2>3
  <2> HIDE DEF i
  <2>6. \A w \in Workers :
          /\ pc[w] = "compute" => nnz'[w] <= Nnz[unit[w].next]
          /\ pc[w] /= "compute" => nnz'[w] = 0
    BY <2>1, <2>4 DEF i
  <2> QED
    BY <2>3, <2>4, <2>5, <2>6
<1>4. CASE FinishRow(t)
  <2> DEFINE i == unit[t].next
  <2>1. /\ i \in Rows /\ Nnz[i] \in Nat /\ nnz[t] = Nnz[i] /\ pc[t] = "compute"
        /\ [unit[t] EXCEPT !.next = i + 1] \in UnitType
    BY <1>4, RowOfTriples DEF FinishRow
  <2>2. /\ nnz' = [nnz EXCEPT ![t] = 0]
        /\ element_count' = [element_count EXCEPT ![i] = nnz[t]]
        /\ UNCHANGED <<nextci, bag, rp, C, triple, idx>>
    BY <1>4 DEF FinishRow
  <2>3. CASE i + 1 < unit[t].end
    <3>1. /\ unit' = [unit EXCEPT ![t] = [unit[t] EXCEPT !.next = i + 1]]
          /\ pc' = [pc EXCEPT ![t] = "compute"]
      BY <1>4, <2>3 DEF FinishRow
    <3>2. unit'[t].next = i + 1 /\ unit'[t].end = unit[t].end /\ unit' \in [Workers -> UnitType]
      BY <2>1, <3>1 DEF UnitType
    <3>3. Nnz[i + 1] \in Nat
      <4>1. i \in Nat /\ unit[t].end \in 0 .. M
        BY <2>1, RowOfTriples
      <4>2. i + 1 \in Rows
        BY <2>3, <4>1 DEF Rows
      <4> QED BY <4>2
    <3>4. /\ nnz' \in [Workers -> Nat] /\ element_count' \in [Rows -> Nat]
          /\ nnz'[t] = 0 /\ pc'[t] = "compute"
          /\ \A w \in Workers \ {t} :
               nnz'[w] = nnz[w] /\ pc'[w] = pc[w] /\ unit'[w] = unit[w]
      BY <2>1, <2>2, <3>1
    <3>5. nnz'[t] <= Nnz[unit'[t].next] /\ unit'[t].next < unit'[t].end
      BY <2>3, <3>2, <3>3, <3>4
    <3>6. pc' = [w \in Workers |-> pc'[w]]
      BY <3>1
    <3> HIDE DEF i
    <3> QED
      BY <2>1, <2>2, <3>2, <3>4, <3>5, <3>6
  <2>4. CASE ~(i + 1 < unit[t].end)
    <3>1. unit' = [unit EXCEPT ![t] = NoUnit] /\ pc' = [pc EXCEPT ![t] = "claim_unit"]
      BY <1>4, <2>4 DEF FinishRow
    <3> QED
      BY <2>1, <2>2, <3>1
  <2> QED BY <2>3, <2>4
<1> QED
  BY <1>1, <1>2, <1>3, <1>4 DEF FirstRegionStep

\* The first region gets to all rows and all their nonzeros.
LEMMA FirstRegionFinds ==
  ASSUME TripletTypes, TripletSized, Found, NEW t \in Workers, FirstRegionStep(t)
  PROVE  TripletSized' /\ Found'
<1>0. FirstRegion /\ FirstRegion'
  BY TripletSteps DEF FirstRegionStep, TripletStep
<1> USE <1>0, RowStoreAssumption DEF TripletTypes, tripletVars, Goto
<1>1. CASE ClaimUnit(t) /\ UNCHANGED tripletVars
  <2>1. nextci \in Rows
    BY <1>1 DEF ClaimUnit, Rows
  <2>2. /\ unit'[t] = UnitRows(nextci) /\ pc'[t] = "compute" /\ nnz[t] = 0
        /\ \A w \in Workers \ {t} : unit'[w] = unit[w] /\ pc'[w] = pc[w]
        /\ pc[t] /= "compute" /\ nextci' = nextci + WUSize
        /\ UNCHANGED <<element_count, bag, nnz>>
    BY <1>1 DEF ClaimUnit
  <2>3. ASSUME NEW i \in Rows, nextci <= i, ~(nextci' <= i)
        PROVE  HasRow(t, i)' /\ \A k \in 0 .. Nnz[i] - 1 : HasNonzero(t, i, k)'
    <3>1. i < nextci + WUSize
      BY <2>1, <2>2, <2>3 DEF Rows
    <3> QED
      BY <2>1, <2>2, <2>3, <3>1, UnitRowsInMatrix DEF HasRow, HasNonzero
  <2>4. ASSUME NEW w \in Workers, NEW i \in Rows, HasRow(w, i)
        PROVE  /\ HasRow(w, i)'
               /\ \A k \in 0 .. Nnz[i] - 1 : HasNonzero(w, i, k) => HasNonzero(w, i, k)'
    BY <2>2, <2>4 DEF HasRow, HasNonzero
  <2>5. TripletSized'
    BY <2>2, <2>3, <2>4 DEF TripletSized
  <2>6. \A w \in Workers : \A i \in Rows : \A k \in 0 .. Nnz[i] - 1 :
          HasNonzero(w, i, k) => HasNonzero(w, i, k)'
    BY <2>4 DEF HasNonzero
  <2> QED
    BY <2>2, <2>3, <2>5, <2>6 DEF Found
<1>2. CASE NoUnitLeft(t, "end_parallel") /\ UNCHANGED tripletVars
  <2>1. \A i \in Rows : ~(nextci <= i)
    BY <1>2 DEF NoUnitLeft, Rows
  <2>2. \A w \in Workers : \A i : HasRow(w, i) => HasRow(w, i)'
    BY <1>2 DEF NoUnitLeft, HasRow
  <2>3. \A w \in Workers : \A i, k : HasNonzero(w, i, k) => HasNonzero(w, i, k)'
    BY <1>2, <2>2 DEF NoUnitLeft, HasNonzero
  <2> QED
    BY <1>2, <2>1, <2>2, <2>3 DEF NoUnitLeft, TripletSized, Found
<1>3. CASE InsertTriple(t)
  <2> DEFINE j == unit[t].next
  <2>1. nnz[t] \in Nat /\ pc[t] = "compute"
    BY <1>3 DEF InsertTriple
  <2>2. /\ nnz'[t] = nnz[t] + 1 /\ \A w \in Workers \ {t} : nnz'[w] = nnz[w]
        /\ bag' = bag \cup {<<j, nnz[t]>>}
        /\ UNCHANGED <<nextci, element_count, unit, pc>>
    BY <1>3 DEF InsertTriple
  <2>3. \A w \in Workers : \A i : HasRow(w, i) => HasRow(w, i)'
    BY <2>2 DEF HasRow
  <2>4. ASSUME NEW w \in Workers, NEW i \in Rows, NEW k \in 0 .. Nnz[i] - 1, HasNonzero(w, i, k)
        PROVE  HasNonzero(w, i, k)' \/ <<i, k>> \in bag'
    <3>1. CASE w = t /\ i = j /\ k = nnz[t]
      BY <2>2, <3>1
    <3>2. CASE w = t /\ i = j /\ k /= nnz[t]
      BY <2>1, <2>2, <2>3, <2>4, <3>2 DEF HasNonzero
    <3>3. CASE w /= t \/ i /= j
      BY <2>2, <2>3, <2>4, <3>3 DEF HasNonzero
    <3> QED BY <3>1, <3>2, <3>3
  <2> QED
    BY <2>2, <2>3, <2>4 DEF TripletSized, Found
<1>4. CASE FinishRow(t)
  <2> DEFINE j == unit[t].next
  <2>1. /\ j \in Rows /\ j \in Nat /\ Nnz[j] \in Nat /\ nnz[t] = Nnz[j] /\ pc[t] = "compute"
        /\ unit[t].end \in 0 .. M /\ unit[t] \in UnitType
    BY <1>4, RowOfTriples DEF FinishRow
  <2>2. /\ nnz'[t] = 0 /\ \A w \in Workers \ {t} : nnz'[w] = nnz[w]
        /\ \A w \in Workers \ {t} : unit'[w] = unit[w] /\ pc'[w] = pc[w]
        /\ j + 1 < unit[t].end =>
             /\ unit'[t].next = j + 1 /\ unit'[t].end = unit[t].end
             /\ pc'[t] = "compute"
        /\ UNCHANGED <<nextci, bag>>
    BY <1>4, <2>1 DEF FinishRow, UnitType
  <2>3. element_count'[j] = Nnz[j] /\ \A i \in Rows \ {j} : element_count'[i] = element_count[i]
    BY <1>4, <2>1 DEF FinishRow
  <2>4. ASSUME NEW i \in Rows, HasRow(t, i), i /= j
        PROVE  HasRow(t, i)' /\ \A k \in 0 .. Nnz[i] - 1 : HasNonzero(t, i, k)'
    <3>1. j + 1 <= i /\ j + 1 < unit[t].end /\ i < unit[t].end
      <4>1. j <= i /\ i < unit[t].end /\ i \in Nat /\ j \in Nat /\ unit[t].end \in Nat
        BY <2>1, <2>4 DEF HasRow, Rows
      <4> QED BY <2>4, <4>1
    <3>2. HasRow(t, i)'
      BY <2>2, <3>1 DEF HasRow
    <3> QED
      BY <2>2, <3>2 DEF HasNonzero
  <2>5. ASSUME NEW w \in Workers \ {t}
        PROVE  /\ \A i : HasRow(w, i) => HasRow(w, i)'
               /\ \A i, k : HasNonzero(w, i, k) => HasNonzero(w, i, k)'
    BY <2>2 DEF HasRow, HasNonzero
  <2>6. ASSUME NEW k \in 0 .. Nnz[j] - 1 PROVE ~HasNonzero(t, j, k)
    BY <2>1 DEF HasNonzero
  <2>7. TripletSized'
    BY <2>2, <2>3, <2>4, <2>5 DEF TripletSized
  <2>8. ASSUME NEW i \in Rows, NEW k \in 0 .. Nnz[i] - 1, NEW w \in Workers, HasNonzero(w, i, k)
        PROVE  HasNonzero(w, i, k)'
    <3>1. CASE w = t
      BY <2>4, <2>6, <2>8, <3>1 DEF HasNonzero
    <3>2. CASE w /= t
      BY <2>5, <2>8, <3>2
    <3> QED BY <3>1, <3>2
  <2> QED
    BY <2>2, <2>7, <2>8 DEF Found
<1> QED
  BY <1>1, <1>2, <1>3, <1>4 DEF FirstRegionStep

\* Nothing is claimed or found in the second region.
LEMMA SecondStepFrame ==
  ASSUME TripletTypes, NEW t \in Workers, SecondStep(t)
  PROVE  /\ UNCHANGED <<nextci, element_count, unit, nnz>>
         /\ nextci >= M
         /\ \A w \in Workers : pc[w] \in Emptying /\ pc'[w] \in Emptying
         /\ \A w \in Workers \ {t} :
              pc'[w] = pc[w] /\ triple'[w] = triple[w] /\ idx'[w] = idx[w]
<1>1. SecondRegion /\ SecondRegion' /\ pc[t] \in Emptying
  BY TripletSteps DEF SecondStep, TripletStep, SecondRegion
<1>2. nextci >= M
  BY <1>1 DEF TripletTypes, Emptying
<1> USE DEF TripletTypes, Goto
<1>3. CASE NothingToRemove(t) /\ UNCHANGED tripletVars
  BY <1>1, <1>2, <1>3 DEF NothingToRemove, rowVars, tripletVars, SecondRegion
<1>4. CASE RemoveTriple(t)
  BY <1>1, <1>2, <1>4 DEF RemoveTriple, SecondRegion
<1>5. CASE ClaimSlot(t)
  BY <1>1, <1>2, <1>5 DEF ClaimSlot, SecondRegion
<1>6. CASE Fill(t)
  BY <1>1, <1>2, <1>6 DEF Fill, SecondRegion
<1> QED
  BY <1>3, <1>4, <1>5, <1>6 DEF SecondStep

\* Each step of the second region keeps the types.
LEMMA SecondTypesStep ==
  ASSUME TripletTypes, NEW t \in Workers, SecondStep(t)
  PROVE  TripletTypes'
<1>0. /\ SecondRegion' /\ UNCHANGED <<nextci, element_count, unit, nnz>> /\ nextci >= M
      /\ \A w \in Workers : pc[w] \in Emptying /\ pc'[w] \in Emptying
      /\ \A w \in Workers \ {t} :
              pc'[w] = pc[w] /\ triple'[w] = triple[w] /\ idx'[w] = idx[w]
  BY TripletSteps, SecondStepFrame DEF SecondStep, TripletStep
<1>1. ASSUME bag' \subseteq Nonzeros, rp' \in [0 .. M -> Int], idx' \in [Workers -> Int],
             pc' = [w \in Workers |-> pc'[w]], triple' = [w \in Workers |-> triple'[w]],
             pc'[t] \in {"claim_slot", "fill"} => triple'[t] \in Nonzeros
      PROVE  TripletTypes'
  BY <1>0, <1>1 DEF TripletTypes, Emptying
<1> USE DEF TripletTypes, Goto
<1>2. CASE NothingToRemove(t) /\ UNCHANGED tripletVars
  <2>1. pc' = [pc EXCEPT ![t] = "done"] /\ UNCHANGED <<bag, rp, idx, triple>>
    BY <1>2 DEF NothingToRemove, rowVars, tripletVars
  <2> QED BY <1>1, <2>1
<1>3. CASE RemoveTriple(t)
  <2>1. PICK x \in bag : bag' = bag \ {x} /\ triple' = [triple EXCEPT ![t] = x]
    BY <1>3 DEF RemoveTriple
  <2>2. pc' = [pc EXCEPT ![t] = "claim_slot"] /\ UNCHANGED <<rp, idx>>
    BY <1>3 DEF RemoveTriple
  <2> QED BY <1>1, <2>1, <2>2
<1>4. CASE ClaimSlot(t)
  <2> DEFINE i == triple[t][1]
  <2>1. triple[t] \in Nonzeros /\ i \in Rows
    BY <1>4, TriplesOfRow DEF ClaimSlot, Nonzeros, Triples
  <2>2. i \in 0 .. M /\ rp[i] - 1 \in Int
    BY <2>1, RowStoreAssumption DEF Rows
  <2>3. /\ rp' = [rp EXCEPT ![i] = rp[i] - 1] /\ idx' = [idx EXCEPT ![t] = rp[i] - 1]
        /\ pc' = [pc EXCEPT ![t] = "fill"] /\ UNCHANGED <<bag, triple>>
    BY <1>4 DEF ClaimSlot
  <2> QED BY <1>1, <2>1, <2>2, <2>3
<1>5. CASE Fill(t)
  <2>1. /\ pc' = [pc EXCEPT ![t] = "remove"] /\ triple' = [triple EXCEPT ![t] = <<>>]
        /\ UNCHANGED <<bag, rp, idx>>
    BY <1>5 DEF Fill
  <2> QED BY <1>1, <2>1
<1> QED
  BY <1>2, <1>3, <1>4, <1>5 DEF SecondStep

\* All nonzeros are in the bag at the end of the first region, and all rows
\* end where the next ones start.
LEMMA SecondRegionStarts ==
  ASSUME TripletTypes, TripletSized, Found, Workers /= {}, EndParallel
  PROVE  /\ element_count = Nnz /\ bag = Nonzeros /\ bag' = Nonzeros
         /\ \A i \in Rows : rp'[i] = Before(Nnz, i + 1)
         /\ rp' \in [0 .. M -> Int] /\ rp'[M] = Before(Nnz, M)
         /\ C' = [s \in 0 .. Before(Nnz, M) - 1 |-> <<>>]
         /\ \A t \in Workers : pc'[t] = "remove"
         /\ UNCHANGED <<nextci, element_count, bag, unit, nnz, triple, idx>>
         /\ nextci >= M
<1> USE RowStoreAssumption
<1>1. FirstRegion /\ nextci >= M /\ nextci \in Nat
  BY DEF EndParallel, TripletTypes, FirstRegion, Filling
<1>2. \A i \in Rows : ~(nextci <= i)
  BY <1>1 DEF Rows
<1>3. \A t \in Workers : \A i, k : ~HasRow(t, i) /\ ~HasNonzero(t, i, k)
  BY DEF EndParallel, HasRow, HasNonzero
<1>4. \A i \in Rows : element_count[i] = Nnz[i]
  BY <1>2, <1>3 DEF TripletSized
<1>5. element_count = Nnz
  BY <1>4 DEF TripletTypes
<1>6. \A i \in Rows : \A k \in 0 .. Nnz[i] - 1 : <<i, k>> \in bag
  BY <1>1, <1>2, <1>3 DEF Found
<1>7. bag = Nonzeros
  BY <1>6 DEF Nonzeros, Triples, TripletTypes
<1>8. \A i \in 0 .. M : rp'[i] = Before(Nnz, Min({i + 1, M}))
  BY <1>5 DEF EndParallel, SizeBefore
<1>9. ASSUME NEW i \in Rows PROVE Min({i + 1, M}) = i + 1
  <2> DEFINE m == Min({i + 1, M})
  <2>1. i + 1 \in Int /\ M \in Int /\ i + 1 <= M
    BY DEF Rows
  <2>2. m \in {i + 1, M} /\ m <= i + 1 /\ m <= M
    BY <2>1, MinOfTwo
  <2> QED BY <2>1, <2>2
<1>10. Min({M + 1, M}) = M
  <2> DEFINE m == Min({M + 1, M})
  <2>1. M + 1 \in Int /\ M \in Int
    OBVIOUS
  <2>2. m \in {M + 1, M} /\ m <= M
    BY <2>1, MinOfTwo
  <2> QED BY <2>1, <2>2
<1>11. \A i \in 0 .. M : rp'[i] \in Nat
  <2> SUFFICES ASSUME NEW i \in 0 .. M PROVE rp'[i] \in Nat
    OBVIOUS
  <2>1. CASE i \in Rows
    <3>1. i + 1 \in 0 .. M
      BY <2>1 DEF Rows
    <3> QED BY <1>8, <1>9, <2>1, <3>1, EntriesFinite
  <2>2. CASE i = M
    BY <1>8, <1>10, <2>2, EntriesFinite
  <2> QED BY <2>1, <2>2 DEF Rows
<1>12. rp' \in [0 .. M -> Int]
  <2>1. rp' = [i \in 0 .. M |-> rp'[i]]
    BY DEF EndParallel
  <2>2. \A i \in 0 .. M : rp'[i] \in Int
    BY <1>11
  <2> HIDE DEF EndParallel
  <2> QED BY <2>1, <2>2
<1>13. /\ \A i \in Rows : rp'[i] = Before(Nnz, i + 1)
       /\ rp'[M] = Before(Nnz, M)
  <2>1. \A i \in Rows : i \in 0 .. M
    BY DEF Rows
  <2>2. M \in 0 .. M
    OBVIOUS
  <2> QED BY <1>8, <1>9, <1>10, <2>1, <2>2
<1>14. C' = [s \in 0 .. Before(Nnz, M) - 1 |-> <<>>]
  BY <1>5 DEF EndParallel, SizeBefore
<1>15. /\ \A t \in Workers : pc'[t] = "remove"
       /\ UNCHANGED <<nextci, element_count, bag, unit, nnz, triple, idx>>
  BY DEF EndParallel, tripletVars
<1> QED
  BY <1>1, <1>5, <1>7, <1>12, <1>13, <1>14, <1>15

\* No slot is claimed when the second region begins.
LEMMA SlotInvStarts ==
  ASSUME TripletTypes, TripletSized, Found, Workers /= {}, EndParallel
  PROVE  SlotInv' /\ TripletTypes' /\ TripletSized' /\ Found'
<1> DEFINE end(i) == Before(Nnz, i + 1)
<1>1. /\ element_count = Nnz /\ bag' = Nonzeros
      /\ \A i \in Rows : rp'[i] = end(i)
      /\ rp' \in [0 .. M -> Int] /\ rp'[M] = Before(Nnz, M)
      /\ C' = [s \in 0 .. Before(Nnz, M) - 1 |-> <<>>]
      /\ \A t \in Workers : pc'[t] = "remove"
      /\ UNCHANGED <<nextci, element_count, bag, unit, nnz, triple, idx>>
      /\ nextci >= M
  BY SecondRegionStarts
<1>2. ASSUME NEW i \in Rows
      PROVE  Before(Nnz, i) \in Nat /\ Nnz[i] \in Nat /\ end(i) = Before(Nnz, i) + Nnz[i]
  <2>1. i \in 0 .. M
    BY RowStoreAssumption DEF Rows
  <2> QED
    BY <2>1, EntriesFinite, BeforeNext, RowStoreAssumption
<1> HIDE DEF end
<1>3. SecondRegion' /\ ~FirstRegion'
  BY <1>1 DEF SecondRegion, FirstRegion, Emptying, Filling
<1>4. TripletTypes'
  <2>1. pc' = [t \in Workers |-> pc'[t]]
    BY DEF EndParallel
  <2>2. \A t \in Workers : nnz[t] = 0
    BY DEF EndParallel, TripletTypes
  <2> QED
    BY <1>1, <1>3, <2>1, <2>2 DEF TripletTypes
<1>5. TripletSized' /\ Found'
  BY <1>1, <1>3 DEF TripletSized, Found
<1>6. \A i \in Rows : rp'[i] = Before(Nnz, i) + Nnz[i]
  BY <1>1, <1>2
<1>7. Shape'
  <2>1. \A i \in Rows : rp'[i] <= Before(Nnz, i + 1)
    BY <1>1, <1>2, <1>6 DEF end
  <2>2. DOMAIN C' = 0 .. Before(Nnz, M) - 1
    BY <1>1
  <2> QED BY <1>1, <2>1, <2>2 DEF Shape
<1>8. SlotsCounted'
  <2> SUFFICES ASSUME NEW i \in Rows
               PROVE  rp'[i] - Before(Nnz, i)
                        = Cardinality(Unplaced(i)') + Cardinality(Deciding(i)')
    BY DEF SlotsCounted
  <2>1. Unplaced(i)' = Triples(i)
    BY <1>1, TriplesOfRow DEF Unplaced, Nonzeros, Triples
  <2>2. Deciding(i)' = {}
    BY <1>1 DEF Deciding
  <2> QED
    BY <1>2, <1>6, <2>1, <2>2, TriplesOfRow, FS_EmptySet
<1>9. \A i \in Rows : ClaimedSlots(i)' = {}
  <2> SUFFICES ASSUME NEW i \in Rows PROVE ClaimedSlots(i)' = {}
    OBVIOUS
  <2>1. rp'[i] = end(i) /\ end(i) \in Int
    BY <1>1, <1>2
  <2> QED
    BY <2>1 DEF ClaimedSlots, end
<1>10. OwnSlots' /\ SlotsFilled' /\ NonzerosKept' /\ BagEmptied'
  BY <1>1, <1>9 DEF OwnSlots, SlotsFilled, NonzerosKept, BagEmptied
<1> QED
  BY <1>4, <1>5, <1>7, <1>8, <1>10 DEF SlotInv

\* The slots of a row begin after those of the rows before it.
LEMMA RowSlots ==
  ASSUME NEW i \in Rows
  PROVE  /\ Before(Nnz, i) \in Nat /\ Before(Nnz, i + 1) \in Nat /\ Before(Nnz, M) \in Nat
         /\ Before(Nnz, i + 1) <= Before(Nnz, M)
         /\ \A j \in Rows : i < j => Before(Nnz, i + 1) <= Before(Nnz, j)
         /\ \A j \in Rows : \A s : /\ s \in Before(Nnz, i) .. Before(Nnz, i + 1) - 1
                                   /\ s \in Before(Nnz, j) .. Before(Nnz, j + 1) - 1
                                   => i = j
<1> USE RowStoreAssumption
<1>1. ASSUME NEW r \in Rows
      PROVE  /\ r \in 0 .. M /\ r + 1 \in 0 .. M /\ M \in 0 .. M
             /\ Before(Nnz, r) \in Nat /\ Before(Nnz, r + 1) \in Nat
  <2>1. r \in 0 .. M /\ r + 1 \in 0 .. M
    BY DEF Rows
  <2> QED BY <2>1, EntriesFinite
<1>2. ASSUME NEW p \in Rows, NEW q \in Rows, p < q
      PROVE  Before(Nnz, p + 1) <= Before(Nnz, q)
  <2>1. p + 1 <= q
    BY <1>2 DEF Rows
  <2> QED BY <1>1, <2>1, BeforeMonotone
<1>3. Before(Nnz, i + 1) <= Before(Nnz, M) /\ Before(Nnz, M) \in Nat
  <2>1. i + 1 <= M
    BY DEF Rows
  <2> QED BY <1>1, <2>1, BeforeMonotone, EntriesFinite
<1>4. ASSUME NEW j \in Rows, NEW s, s \in Before(Nnz, i) .. Before(Nnz, i + 1) - 1,
             s \in Before(Nnz, j) .. Before(Nnz, j + 1) - 1
      PROVE  i = j
  <2>1. ~(i < j) /\ ~(j < i)
    BY <1>1, <1>2, <1>4
  <2> QED BY <2>1 DEF Rows
<1> QED
  BY <1>1, <1>2, <1>3, <1>4

\* How far the claimed slots of a row reach; a worker that decides on a row
\* has a slot to claim.
LEMMA ClaimedInRow ==
  ASSUME TripletTypes, Shape, SlotsCounted, NEW i \in Rows
  PROVE  /\ IsFiniteSet(Unplaced(i)) /\ IsFiniteSet(Deciding(i))
         /\ rp[i] \in Int /\ rp[i] <= Before(Nnz, i + 1)
         /\ Before(Nnz, i) <= rp[i]
         /\ Deciding(i) /= {} => Before(Nnz, i) <= rp[i] - 1
         /\ ClaimedSlots(i) \subseteq Before(Nnz, i) .. Before(Nnz, i + 1) - 1
<1>1. IsFiniteSet(Unplaced(i))
  <2>1. Unplaced(i) \subseteq Triples(i)
    BY TriplesOfRow DEF Unplaced, TripletTypes
  <2> QED BY <2>1, TriplesOfRow, FS_Subset
<1>2. IsFiniteSet(Deciding(i))
  <2>1. Deciding(i) \subseteq Workers
    BY DEF Deciding
  <2> QED BY <2>1, RowStoreAssumption, FS_Subset
<1>3. i \in 0 .. M /\ rp[i] \in Int /\ rp[i] <= Before(Nnz, i + 1)
  BY RowStoreAssumption DEF Rows, TripletTypes, Shape
<1>4. /\ Cardinality(Unplaced(i)) \in Nat /\ Cardinality(Deciding(i)) \in Nat
      /\ Cardinality(Deciding(i)) = 0 => Deciding(i) = {}
  BY <1>1, <1>2, FS_CardinalityType, FS_EmptySet
<1>5. rp[i] - Before(Nnz, i) = Cardinality(Unplaced(i)) + Cardinality(Deciding(i))
  BY DEF SlotsCounted
<1>6. Before(Nnz, i) \in Nat /\ Before(Nnz, i + 1) \in Nat
  BY RowSlots
<1>7. Before(Nnz, i) <= rp[i] /\ (Deciding(i) /= {} => Before(Nnz, i) <= rp[i] - 1)
  BY <1>3, <1>4, <1>5, <1>6
<1> QED
  BY <1>1, <1>2, <1>3, <1>6, <1>7 DEF ClaimedSlots

\* A worker takes a nonzero from the bag.
LEMMA RemoveTripleKeeps ==
  ASSUME TripletTypes, SlotInv, NEW t \in Workers, RemoveTriple(t)
  PROVE  SlotInv'
<1>1. PICK x \in bag : bag' = bag \ {x} /\ triple' = [triple EXCEPT ![t] = x]
  BY DEF RemoveTriple
<1>2. /\ pc[t] = "remove" /\ pc' = [pc EXCEPT ![t] = "claim_slot"]
      /\ UNCHANGED <<rp, C, idx>>
  BY DEF RemoveTriple, Goto
<1>3. /\ pc'[t] = "claim_slot" /\ triple'[t] = x /\ x \in Nonzeros /\ x[1] \in Rows
      /\ \A w \in Workers \ {t} : pc'[w] = pc[w] /\ triple'[w] = triple[w]
  <2>1. x \in Nonzeros
    BY <1>1 DEF TripletTypes
  <2> QED BY <1>1, <1>2, <2>1, TriplesOfRow DEF TripletTypes, Nonzeros, Triples
<1>4. ASSUME NEW i \in Rows
      PROVE  rp[i] - Before(Nnz, i) = Cardinality(Unplaced(i)') + Cardinality(Deciding(i)')
  <2>1. /\ IsFiniteSet(Unplaced(i)) /\ IsFiniteSet(Deciding(i))
        /\ Cardinality(Unplaced(i)) \in Nat /\ Cardinality(Deciding(i)) \in Nat
        /\ rp[i] - Before(Nnz, i) = Cardinality(Unplaced(i)) + Cardinality(Deciding(i))
    BY ClaimedInRow, FS_CardinalityType DEF SlotInv, SlotsCounted
  <2>2. CASE x[1] = i
    <3>1. Unplaced(i)' = Unplaced(i) \ {x} /\ x \in Unplaced(i)
      BY <1>1, <2>2 DEF Unplaced
    <3>2. Deciding(i)' = Deciding(i) \cup {t} /\ t \notin Deciding(i)
      BY <1>2, <1>3, <2>2 DEF Deciding
    <3>3. Cardinality(Unplaced(i)') = Cardinality(Unplaced(i)) - 1
      BY <2>1, <3>1, FS_RemoveElement
    <3>4. Cardinality(Deciding(i)') = Cardinality(Deciding(i)) + 1
      BY <2>1, <3>2, FS_AddElement
    <3> QED BY <2>1, <3>3, <3>4
  <2>3. CASE x[1] /= i
    <3>1. Unplaced(i)' = Unplaced(i) /\ Deciding(i)' = Deciding(i)
      BY <1>1, <1>2, <1>3, <2>3 DEF Unplaced, Deciding
    <3> QED BY <2>1, <3>1
  <2> QED BY <2>2, <2>3
<1>5. Shape' /\ SlotsCounted'
  BY <1>2, <1>4 DEF SlotInv, Shape, SlotsCounted
<1>6. /\ \A w \in Workers : pc'[w] = "fill" <=> pc[w] = "fill"
      /\ \A w \in Workers : pc[w] = "fill" => triple'[w] = triple[w]
      /\ \A w \in Workers : pc'[w] = "done" => pc[w] = "done"
  BY <1>2, <1>3
<1>7. \A s : Settled(s)' <=> Settled(s)
  BY <1>2, <1>6 DEF Settled
<1>8. OwnSlots'
  BY <1>2, <1>6 DEF SlotInv, OwnSlots, ClaimedSlots
<1>9. SlotsFilled'
  BY <1>2, <1>7 DEF SlotInv, SlotsFilled, ClaimedSlots
<1>10. \A y : Placed(y) => Placed(y)'
  BY <1>2, <1>7 DEF Placed, ClaimedSlots
<1>11. NonzerosKept'
  <2>1. ASSUME NEW w \in Workers, pc[w] \in {"claim_slot", "fill"}
        PROVE  pc'[w] = pc[w] /\ triple'[w] = triple[w]
    BY <1>2, <1>3, <2>1
  <2> QED
    BY <1>1, <1>3, <1>10, <2>1 DEF SlotInv, NonzerosKept
<1>12. BagEmptied'
  BY <1>1, <1>6 DEF SlotInv, BagEmptied
<1> QED
  BY <1>5, <1>8, <1>9, <1>11, <1>12 DEF SlotInv

\* One more slot before those from a to b.
LEMMA OneSlotMore ==
  ASSUME NEW a \in Int, NEW b \in Int, a - 1 <= b
  PROVE  a - 1 \in (a - 1) .. b /\ (a - 1) .. b = (a .. b) \cup {a - 1}
OBVIOUS

\* A worker claims the last free slot of its nonzero's row.
LEMMA ClaimSlotKeeps ==
  ASSUME TripletTypes, SlotInv, NEW t \in Workers, ClaimSlot(t)
  PROVE  SlotInv'
<1>0. PICK i, free : i = triple[t][1] /\ free = rp[i] - 1
  OBVIOUS
<1>1. /\ pc[t] = "claim_slot" /\ pc' = [pc EXCEPT ![t] = "fill"]
      /\ rp' = [rp EXCEPT ![i] = free] /\ idx' = [idx EXCEPT ![t] = free]
      /\ UNCHANGED <<bag, C, triple>>
  BY <1>0 DEF ClaimSlot, Goto
<1>2. triple[t] \in Triples(i) /\ i \in Rows /\ i \in 0 .. M /\ i /= M
  <2>1. triple[t] \in Nonzeros
    BY <1>1 DEF TripletTypes
  <2>2. i \in Rows
    BY <1>0, <2>1 DEF Nonzeros, Triples
  <2> QED BY <1>0, <2>1, <2>2, TriplesOfRow, RowStoreAssumption DEF Rows
<1>3. /\ pc'[t] = "fill" /\ idx'[t] = free /\ rp'[i] = free /\ rp'[M] = rp[M]
      /\ \A w \in Workers \ {t} : pc'[w] = pc[w] /\ idx'[w] = idx[w]
      /\ \A j \in Rows \ {i} : rp'[j] = rp[j]
  <2>1. \A j \in Rows : j \in 0 .. M
    BY RowStoreAssumption DEF Rows
  <2>2. M \in 0 .. M
    BY RowStoreAssumption
  <2> QED BY <1>1, <1>2, <2>1, <2>2 DEF TripletTypes
<1>4. ASSUME NEW j \in Rows
      PROVE  /\ IsFiniteSet(Unplaced(j)) /\ IsFiniteSet(Deciding(j))
             /\ Cardinality(Unplaced(j)) \in Nat /\ Cardinality(Deciding(j)) \in Nat
             /\ rp[j] \in Int /\ rp[j] <= Before(Nnz, j + 1) /\ Before(Nnz, j) <= rp[j]
             /\ Before(Nnz, j) \in Nat /\ Before(Nnz, j + 1) \in Nat
             /\ ClaimedSlots(j) \subseteq Before(Nnz, j) .. Before(Nnz, j + 1) - 1
             /\ rp[j] - Before(Nnz, j) = Cardinality(Unplaced(j)) + Cardinality(Deciding(j))
  BY ClaimedInRow, RowSlots, FS_CardinalityType DEF SlotInv, SlotsCounted
<1>5. t \in Deciding(i) /\ Before(Nnz, i) <= free /\ free \in Int
      /\ free \in Before(Nnz, i) .. Before(Nnz, i + 1) - 1
  <2>1. t \in Deciding(i)
    BY <1>0, <1>1 DEF Deciding
  <2>2. Before(Nnz, i) <= free
    BY <1>0, <1>2, <2>1, ClaimedInRow DEF SlotInv
  <2>3. rp[i] \in Int /\ rp[i] <= Before(Nnz, i + 1)
    BY <1>2, <1>4
  <2>4. Before(Nnz, i) \in Nat /\ Before(Nnz, i + 1) \in Nat
    BY <1>2, <1>4
  <2> QED BY <1>0, <2>1, <2>2, <2>3, <2>4
\* The free slot is not claimed, and is claimed next.
<1>6. \A j \in Rows : free \notin ClaimedSlots(j)
  <2> SUFFICES ASSUME NEW j \in Rows, free \in ClaimedSlots(j) PROVE FALSE
    OBVIOUS
  <2>1. i = j
    BY <1>2, <1>4, <1>5, RowSlots
  <2> QED BY <1>0, <1>2, <1>4, <2>1 DEF ClaimedSlots
<1>7. free \in ClaimedSlots(i)' /\ ClaimedSlots(i)' = ClaimedSlots(i) \cup {free}
  <2>1. ClaimedSlots(i)' = free .. Before(Nnz, i + 1) - 1
    BY <1>3 DEF ClaimedSlots
  <2>2. rp[i] \in Int /\ Before(Nnz, i + 1) - 1 \in Int /\ free <= Before(Nnz, i + 1) - 1
    BY <1>2, <1>4, <1>5
  <2>3. ClaimedSlots(i) = rp[i] .. Before(Nnz, i + 1) - 1
    BY DEF ClaimedSlots
  <2> QED BY <1>0, <2>1, <2>2, <2>3, OneSlotMore
<1>8. ClaimedSlots(i) \subseteq ClaimedSlots(i)'
  BY <1>7
<1>9. \A j \in Rows \ {i} : ClaimedSlots(j)' = ClaimedSlots(j)
  BY <1>3 DEF ClaimedSlots
<1>10. Shape'
  <2>1. \A j \in Rows : rp'[j] <= Before(Nnz, j + 1)
    BY <1>0, <1>2, <1>3, <1>4
  <2> QED BY <1>1, <1>3, <2>1 DEF SlotInv, Shape
<1>11. SlotsCounted'
  <2> SUFFICES ASSUME NEW j \in Rows
               PROVE  rp'[j] - Before(Nnz, j)
                        = Cardinality(Unplaced(j)') + Cardinality(Deciding(j)')
    BY DEF SlotsCounted
  <2>1. Unplaced(j)' = Unplaced(j)
    BY <1>1 DEF Unplaced
  <2>2. CASE j = i
    <3>1. Deciding(i)' = Deciding(i) \ {t}
      BY <1>1, <1>3 DEF Deciding
    <3>2. Cardinality(Deciding(i)') = Cardinality(Deciding(i)) - 1
      <4>1. IsFiniteSet(Deciding(i)) /\ t \in Deciding(i)
        BY <1>2, <1>4, <1>5
      <4> QED BY <3>1, <4>1, FS_RemoveElement, Zenon
    <3>3. rp'[i] = rp[i] - 1 /\ rp[i] \in Int /\ Before(Nnz, i) \in Nat
      BY <1>0, <1>2, <1>3, <1>4
    <3>4. /\ Cardinality(Unplaced(i)) \in Nat /\ Cardinality(Deciding(i)) \in Nat
          /\ rp[i] - Before(Nnz, i) = Cardinality(Unplaced(i)) + Cardinality(Deciding(i))
      BY <1>2, <1>4
    <3> QED BY <2>1, <2>2, <3>2, <3>3, <3>4
  <2>3. CASE j /= i
    <3>1. Deciding(j)' = Deciding(j)
      BY <1>0, <1>1, <1>3, <2>3 DEF Deciding
    <3> QED BY <1>3, <1>4, <2>1, <2>3, <3>1
  <2> QED BY <2>2, <2>3
<1>12. \A w \in Workers \ {t} : pc[w] = "fill" => idx[w] /= free
  <2> SUFFICES ASSUME NEW w \in Workers, pc[w] = "fill" PROVE idx[w] /= free
    OBVIOUS
  <2>1. triple[w] \in Nonzeros /\ idx[w] \in ClaimedSlots(triple[w][1])
    BY DEF TripletTypes, SlotInv, OwnSlots
  <2>2. triple[w][1] \in Rows
    BY <2>1 DEF Nonzeros, Triples
  <2> QED BY <1>6, <2>1, <2>2
<1>13. OwnSlots'
  <2>1. ASSUME NEW w \in Workers, pc'[w] = "fill"
        PROVE  idx'[w] \in ClaimedSlots(triple[w][1])'
    <3>1. CASE w = t
      BY <1>0, <1>1, <1>3, <1>7, <3>1 DEF ClaimedSlots
    <3>2. CASE w /= t
      <4>1. pc[w] = "fill" /\ triple[w] \in Nonzeros /\ idx[w] \in ClaimedSlots(triple[w][1])
        BY <1>3, <2>1, <3>2 DEF TripletTypes, SlotInv, OwnSlots
      <4>2. triple[w][1] \in Rows
        BY <4>1 DEF Nonzeros, Triples
      <4>3. PICK j \in Rows : j = triple[w][1] /\ idx[w] \in ClaimedSlots(j)
        BY <4>1, <4>2
      <4>4. idx[w] \in ClaimedSlots(j)'
        BY <1>8, <1>9, <4>3
      <4> QED BY <1>1, <1>3, <3>2, <4>3, <4>4 DEF ClaimedSlots
    <3> QED BY <3>1, <3>2
  <2>2. ASSUME NEW u \in Workers, NEW w \in Workers,
               pc'[u] = "fill", pc'[w] = "fill", idx'[u] = idx'[w]
        PROVE  u = w
    BY <1>3, <1>12, <2>2 DEF SlotInv, OwnSlots
  <2> QED BY <2>1, <2>2 DEF OwnSlots
<1>14. \A s : s /= free => (Settled(s)' <=> Settled(s))
  BY <1>1, <1>3 DEF Settled
<1>15. ~Settled(free)'
  BY <1>3 DEF Settled
<1>16. SlotsFilled'
  <2> SUFFICES ASSUME NEW j \in Rows, NEW s \in ClaimedSlots(j)', Settled(s)'
               PROVE  C'[s] \in Triples(j)
    BY DEF SlotsFilled
  <2>1. s /= free
    BY <1>15
  <2>2. s \in ClaimedSlots(j)
    BY <1>7, <1>9, <2>1
  <2> QED BY <1>1, <1>14, <2>1, <2>2 DEF SlotInv, SlotsFilled
<1>17. ASSUME NEW x \in Nonzeros, Placed(x) PROVE Placed(x)'
  <2>1. PICK s \in ClaimedSlots(x[1]) : C[s] = x /\ Settled(s)
    BY <1>17 DEF Placed
  <2>2. x[1] \in Rows
    BY DEF Nonzeros, Triples
  <2>3. s /= free
    BY <1>6, <2>1, <2>2
  <2>4. s \in ClaimedSlots(x[1])'
    <3>1. PICK j \in Rows : j = x[1] /\ s \in ClaimedSlots(j)
      BY <2>1, <2>2
    <3>2. s \in ClaimedSlots(j)'
      BY <1>8, <1>9, <3>1
    <3> QED BY <3>1, <3>2
  <2> QED BY <1>1, <1>14, <2>1, <2>3, <2>4 DEF Placed
<1>18. NonzerosKept'
  <2>1. ASSUME NEW w \in Workers, pc[w] \in {"claim_slot", "fill"}
        PROVE  pc'[w] \in {"claim_slot", "fill"} /\ triple'[w] = triple[w]
    BY <1>1, <1>3, <2>1
  <2> QED BY <1>1, <1>17, <2>1 DEF SlotInv, NonzerosKept
<1>19. BagEmptied'
  BY <1>1, <1>3 DEF SlotInv, BagEmptied
<1> QED
  BY <1>10, <1>11, <1>13, <1>16, <1>18, <1>19 DEF SlotInv

\* A worker fills the slot it has claimed.
LEMMA FillKeeps ==
  ASSUME TripletTypes, SlotInv, NEW t \in Workers, Fill(t)
  PROVE  SlotInv'
<1>0. PICK i, slot, x : i = triple[t][1] /\ slot = idx[t] /\ x = triple[t]
  OBVIOUS
<1>1. /\ pc[t] = "fill" /\ pc' = [pc EXCEPT ![t] = "remove"]
      /\ triple' = [triple EXCEPT ![t] = <<>>]
      /\ UNCHANGED <<bag, rp, idx>>
  BY DEF Fill, Goto
<1>2. x \in Triples(i) /\ i \in Rows /\ slot \in ClaimedSlots(i)
  <2>1. x \in Nonzeros
    BY <1>0, <1>1 DEF TripletTypes
  <2>2. i \in Rows
    BY <1>0, <2>1 DEF Nonzeros, Triples
  <2> QED BY <1>0, <1>1, <2>1, <2>2, TriplesOfRow DEF SlotInv, OwnSlots
<1>3. \A j \in Rows : /\ Before(Nnz, j) \in Nat /\ Before(Nnz, M) \in Nat
                      /\ Before(Nnz, j + 1) <= Before(Nnz, M) /\ Before(Nnz, j + 1) \in Nat
                      /\ ClaimedSlots(j) \subseteq Before(Nnz, j) .. Before(Nnz, j + 1) - 1
  BY ClaimedInRow, RowSlots DEF SlotInv
<1>4. \A j \in Rows : ClaimedSlots(j) \subseteq DOMAIN C
  BY <1>3 DEF SlotInv, Shape
<1>5. C' = [C EXCEPT ![slot] = x]
  BY <1>0, <1>2, <1>4 DEF Fill
<1>6. /\ pc'[t] = "remove"
      /\ \A w \in Workers \ {t} : pc'[w] = pc[w] /\ triple'[w] = triple[w]
  BY <1>1 DEF TripletTypes
<1>7. /\ DOMAIN C' = DOMAIN C
      /\ \A j \in Rows : \A s \in ClaimedSlots(j) : C'[s] = IF s = slot THEN x ELSE C[s]
  BY <1>4, <1>5
<1>8. Shape'
  BY <1>1, <1>7 DEF SlotInv, Shape
<1>9. SlotsCounted'
  <2>1. \A j \in Rows : Unplaced(j)' = Unplaced(j) /\ Deciding(j)' = Deciding(j)
    BY <1>1, <1>6 DEF Unplaced, Deciding
  <2> QED BY <1>1, <2>1 DEF SlotInv, SlotsCounted
<1>10. OwnSlots'
  BY <1>1, <1>6 DEF SlotInv, OwnSlots, ClaimedSlots
<1>11. \A s : Settled(s)' <=> Settled(s) \/ s = slot
  <2>1. \A w \in Workers \ {t} : pc[w] = "fill" => idx[w] /= slot
    BY <1>0, <1>1 DEF SlotInv, OwnSlots
  <2> QED BY <1>0, <1>1, <1>6, <2>1 DEF Settled
<1>12. \A s : Settled(s) => s /= slot
  BY <1>0, <1>1 DEF Settled
<1>13. \A j : ClaimedSlots(j)' = ClaimedSlots(j)
  BY <1>1 DEF ClaimedSlots
<1>14. SlotsFilled'
  <2> SUFFICES ASSUME NEW j \in Rows, NEW s \in ClaimedSlots(j), Settled(s)'
               PROVE  C'[s] \in Triples(j)
    BY <1>13 DEF SlotsFilled
  <2>1. CASE s = slot
    <3>1. i = j
      BY <1>2, <1>3, <2>1, RowSlots
    <3> QED BY <1>2, <1>7, <2>1, <3>1
  <2>2. CASE s /= slot
    BY <1>7, <1>11, <2>2 DEF SlotInv, SlotsFilled
  <2> QED BY <2>1, <2>2
<1>15. NonzerosKept'
  <2> SUFFICES ASSUME NEW y \in Nonzeros, y \notin bag'
               PROVE  \/ \E w \in Workers : pc'[w] \in {"claim_slot", "fill"} /\ triple'[w] = y
                      \/ Placed(y)'
    BY DEF NonzerosKept
  <2>1. y[1] \in Rows
    BY DEF Nonzeros, Triples
  <2>2. CASE y = x
    <3>1. slot \in ClaimedSlots(y[1])' /\ C'[slot] = y /\ Settled(slot)'
      BY <1>0, <1>2, <1>7, <1>11, <1>13, <2>2
    <3> QED BY <3>1 DEF Placed
  <2>3. ASSUME NEW w \in Workers, pc[w] \in {"claim_slot", "fill"}, triple[w] = y, y /= x
        PROVE  pc'[w] \in {"claim_slot", "fill"} /\ triple'[w] = y
    BY <1>0, <1>6, <2>3
  <2>4. CASE Placed(y)
    <3>1. PICK s \in ClaimedSlots(y[1]) : C[s] = y /\ Settled(s)
      BY <2>4 DEF Placed
    <3>2. C'[s] = y /\ Settled(s)'
      BY <1>7, <1>11, <1>12, <2>1, <3>1
    <3> QED BY <1>13, <3>1, <3>2 DEF Placed
  <2>5. \/ \E w \in Workers : pc[w] \in {"claim_slot", "fill"} /\ triple[w] = y
        \/ Placed(y)
    BY <1>1 DEF SlotInv, NonzerosKept
  <2> QED BY <2>2, <2>3, <2>4, <2>5
<1>16. BagEmptied'
  BY <1>1, <1>6 DEF SlotInv, BagEmptied
<1> QED
  BY <1>8, <1>9, <1>10, <1>14, <1>15, <1>16 DEF SlotInv

\* A worker finds the bag empty.
LEMMA NothingLeftKeeps ==
  ASSUME TripletTypes, SlotInv, NEW t \in Workers, NothingToRemove(t), UNCHANGED tripletVars
  PROVE  SlotInv'
<1>1. /\ pc[t] = "remove" /\ bag = {} /\ pc' = [pc EXCEPT ![t] = "done"]
      /\ UNCHANGED <<rp, C, bag, idx, triple>>
  BY DEF NothingToRemove, rowVars, tripletVars, Goto
<1>2. /\ pc'[t] = "done" /\ \A w \in Workers \ {t} : pc'[w] = pc[w]
  BY <1>1 DEF TripletTypes
<1>3. \A w \in Workers : \A there \in {"claim_slot", "fill"} : pc'[w] = there <=> pc[w] = there
  BY <1>1, <1>2
<1>4. /\ \A j : Unplaced(j)' = Unplaced(j) /\ Deciding(j)' = Deciding(j)
      /\ \A s : Settled(s)' <=> Settled(s)
      /\ \A j : ClaimedSlots(j)' = ClaimedSlots(j)
  BY <1>1, <1>3 DEF Unplaced, Deciding, Settled, ClaimedSlots
<1>5. \A y : Placed(y) => Placed(y)'
  BY <1>1, <1>4 DEF Placed
<1>6. Shape' /\ SlotsCounted' /\ SlotsFilled' /\ BagEmptied'
  BY <1>1, <1>4 DEF SlotInv, Shape, SlotsCounted, SlotsFilled, BagEmptied
<1>7. OwnSlots'
  BY <1>1, <1>3 DEF SlotInv, OwnSlots, ClaimedSlots
<1>8. NonzerosKept'
  BY <1>1, <1>3, <1>5 DEF SlotInv, NonzerosKept
<1> QED
  BY <1>6, <1>7, <1>8 DEF SlotInv

\* The invariant of the triplet store: each step of a worker keeps it.
LEMMA TripletInvStep ==
  ASSUME TripletInv, NEW t \in Workers, TripletStep(t)
  PROVE  TripletInv'
<1>1. /\ FirstRegionStep(t) \/ SecondStep(t)
      /\ FirstRegionStep(t) => FirstRegion /\ FirstRegion' /\ ~SecondRegion' /\ ~SecondRegion
      /\ SecondStep(t) => SecondRegion /\ SecondRegion' /\ ~FirstRegion' /\ ~FirstRegion
  BY TripletSteps DEF TripletInv
<1>2. CASE FirstRegionStep(t)
  BY <1>1, <1>2, FirstTypesStep, FirstRegionFinds DEF TripletInv
<1>3. CASE SecondStep(t)
  <2>1. TripletTypes'
    BY <1>3, SecondTypesStep DEF TripletInv
  <2>2. SlotInv'
    BY <1>1, <1>3, RemoveTripleKeeps, ClaimSlotKeeps, FillKeeps, NothingLeftKeeps
       DEF TripletInv, SecondStep
  <2>3. Found'
    BY <1>1, <1>3 DEF Found
  <2>4. /\ UNCHANGED <<nextci, element_count>>
        /\ \A w \in Workers : pc[w] /= "compute"
    BY <1>3, SecondStepFrame DEF TripletInv, Emptying
  <2>5. TripletSized'
    BY <2>4 DEF TripletInv, TripletSized, HasRow
  <2> QED BY <2>1, <2>2, <2>3, <2>5 DEF TripletInv
<1> QED
  BY <1>1, <1>2, <1>3

\* The product in the triplet store, when all workers are done.
LEMMA TripletProduct ==
  ASSUME TripletInv, Workers /= {}, AllDone
  PROVE  IsProductUnordered /\ bag = {}
<1>1. SecondRegion /\ TripletTypes /\ SlotInv
  BY DEF AllDone, TripletInv, SecondRegion, Emptying
<1>2. bag = {}
  BY <1>1 DEF SlotInv, BagEmptied, AllDone
<1>3. /\ \A j \in Rows : Unplaced(j) = {} /\ Deciding(j) = {}
      /\ \A s : Settled(s)
  BY <1>2 DEF AllDone, Unplaced, Deciding, Settled
<1>4. ASSUME NEW i \in Rows PROVE rp[i] = Before(Nnz, i)
  <2>1. rp[i] - Before(Nnz, i) = 0
    BY <1>1, <1>3, FS_EmptySet DEF SlotInv, SlotsCounted
  <2> QED
    BY <1>1, <2>1, ClaimedInRow, RowSlots DEF SlotInv
<1>5. rp = [i \in 0 .. M |-> Before(Nnz, i)]
  <2>1. ASSUME NEW i \in 0 .. M PROVE rp[i] = Before(Nnz, i)
    <3>1. i \in Rows \/ i = M
      BY RowStoreAssumption DEF Rows
    <3> QED BY <1>1, <1>4, <3>1 DEF SlotInv, Shape
  <2> QED BY <1>1, <2>1 DEF TripletTypes
<1>6. ASSUME NEW i \in Rows
      PROVE  {C[s] : s \in Before(Nnz, i) .. Before(Nnz, i + 1) - 1} = Triples(i)
  <2>1. ClaimedSlots(i) = Before(Nnz, i) .. Before(Nnz, i + 1) - 1
    BY <1>4 DEF ClaimedSlots
  <2>2. \A s \in ClaimedSlots(i) : C[s] \in Triples(i)
    BY <1>1, <1>3 DEF SlotInv, SlotsFilled
  <2>3. ASSUME NEW x \in Triples(i) PROVE \E s \in ClaimedSlots(i) : C[s] = x
    <3>1. x \in Nonzeros /\ x[1] = i
      BY DEF Nonzeros, Triples
    <3>2. Placed(x)
      BY <1>1, <1>2, <3>1 DEF SlotInv, NonzerosKept, AllDone
    <3> QED BY <3>1, <3>2 DEF Placed
  <2> QED BY <2>1, <2>2, <2>3
<1> QED
  BY <1>2, <1>5, <1>6 DEF IsProductUnordered, Triples

-----------------------------------------------------------------------------
\* The sequential algorithm: only the main thread runs, and it has computed
\* the rows up to its next one, or copied them down to its end.
SequentialInv ==
  /\ nextci = M
  /\ pc = [t \in Workers |-> pc[t]]
  /\ unit \in [Workers -> UnitType]
  /\ element_count \in [Rows -> Nat]
  /\ \/ /\ \A t \in Workers \ {Main} : pc[t] = "no_thread"
        /\ pc[Main] \in {"compute", "insert", "copy_back"}
     \/ AllDone
  /\ pc[Main] = "compute" =>
       /\ unit[Main].end = M /\ unit[Main].next < M
       /\ \A i \in Rows : i < unit[Main].next => element_count[i] = Nnz[i]
  /\ pc[Main] \in {"insert", "copy_back"} => unit[Main].end > 0 /\ element_count = Nnz
  /\ pc[Main] = "insert" => unit[Main].end = M
  /\ pc[Main] = "copy_back" => Laid /\ \A i \in Rows : unit[Main].end <= i => Copied(i)
  /\ AllDone => IsProduct

LEMMA MainIsWorker == ASSUME Workers /= {} PROVE Main \in Workers
BY DEF Main

LEMMA InitSequentialInv ==
  ASSUME Workers /= {}, InitSequential PROVE SequentialInv
<1> USE RowStoreAssumption DEF InitSequential
<1>1. /\ Main \in Workers /\ pc[Main] = "compute"
      /\ unit[Main] = [first |-> 0, next |-> 0, end |-> M]
  BY MainIsWorker
<1>2. unit \in [Workers -> UnitType]
  BY DEF UnitType, NoUnit
<1>3. element_count \in [Rows -> Nat] /\ pc = [t \in Workers |-> pc[t]]
  OBVIOUS
<1>4. \A i \in Rows : ~(i < 0)
  BY DEF Rows
<1>5. ~AllDone
  BY <1>1 DEF AllDone
<1>6. \A t \in Workers \ {Main} : pc[t] = "no_thread"
  OBVIOUS
<1> QED
  BY <1>1, <1>2, <1>3, <1>4, <1>5, <1>6 DEF SequentialInv

\* Each step of the main thread keeps it, and no other thread takes one.
LEMMA SequentialInvStep ==
  ASSUME Workers /= {}, SequentialInv, NEW t \in Workers,
         ComputeRow(t) \/ SequentialLayOut(t) \/ CopyBack(t)
  PROVE  SequentialInv'
<1>1. /\ pc[t] \in {"compute", "insert", "copy_back"}
      /\ t = Main /\ Main \in Workers /\ ~AllDone
      /\ \A w \in Workers \ {t} : pc[w] = "no_thread"
  <2>1. pc[t] \in {"compute", "insert", "copy_back"}
    BY DEF ComputeRow, SequentialLayOut, CopyBack
  <2>2. ~AllDone
    BY <2>1 DEF AllDone
  <2> QED BY <2>1, <2>2, MainIsWorker DEF SequentialInv
<1>2. /\ unit[t] \in UnitType /\ M \in Nat /\ Nnz \in [Rows -> Nat]
      /\ pc = [w \in Workers |-> pc[w]]
      /\ unit \in [Workers -> UnitType] /\ element_count \in [Rows -> Nat]
  BY RowStoreAssumption DEF SequentialInv
<1>3. /\ unit[t].next \in 0 .. M /\ unit[t].end \in 0 .. M
      /\ nextci' = M
  <2>1. nextci' = nextci
    BY DEF ComputeRow, SequentialLayOut, CopyBack
  <2> QED BY <1>2, <2>1 DEF UnitType, SequentialInv
<1>4. CASE ComputeRow(t)
  <2>0. PICK i : i = unit[t].next
    OBVIOUS
  <2>1. /\ unit[t].end = M /\ i < M /\ i \in Rows /\ i \in Nat
        /\ \A j \in Rows : j < i => element_count[j] = Nnz[j]
    BY <1>1, <1>2, <1>3, <1>4, <2>0 DEF ComputeRow, SequentialInv, Rows
  <2>2. /\ element_count' = [element_count EXCEPT ![i] = Nnz[i]]
        /\ unit' = [unit EXCEPT ![t] = [unit[t] EXCEPT !.next = i + 1]]
        /\ pc' = [pc EXCEPT ![t] = IF i + 1 < M THEN "compute" ELSE "insert"]
    BY <1>4, <2>0, <2>1 DEF ComputeRow, Goto
  <2>3. [unit[t] EXCEPT !.next = i + 1] \in UnitType
    BY <1>2, <2>1 DEF UnitType
  <2>4. /\ unit' \in [Workers -> UnitType] /\ element_count' \in [Rows -> Nat]
        /\ pc' = [w \in Workers |-> pc'[w]]
        /\ unit'[t].end = M /\ unit'[t].next = i + 1
        /\ pc'[t] = IF i + 1 < M THEN "compute" ELSE "insert"
        /\ \A w \in Workers \ {t} : pc'[w] = "no_thread"
    BY <1>1, <1>2, <2>1, <2>2, <2>3 DEF UnitType
  <2>5. \A j \in Rows : j < i + 1 => element_count'[j] = Nnz[j]
    <3> SUFFICES ASSUME NEW j \in Rows, j < i + 1 PROVE element_count'[j] = Nnz[j]
      OBVIOUS
    <3>1. j < i \/ j = i
      BY <2>1 DEF Rows
    <3> QED BY <1>2, <2>1, <2>2, <3>1
  <2>6. ~AllDone'
    BY <2>4 DEF AllDone
  <2>7. CASE i + 1 < M
    BY <1>1, <1>3, <2>4, <2>5, <2>6, <2>7 DEF SequentialInv
  <2>8. CASE ~(i + 1 < M)
    <3>1. \A j \in Rows : j < i + 1
      BY <1>2, <2>1, <2>8 DEF Rows
    <3>2. element_count' = Nnz
      BY <1>2, <2>4, <2>5, <3>1
    <3>3. M > 0
      BY <1>2, <2>1
    <3> QED BY <1>1, <1>3, <2>4, <2>6, <2>8, <3>2, <3>3 DEF SequentialInv
  <2> QED BY <2>7, <2>8
<1>5. CASE SequentialLayOut(t)
  <2>1. /\ unit[t].end = M /\ M > 0 /\ element_count = Nnz
        /\ UNCHANGED <<element_count, unit>>
        /\ pc' = [pc EXCEPT ![t] = "copy_back"]
    BY <1>1, <1>5 DEF SequentialLayOut, SequentialInv, Goto
  <2>2. Laid'
    BY <1>5, <2>1 DEF SequentialLayOut, LayOut, SizeBefore, Laid
  <2>3. /\ pc'[t] = "copy_back" /\ pc' = [w \in Workers |-> pc'[w]]
        /\ \A w \in Workers \ {t} : pc'[w] = "no_thread"
    BY <1>1, <1>2, <2>1
  <2>4. ~AllDone'
    BY <2>3 DEF AllDone
  <2>5. \A i \in Rows : ~(M <= i)
    BY <1>2 DEF Rows
  <2> QED BY <1>1, <1>3, <1>2, <2>1, <2>2, <2>3, <2>4, <2>5 DEF SequentialInv
<1>6. CASE CopyBack(t)
  <2>0. PICK i : i = unit[t].end - 1
    OBVIOUS
  <2>1. /\ pc[t] = "copy_back" /\ unit[t].end > 0 /\ element_count = Nnz /\ Laid
        /\ \A j \in Rows : unit[t].end <= j => Copied(j)
    BY <1>1, <1>6 DEF CopyBack, SequentialInv
  <2>2. i \in Rows /\ i \in Nat
    BY <1>2, <1>3, <2>0, <2>1 DEF Rows
  <2>3. /\ rp' = rp /\ element_count' = element_count
        /\ C' = [s \in DOMAIN C |-> IF s - rp[i] \in 0 .. element_count[i] - 1
                                    THEN <<i, s - rp[i]>> ELSE C[s]]
    BY <1>6, <2>0 DEF CopyBack
  <2>4. Laid' /\ \A j \in Rows : j = i \/ Copied(j) => Copied(j)'
    BY <2>1, <2>2, <2>3, RowCopied
  <2>5. ASSUME NEW j \in Rows, i <= j PROVE Copied(j)'
    <3>1. j = i \/ unit[t].end <= j
      BY <1>2, <1>3, <2>0, <2>2, <2>5 DEF Rows
    <3> QED BY <2>1, <2>4, <3>1
  <2>6. CASE i > 0
    <3>1. /\ unit' = [unit EXCEPT ![t] = [unit[t] EXCEPT !.end = i]]
          /\ pc' = [pc EXCEPT ![t] = "copy_back"]
      BY <1>6, <2>0, <2>6 DEF CopyBack, Goto
    <3>2. [unit[t] EXCEPT !.end = i] \in UnitType
      <4>1. i \in 0 .. M
        BY <1>2, <2>2 DEF Rows
      <4> QED BY <1>2, <4>1 DEF UnitType
    <3>3. /\ unit' \in [Workers -> UnitType] /\ unit'[t].end = i
          /\ pc'[t] = "copy_back" /\ pc' = [w \in Workers |-> pc'[w]]
          /\ \A w \in Workers \ {t} : pc'[w] = "no_thread"
      BY <1>1, <1>2, <3>1, <3>2 DEF UnitType
    <3>4. ~AllDone'
      BY <3>3 DEF AllDone
    <3> QED
      BY <1>1, <1>3, <1>2, <2>1, <2>3, <2>4, <2>5, <2>6, <3>3, <3>4 DEF SequentialInv
  <2>7. CASE ~(i > 0)
    <3>1. /\ unit' = [unit EXCEPT ![t] = NoUnit] /\ pc' = [w \in Workers |-> "done"]
      BY <1>6, <2>0, <2>7 DEF CopyBack
    <3>2. NoUnit \in UnitType
      BY <1>2 DEF NoUnit, UnitType
    <3>3. \A j \in Rows : Copied(j)'
      BY <2>2, <2>5, <2>7 DEF Rows
    <3>4. IsProduct'
      BY <2>4, <3>3 DEF IsProduct, Laid, Copied
    <3>5. AllDone' /\ pc'[t] = "done"
      BY <3>1 DEF AllDone
    <3> QED
      BY <1>1, <1>3, <1>2, <2>3, <3>1, <3>2, <3>4, <3>5 DEF SequentialInv
  <2> QED BY <2>6, <2>7
<1> QED
  BY <1>4, <1>5, <1>6

-----------------------------------------------------------------------------
\* The program: the algorithm it was asked for keeps its own invariant.
TestInv ==
  /\ algorithm \in {"OWN_RS", "OWN_TS", "GUSTAVSON"}
  /\ algorithm = "OWN_RS" => LateInv /\ RegionRowInv
  /\ algorithm = "OWN_TS" => TripletInv
  /\ algorithm = "GUSTAVSON" => SequentialInv
  /\ algorithm /= "OWN_RS" => phase2 = 0

\* Nothing is claimed or found at first.
LEMMA InitTripletInv ==
  ASSUME Workers /= {}, TripletInit, InitTS PROVE TripletInv
<1> USE RowStoreAssumption DEF InitTS, RowStoreInit, TripletInit
<1>1. \A t \in Workers : pc[t] = "claim_unit"
  OBVIOUS
<1>2. FirstRegion /\ ~SecondRegion
  BY <1>1 DEF FirstRegion, SecondRegion, Filling, Emptying
<1>3. unit \in [Workers -> UnitType]
  BY DEF UnitType, NoUnit
<1>4. \A i \in Rows : nextci <= i
  BY DEF Rows
<1>5. /\ element_count \in [Rows -> Nat] /\ nnz \in [Workers -> Nat]
      /\ rp \in [0 .. M -> Int] /\ idx \in [Workers -> Int]
      /\ pc = [t \in Workers |-> pc[t]] /\ triple = [t \in Workers |-> triple[t]]
  OBVIOUS
<1>6. TripletTypes
  BY <1>1, <1>2, <1>3, <1>5 DEF TripletTypes
<1> QED
  BY <1>2, <1>4, <1>6 DEF TripletInv, TripletSized, Found

LEMMA InitTestInv == Workers /= {} /\ TestInit => TestInv
BY InitLateInv, RegionInitRowInv, InitTripletInv, InitSequentialInv
   DEF TestInit, TestInv, InitRS, InitTS, InitSequential

\* Each step of the program keeps it.
LEMMA TestInvStep == Workers /= {} /\ TestInv /\ [TestNext]_testVars => TestInv'
<1> SUFFICES ASSUME Workers /= {}, TestInv, [TestNext]_testVars PROVE TestInv'
  OBVIOUS
<1>1. ASSUME NEW t \in Workers, StepRS(t) PROVE TestInv'
  <2>1. RegionNext /\ algorithm = "OWN_RS" /\ algorithm' = algorithm
    BY <1>1 DEF StepRS, RegionNext
  <2> QED
    BY <2>1, LateInvStep, RowInvStep DEF TestInv
<1>2. ASSUME NEW t \in Workers, StepTS(t) PROVE TestInv'
  <2>1. TripletStep(t) /\ algorithm = "OWN_TS" /\ algorithm' = algorithm /\ phase2' = phase2
    BY <1>2 DEF StepTS, phases
  <2> QED
    BY <2>1, TripletInvStep DEF TestInv
<1>3. ASSUME NEW t \in Workers, StepSequential(t) PROVE TestInv'
  <2>1. /\ ComputeRow(t) \/ SequentialLayOut(t) \/ CopyBack(t)
        /\ algorithm = "GUSTAVSON" /\ algorithm' = algorithm /\ phase2' = phase2
    BY <1>3 DEF StepSequential, phases
  <2> QED
    BY <2>1, SequentialInvStep DEF TestInv
<1>4. CASE Barrier
  <2>1. EndParallel /\ algorithm = "OWN_TS" /\ algorithm' = algorithm /\ phase2' = phase2
    BY <1>4 DEF Barrier, phases
  <2>2. TripletInv'
    BY <2>1, SlotInvStarts DEF TestInv, TripletInv
  <2> QED
    BY <2>1, <2>2 DEF TestInv
<1>5. CASE UNCHANGED testVars
  <2>1. UNCHANGED <<nextci, element_count, bag, rp, C, unit, pc, phase1, phase2, phase3,
                    nnz, triple, idx, algorithm>>
    BY <1>5 DEF testVars, regionVars, rowVars, phases, tripletVars
  <2>2. LateInv /\ RegionRowInv => LateInv' /\ RegionRowInv'
    BY <2>1, LateInvStep, RowInvStep DEF regionVars, rowVars, phases
  <2>3. SequentialInv => SequentialInv'
    BY <2>1 DEF SequentialInv, AllDone, Laid, Copied, IsProduct
  <2>4. TripletTypes /\ TripletSized /\ Found => TripletTypes' /\ TripletSized' /\ Found'
    BY <2>1 DEF TripletTypes, TripletSized, Found, HasRow, HasNonzero, FirstRegion, SecondRegion
  <2>5. /\ \A j : Unplaced(j)' = Unplaced(j) /\ Deciding(j)' = Deciding(j)
        /\ \A j : ClaimedSlots(j)' = ClaimedSlots(j)
        /\ \A s : Settled(s)' <=> Settled(s)
        /\ SecondRegion' <=> SecondRegion
    BY <2>1 DEF Unplaced, Deciding, ClaimedSlots, Settled, SecondRegion
  <2>6. Shape /\ SlotsCounted => Shape' /\ SlotsCounted'
    BY <2>1, <2>5 DEF Shape, SlotsCounted
  <2>7. SlotsFilled /\ BagEmptied => SlotsFilled' /\ BagEmptied'
    BY <2>1, <2>5 DEF SlotsFilled, BagEmptied
  <2>8. OwnSlots => OwnSlots'
    BY <2>1 DEF OwnSlots, ClaimedSlots
  <2>9. \A y : Placed(y) => Placed(y)'
    BY <2>1, <2>5 DEF Placed
  <2>10. NonzerosKept => NonzerosKept'
    BY <2>1, <2>9 DEF NonzerosKept
  <2> QED
    BY <2>1, <2>2, <2>3, <2>4, <2>5, <2>6, <2>7, <2>8, <2>10
       DEF TestInv, TripletInv, SlotInv
<1> QED
  BY <1>1, <1>2, <1>3, <1>4, <1>5 DEF TestNext

LEMMA TestInvariance == Workers /= {} => (TestSpec => []TestInv)
<1> SUFFICES ASSUME Workers /= {} PROVE TestSpec => []TestInv
  OBVIOUS
<1>1. TestInit => TestInv
  BY InitTestInv
<1>2. TestInv /\ [TestNext]_testVars => TestInv'
  BY TestInvStep
<1> QED
  BY <1>1, <1>2, PTL DEF TestSpec

\* The triplet store and the sequential algorithm end with the product,
\* whatever the matrix and in whatever order the nonzeros are found and
\* placed, as long as there is a thread.
THEOREM AlgorithmsAreRight == Workers /= {} => (TestSpec => []AlgorithmsMultiply)
<1> SUFFICES ASSUME Workers /= {} PROVE TestSpec => []AlgorithmsMultiply
  OBVIOUS
<1>1. TestInv => AlgorithmsMultiply
  BY TripletProduct DEF TestInv, AlgorithmsMultiply, SequentialInv
<1> QED
  BY <1>1, TestInvariance, PTL

\* The row pointers that the workers of the triplet store decrement stay in
\* their rows: as many slots are left as there are nonzeros to place.
THEOREM SlotsAreLeft == TestSpec => []SlotsLeft
<1>1. CASE Workers = {}
  <2>1. SlotsLeft
    BY <1>1 DEF SlotsLeft
  <2> QED BY <2>1, PTL
<1>2. CASE Workers /= {}
  <2>1. ASSUME TripletInv, \E t \in Workers : pc[t] \in {"remove", "claim_slot", "fill"}
        PROVE  SlotsCounted
    BY <2>1 DEF TripletInv, TripletTypes, FirstRegion, Filling, SlotInv
  <2>2. TestInv => SlotsLeft
    BY <2>1 DEF TestInv, SlotsLeft, SlotsCounted, Unplaced, Deciding
  <2> QED BY <1>2, <2>2, TestInvariance, PTL
<1> QED
  BY <1>1, <1>2

\* Late workers do no harm in the program either: the team of the triplet store
\* has a barrier, and the sequential algorithm has no team.
THEOREM TestLateArrivalsAreSafe == TestSpec => []LateArrivalsSafe
<1>1. CASE Workers = {}
  <2>1. LateArrivalsSafe
    BY <1>1 DEF LateArrivalsSafe
  <2> QED BY <2>1, PTL
<1>2. CASE Workers /= {}
  <2>1. LateInv => LateArrivalsSafe
    BY LateInvSafe
  <2>2. TripletInv => LateArrivalsSafe
    BY DEF TripletInv, TripletTypes, FirstRegion, SecondRegion, Filling, Emptying,
           LateArrivalsSafe, RowsStored
  <2>3. SequentialInv => LateArrivalsSafe
    <3> SUFFICES ASSUME SequentialInv, NEW t \in Workers,
                        pc[t] \in {"read_phase2", "claim_phase2", "create", "lay_out", "launch",
                                   "wait_phase3", "remove", "copy", "done"}
                 PROVE  RowsStored
      BY DEF LateArrivalsSafe
    <3>1. AllDone
      BY DEF SequentialInv
    <3> QED BY <3>1, RowStoreAssumption DEF SequentialInv, AllDone, RowsStored
  <2>4. TestInv => LateArrivalsSafe
    BY <2>1, <2>2, <2>3 DEF TestInv
  <2> QED BY <1>2, <2>4, TestInvariance, PTL
<1> QED
  BY <1>1, <1>2

\* As in the driver alone, the row store's result is the product unless two
\* workers raced for phase 2; the other algorithms have no phases.
THEOREM TestUnracedProduct == Workers /= {} => (TestSpec => []ProductUnlessRaced)
<1> SUFFICES ASSUME Workers /= {} PROVE TestSpec => []ProductUnlessRaced
  OBVIOUS
<1>1. TestInv => ProductUnlessRaced
  BY ProductOfInv DEF TestInv, ProductUnlessRaced
<1> QED
  BY <1>1, TestInvariance, PTL

\* So are those of the program, raced or not.
THEOREM TestRowPointersAreRight == Workers /= {} => (TestSpec => []RowPointersRight)
<1> SUFFICES ASSUME Workers /= {} PROVE TestSpec => []RowPointersRight
  OBVIOUS
<1>1. TestInv => RowPointersRight
  BY PointersOfInv DEF TestInv, RowPointersRight
<1> QED
  BY <1>1, TestInvariance, PTL

-----------------------------------------------------------------------------
(***************************************************************************)
(* The SpGEMM experiment.                                                  *)
(***************************************************************************)
\* The harness starts no more threads than the object counts.
FewThreads == Cardinality(Workers) <= MaxCPUS

\* The points before and after the barrier at the end of phase 1.
Early == {"claim_unit", "compute", "insert", "arrive"}

Sequential == {"lay_out", "launch"}

PastPhase2 == {"broadcast", "remove", "copy", "done"}

PastClaim == Sequential \cup PastPhase2 \cup {"pass", "wait_phase3"}

PastBarrier == PastClaim \cup {"read_phase2", "claim_phase2"}

Locked == {"check", "read_phase2", "claim_phase2", "lay_out", "launch", "pass"}

Static == {"first", "gustavson", "done"}

ParallelPCs == Early \cup PastBarrier \cup {"wait_all", "lock", "asleep", "check"}

\* The threads that phase1 counts.
Arrived == {t \in Workers : pc[t] \notin Early}

Types ==
  /\ pc \in [Workers -> Static \cup ParallelPCs]
  /\ nextci \in Nat /\ phase2 \in Nat /\ phase3 \in Nat
  /\ mutex \in Workers \cup {Free}
  /\ mmalg \in {0, 1}

\* Each algorithm and each build stays in its part of the program.
Parts ==
  \A t \in Workers :
    /\ mmalg = 0 => pc[t] \in Static
    /\ mmalg /= 0 => pc[t] \in ParallelPCs
    /\ useMutex => pc[t] \notin {"wait_all", "wait_phase3"}
    /\ ~useMutex => pc[t] \notin {"lock", "check", "asleep", "pass", "broadcast"}

\* phase1 counts the threads at the barrier and past it, who found no row left.
Arrivals ==
  mmalg /= 0 =>
    /\ phase1 = Cardinality(Arrived)
    /\ \A t \in Workers :
         pc[t] \notin {"claim_unit", "compute", "insert"} => nextci >= M

\* A thread is past the barrier when all have come to it.
Gathered ==
  mmalg /= 0 =>
    \A t, u \in Workers : pc[t] \in PastBarrier => pc[u] \notin Early

\* Under SPGEMM_USE_MUTEX the thread that decides on phase 2 has the mutex.
Holding ==
  useMutex => \A t \in Workers : pc[t] \in Locked => mutex = t

\* phase2 tells whether phase 2 was claimed, phase3 whether it is over.
Claimed ==
  mmalg /= 0 =>
    /\ \A t \in Workers : pc[t] \in PastClaim => phase2 /= 0
    /\ phase3 /= 0 => phase2 /= 0

\* While one thread is in the sequential phase, no other is in it or past it.
Alone ==
  \A t, u \in Workers :
    t /= u /\ pc[t] \in Sequential => pc[u] \notin Sequential \cup PastPhase2

NotLaunched ==
  ~useMutex => \A t \in Workers : pc[t] \in Sequential => phase3 = 0

PhaseInv ==
  /\ Types /\ Parts /\ Arrivals /\ Gathered
  /\ Holding /\ Claimed /\ Alone /\ NotLaunched

\* Nobody who copies finds C in another shape, however it learned that phase 2
\* is over.
LaidOut ==
  mmalg /= 0 =>
    /\ \A t \in Workers : pc[t] \in {"launch", "pass"} \cup PastPhase2 => Laid
    /\ phase3 /= 0 => Laid
    /\ useMutex /\ phase2 /= 0 /\ (\A t \in Workers : pc[t] /= "lay_out") => Laid

\* No row is lost: each is to be copied, or was copied after the layout.
Covered ==
  mmalg /= 0 =>
    \A i \in Rows :
      \/ Pending(i)
      \/ Copied(i) /\ \E t \in Workers : pc[t] \in PastPhase2

Emptied == mmalg /= 0 /\ (\E t \in Workers : pc[t] = "done") => bag = {}

\* The sequential algorithm is run by the thread that comes first.
Begun == {t \in Workers : pc[t] /= "first"}

Single ==
  mmalg = 0 =>
    /\ phase1 = Cardinality(Begun) /\ phase2 = 0 /\ phase3 = 0
    /\ nextci = 0 /\ bag = {}
    /\ Begun /= {} => IsProduct \/ \E t \in Workers : pc[t] = "gustavson"

RowInv == RowTypes /\ Sized /\ LaidOut /\ Covered /\ Emptied /\ Single

\* Each thread passes the end of the rows once, and claims phase 2 at most once.
OutOfRows == {t \in Workers : pc[t] \notin {"claim_unit", "compute", "insert"}}

Claimers == {t \in Workers : pc[t] \in PastClaim}

Bounds ==
  /\ nextci <= M + WUSize + WUSize * Cardinality(OutOfRows)
  /\ phase2 <= Cardinality(Claimers)
  /\ phase3 \in {0, 1}
  /\ useMutex => phase3 = 0
  /\ useMutex \in Builds
  /\ iteration \in 1 .. Iterations

-----------------------------------------------------------------------------
\* The set of arrived threads is finite, and all threads when it has their number.
LEMMA ArrivedFinite ==
  /\ IsFiniteSet(Arrived)
  /\ Cardinality(Arrived) \in Nat /\ Cardinality(Workers) \in Nat
  /\ Cardinality(Arrived) >= Cardinality(Workers) => Arrived = Workers
<1>1. IsFiniteSet(Workers) /\ Arrived \subseteq Workers
  BY RowStoreAssumption DEF Arrived
<1>2. IsFiniteSet(Arrived) /\ Cardinality(Arrived) <= Cardinality(Workers)
  BY <1>1, FS_Subset
<1>3. Cardinality(Arrived) \in Nat /\ Cardinality(Workers) \in Nat
  BY <1>1, <1>2, FS_CardinalityType
<1>4. Cardinality(Arrived) = Cardinality(Workers) => Arrived = Workers
  BY <1>1, FS_Subset
<1> QED
  BY <1>2, <1>3, <1>4

\* The object counts all threads.
LEMMA AllCounted == ASSUME FewThreads PROVE NR_CPUS = Cardinality(Workers)
<1>1. Cardinality(Workers) \in Nat
  BY ArrivedFinite
<1> QED
  BY <1>1, SpGEMMAssumption DEF FewThreads, NR_CPUS, Min

\* All threads start at the beginning of their algorithm.
LEMMA StartInv ==
  ASSUME mmalg \in {0, 1}, nextci = 0, phase1 = 0, phase2 = 0, phase3 = 0,
         pc = [t \in Workers |-> FirstStep], mutex \in Workers \cup {Free}
  PROVE  PhaseInv
<1> USE DEF FirstStep, Static, ParallelPCs, Early, PastBarrier, PastClaim,
            PastPhase2, Sequential, Locked
<1>1. mmalg /= 0 => Arrived = {}
  BY DEF Arrived
<1>2. Arrivals
  BY <1>1, FS_EmptySet DEF Arrivals
<1> QED
  BY <1>2 DEF PhaseInv, Types, Parts, Gathered, Holding, Claimed, Alone, NotLaunched

\* The first iteration.
LEMMA InitPhaseInv == Init => PhaseInv
  BY StartInv DEF Init, RowStoreInit

\* The next one.
LEMMA NextIterationKeepsPhaseInv == PhaseInv /\ NextIteration => PhaseInv'
<1> SUFFICES ASSUME PhaseInv, NextIteration PROVE PhaseInv'
  OBVIOUS
<1>1. /\ mmalg' \in {0, 1} /\ nextci' = 0 /\ phase1' = 0 /\ phase2' = 0 /\ phase3' = 0
      /\ pc' = [t \in Workers |-> FirstStep'] /\ mutex' \in Workers \cup {Free}
  BY DEF NextIteration, RowStoreReset, config, PhaseInv, Types, FirstStep
<1> USE DEF FirstStep, Static, ParallelPCs, Early, PastBarrier, PastClaim,
            PastPhase2, Sequential, Locked
<1>2. mmalg' /= 0 => Arrived' = {}
  BY <1>1 DEF Arrived
<1>3. Arrivals'
  BY <1>1, <1>2, FS_EmptySet DEF Arrivals
<1> QED
  BY <1>1, <1>3 DEF PhaseInv, Types, Parts, Gathered, Holding, Claimed, Alone, NotLaunched

-----------------------------------------------------------------------------
\* Every step moves one thread within its part of the program; only the
\* broadcast also moves those that sleep.
LEMMA TypesStep ==
  ASSUME PhaseInv, NEW t \in Workers, Step(t) \/ WakeSpuriously(t)
  PROVE  Types' /\ Parts'
<1> USE RowStoreAssumption
    DEF PhaseInv, Types, Parts, Static, ParallelPCs, Early, PastBarrier, PastClaim,
        PastPhase2, Sequential, Goto, phases, config
<1>1. CASE ClaimUnit(t) /\ UNCHANGED <<phases, mutex, config, iteration>>
  BY <1>1 DEF ClaimUnit
<1>2. CASE NoUnitLeft(t, "arrive") /\ UNCHANGED <<phases, mutex, config, iteration>>
  BY <1>2 DEF NoUnitLeft
<1>3. CASE ComputeRow(t) /\ UNCHANGED <<phases, mutex, config, iteration>>
  BY <1>3 DEF ComputeRow
<1>4. CASE InsertUnit(t) /\ UNCHANGED <<phases, mutex, config, iteration>>
  BY <1>4 DEF InsertUnit
<1>5. CASE RemoveUnit(t) /\ UNCHANGED <<phases, mutex, config, iteration>>
  BY <1>5 DEF RemoveUnit
<1>6. CASE NothingToRemove(t) /\ UNCHANGED <<phases, mutex, config, iteration>>
  BY <1>6 DEF NothingToRemove, rowVars
<1>7. CASE CopyRow(t) /\ UNCHANGED <<phases, mutex, config, iteration>>
  BY <1>7 DEF CopyRow
<1>8. CASE First(t) \/ Gustavson(t)
  BY <1>8 DEF First, Gustavson, rowVars
<1>9. CASE Arrive(t) \/ WaitAll(t)
  BY <1>9 DEF Arrive, WaitAll, rowVars
<1>10. CASE Lock(t) \/ Check(t) \/ WakeSpuriously(t)
  BY <1>10 DEF Lock, Check, WakeSpuriously, rowVars
<1>11. CASE ReadPhase2(t) \/ ClaimPhase2(t)
  BY <1>11 DEF ReadPhase2, ClaimPhase2, AfterPhase2, rowVars
<1>12. CASE SequentialPhase(t) \/ Launch(t)
  BY <1>12 DEF SequentialPhase, Launch, rowVars
<1>13. CASE Broadcast(t)
  BY <1>13 DEF Broadcast, rowVars
<1>14. CASE Pass(t) \/ WaitPhase3(t)
  BY <1>14 DEF Pass, WaitPhase3, rowVars
<1> QED
  BY <1>1, <1>2, <1>3, <1>4, <1>5, <1>6, <1>7, <1>8, <1>9, <1>10, <1>11, <1>12,
     <1>13, <1>14 DEF Step, RowStep

\* phase1 counts the arrivals, and the barrier holds the others back.
LEMMA BarrierStep ==
  ASSUME FewThreads, PhaseInv, NEW t \in Workers, Step(t) \/ WakeSpuriously(t)
  PROVE  Arrivals' /\ Gathered'
<1> USE RowStoreAssumption
    DEF PhaseInv, Types, Arrivals, Gathered, Static, Early, PastBarrier, PastClaim,
        PastPhase2, Sequential, Goto, phases, config
<1>0. mmalg' = mmalg
  BY DEF Step, First, Gustavson, Arrive, WaitAll, Lock, Check, WakeSpuriously,
         ReadPhase2, ClaimPhase2, SequentialPhase, Launch, Broadcast, Pass,
         WaitPhase3
<1>a. CASE mmalg = 0
  BY <1>0, <1>a
<1>b. CASE mmalg /= 0
  <2> USE <1>0, <1>b
  \* Any other step of a thread that stays on its side of the count.
  <2>0. ASSUME pc[t] \in Early <=> pc'[t] \in Early,
               \A u \in Workers \ {t} : pc'[u] \in Early <=> pc[u] \in Early
        PROVE  Arrived' = Arrived
    BY <2>0 DEF Arrived
  <2>1. CASE ClaimUnit(t) /\ UNCHANGED <<phases, mutex, config, iteration>>
    BY <2>0, <2>1 DEF ClaimUnit
  <2>2. CASE NoUnitLeft(t, "arrive") /\ UNCHANGED <<phases, mutex, config, iteration>>
    BY <2>0, <2>2 DEF NoUnitLeft
  <2>3. CASE ComputeRow(t) /\ UNCHANGED <<phases, mutex, config, iteration>>
    BY <2>0, <2>3 DEF ComputeRow
  <2>4. CASE InsertUnit(t) /\ UNCHANGED <<phases, mutex, config, iteration>>
    BY <2>0, <2>4 DEF InsertUnit
  <2>5. CASE RemoveUnit(t) /\ UNCHANGED <<phases, mutex, config, iteration>>
    BY <2>0, <2>5 DEF RemoveUnit
  <2>6. CASE NothingToRemove(t) /\ UNCHANGED <<phases, mutex, config, iteration>>
    BY <2>0, <2>6 DEF NothingToRemove, rowVars
  <2>7. CASE CopyRow(t) /\ UNCHANGED <<phases, mutex, config, iteration>>
    BY <2>0, <2>7 DEF CopyRow
  <2>8. CASE First(t) \/ Gustavson(t)
    BY <2>8 DEF First, Gustavson, Parts, ParallelPCs
  <2>9. CASE Arrive(t)
    <3>1. t \notin Arrived /\ Arrived' = Arrived \cup {t}
      BY <2>9 DEF Arrive, Arrived
    <3>2. Cardinality(Arrived') = Cardinality(Arrived) + 1
      BY <3>1, ArrivedFinite, FS_AddElement
    <3> QED
      BY <2>9, <3>2 DEF Arrive, rowVars
  <2>10. CASE WaitAll(t)
    <3>1. Arrived = Workers
      BY <2>10, ArrivedFinite, AllCounted DEF WaitAll
    <3>2. \A u \in Workers : pc[u] \notin Early
      BY <3>1 DEF Arrived
    <3>3. Arrived' = Arrived
      BY <2>0, <2>10 DEF WaitAll
    <3> QED
      BY <2>10, <3>2, <3>3 DEF WaitAll, rowVars
  <2>11. CASE Check(t)
    <3>1. Arrived' = Arrived
      BY <2>0, <2>11 DEF Check
    <3>2. phase1 >= NR_CPUS => Arrived = Workers
      BY ArrivedFinite, AllCounted
    <3>3. CASE phase1 < NR_CPUS
      BY <2>11, <3>1, <3>3 DEF Check, rowVars
    <3>4. CASE ~(phase1 < NR_CPUS)
      <4>1. phase1 >= NR_CPUS
        BY <3>4, ArrivedFinite, AllCounted
      <4>2. \A u \in Workers : pc[u] \notin Early
        BY <3>2, <4>1 DEF Arrived
      <4> QED
        BY <2>11, <3>1, <3>4, <4>2 DEF Check, rowVars
    <3> QED BY <3>3, <3>4
  <2>12. CASE Lock(t) \/ WakeSpuriously(t)
    BY <2>0, <2>12 DEF Lock, WakeSpuriously, rowVars
  <2>13. CASE ReadPhase2(t) \/ ClaimPhase2(t)
    BY <2>0, <2>13 DEF ReadPhase2, ClaimPhase2, AfterPhase2, rowVars
  <2>14. CASE SequentialPhase(t) \/ Launch(t)
    BY <2>0, <2>14 DEF SequentialPhase, Launch, rowVars
  <2>15. CASE Broadcast(t)
    BY <2>0, <2>15 DEF Broadcast, rowVars
  <2>16. CASE Pass(t) \/ WaitPhase3(t)
    BY <2>0, <2>16 DEF Pass, WaitPhase3, rowVars
  <2> QED
    BY <2>1, <2>2, <2>3, <2>4, <2>5, <2>6, <2>7, <2>8, <2>9, <2>10, <2>11, <2>12,
       <2>13, <2>14, <2>15, <2>16 DEF Step, RowStep
<1> QED
  BY <1>a, <1>b

\* One thread is let into the sequential phase.
LEMMA ClaimStep ==
  ASSUME PhaseInv, NEW t \in Workers, Step(t) \/ WakeSpuriously(t)
  PROVE  Holding' /\ Claimed' /\ Alone' /\ NotLaunched'
<1> USE SpGEMMAssumption
    DEF PhaseInv, Types, Parts, Holding, Claimed, Alone, NotLaunched, Locked,
        Static, ParallelPCs, Early, PastBarrier, PastClaim, PastPhase2, Sequential,
        Goto, phases, config, Free
<1>1. CASE ClaimUnit(t) /\ UNCHANGED <<phases, mutex, config, iteration>>
  BY <1>1 DEF ClaimUnit
<1>2. CASE NoUnitLeft(t, "arrive") /\ UNCHANGED <<phases, mutex, config, iteration>>
  BY <1>2 DEF NoUnitLeft
<1>3. CASE ComputeRow(t) /\ UNCHANGED <<phases, mutex, config, iteration>>
  BY <1>3 DEF ComputeRow
<1>4. CASE InsertUnit(t) /\ UNCHANGED <<phases, mutex, config, iteration>>
  BY <1>4 DEF InsertUnit
<1>5. CASE RemoveUnit(t) /\ UNCHANGED <<phases, mutex, config, iteration>>
  BY <1>5 DEF RemoveUnit
<1>6. CASE NothingToRemove(t) /\ UNCHANGED <<phases, mutex, config, iteration>>
  BY <1>6 DEF NothingToRemove
<1>7. CASE CopyRow(t) /\ UNCHANGED <<phases, mutex, config, iteration>>
  BY <1>7 DEF CopyRow
<1>8. CASE First(t) \/ Gustavson(t)
  BY <1>8 DEF First, Gustavson
<1>9. CASE Arrive(t) \/ WaitAll(t)
  BY <1>9 DEF Arrive, WaitAll
<1>10. CASE Lock(t)
  BY <1>10 DEF Lock
<1>11. CASE Check(t) \/ WakeSpuriously(t)
  BY <1>11 DEF Check, WakeSpuriously
<1>12. CASE ReadPhase2(t)
  BY <1>12 DEF ReadPhase2, AfterPhase2
<1>13. CASE ClaimPhase2(t)
  BY <1>13 DEF ClaimPhase2, AfterPhase2
<1>14. CASE SequentialPhase(t)
  BY <1>14 DEF SequentialPhase
<1>15. CASE Launch(t)
  BY <1>15 DEF Launch
<1>16. CASE Broadcast(t)
  BY <1>16 DEF Broadcast
<1>17. CASE Pass(t)
  BY <1>17 DEF Pass
<1>18. CASE WaitPhase3(t)
  BY <1>18 DEF WaitPhase3
<1> QED
  BY <1>1, <1>2, <1>3, <1>4, <1>5, <1>6, <1>7, <1>8, <1>9, <1>10, <1>11, <1>12,
     <1>13, <1>14, <1>15, <1>16, <1>17, <1>18 DEF Step, RowStep

-----------------------------------------------------------------------------
\* The steps between the phases, which leave the rows alone.
Waiting(t) ==
  \/ First(t) \/ Arrive(t) \/ WaitAll(t) \/ Lock(t) \/ Check(t) \/ WakeSpuriously(t)
  \/ ReadPhase2(t) \/ ClaimPhase2(t) \/ Launch(t) \/ Broadcast(t) \/ Pass(t)
  \/ WaitPhase3(t)

LEMMA WaitingLeavesRows ==
  ASSUME PhaseInv, NEW t \in Workers, Waiting(t)
  PROVE  /\ UNCHANGED rowVars /\ mmalg' = mmalg /\ useMutex' = useMutex
         /\ \A w \in Workers :
              \/ pc'[w] = pc[w]
              \/ /\ pc[w] \notin {"compute", "insert", "copy"}
                 /\ pc'[w] \notin {"compute", "insert", "copy"}
         /\ (\E w \in Workers : pc[w] \in PastPhase2)
              => \E w \in Workers : pc'[w] \in PastPhase2
<1> USE DEF Goto, PhaseInv, Types, config, PastPhase2
<1>1. CASE First(t) \/ Arrive(t)
  BY <1>1 DEF First, Arrive
<1>2. CASE WaitAll(t) \/ Lock(t)
  BY <1>2 DEF WaitAll, Lock
<1>3. CASE Check(t) \/ WakeSpuriously(t)
  BY <1>3 DEF Check, WakeSpuriously
<1>4. CASE ReadPhase2(t) \/ ClaimPhase2(t)
  BY <1>4 DEF ReadPhase2, ClaimPhase2, AfterPhase2
<1>5. CASE Launch(t) \/ Pass(t)
  BY <1>5 DEF Launch, Pass
<1>6. CASE Broadcast(t) \/ WaitPhase3(t)
  BY <1>6 DEF Broadcast, WaitPhase3
<1> QED
  BY <1>1, <1>2, <1>3, <1>4, <1>5, <1>6 DEF Waiting

\* What a step on rows leaves alone; the algorithm is the parallel one.
RowsOnly(t) == RowStep(t, "arrive") /\ UNCHANGED <<phases, mutex, config, iteration>>

LEMMA RowStepFacts ==
  ASSUME PhaseInv, NEW t \in Workers, RowsOnly(t)
  PROVE  /\ mmalg /= 0 /\ mmalg' = mmalg /\ useMutex' = useMutex
         /\ phase1' = phase1 /\ phase2' = phase2 /\ phase3' = phase3
         /\ \A w \in Workers \ {t} : pc'[w] = pc[w]
         /\ \/ pc[t] \in Early /\ pc'[t] \in Early
            \/ pc[t] \in {"remove", "copy"} /\ pc'[t] \in {"remove", "copy"}
            \/ pc[t] = "remove" /\ pc'[t] = "done" /\ bag = {} /\ bag' = {}
         /\ pc[t] \in Early => UNCHANGED <<rp, C>>
         /\ ~CopyRow(t) => UNCHANGED <<rp, C>>
<1> USE DEF Goto, PhaseInv, Types, Parts, Static, Early, RowsOnly, phases, config
<1>1. CASE ClaimUnit(t) \/ NoUnitLeft(t, "arrive")
  BY <1>1 DEF ClaimUnit, NoUnitLeft
<1>2. CASE ComputeRow(t)
  BY <1>2 DEF ComputeRow
<1>3. CASE InsertUnit(t)
  BY <1>3 DEF InsertUnit
<1>4. CASE RemoveUnit(t) \/ NothingToRemove(t)
  BY <1>4 DEF RemoveUnit, NothingToRemove, rowVars
<1>5. CASE CopyRow(t)
  BY <1>5 DEF CopyRow
<1> QED
  BY <1>1, <1>2, <1>3, <1>4, <1>5 DEF RowStep

LEMMA ThreadSteps ==
  ASSUME NEW t \in Workers, Step(t) \/ WakeSpuriously(t)
  PROVE  RowsOnly(t) \/ Gustavson(t) \/ SequentialPhase(t) \/ Waiting(t)
  BY DEF Step, RowsOnly, Waiting

\* Past the barrier the size of every row is known.
LEMMA SizesKnown ==
  ASSUME PhaseInv, RowInv, mmalg /= 0, NEW t \in Workers, pc[t] \in PastBarrier
  PROVE  element_count = Nnz /\ \A i \in Rows : element_count[i] = Nnz[i]
<1>1. nextci >= M /\ nextci \in Nat
  BY DEF PhaseInv, Types, Arrivals, PastBarrier, PastClaim, PastPhase2, Sequential
<1>2. \A w \in Workers : pc[w] /= "compute"
  BY DEF PhaseInv, Gathered, Early
<1>3. \A i \in Rows : ~(nextci <= i)
  BY <1>1, RowStoreAssumption DEF Rows
<1>4. \A i \in Rows : element_count[i] = Nnz[i]
  BY <1>2, <1>3 DEF RowInv, Sized
<1> QED
  BY <1>4, RowStoreAssumption DEF RowInv, RowTypes

LEMMA RowTypesKept ==
  ASSUME PhaseInv, RowInv, NEW t \in Workers, Step(t) \/ WakeSpuriously(t)
  PROVE  RowTypes' /\ Sized'
<1>0. pc = [w \in Workers |-> pc[w]]
  BY DEF PhaseInv, Types
<1>1. CASE RowsOnly(t)
  BY <1>0, <1>1, RowTypesStep, SizedStep DEF RowsOnly, RowInv
<1>2. CASE Gustavson(t)
  <2>1. /\ rp' \in [0 .. M -> Nat] /\ DOMAIN C' = 0 .. rp'[M] - 1
    BY <1>2, StartsOfRows, RowStoreAssumption DEF Gustavson
  <2>2. /\ UNCHANGED <<nextci, element_count, bag, unit>>
        /\ pc[t] = "gustavson" /\ pc' = [pc EXCEPT ![t] = "done"]
    BY <1>2 DEF Gustavson, Goto
  <2> QED
    BY <1>0, <2>1, <2>2 DEF RowInv, RowTypes, Sized
<1>3. CASE SequentialPhase(t)
  <2>1. element_count \in [Rows -> Nat]
    BY DEF RowInv, RowTypes
  <2>2. rp' \in [0 .. M -> Nat] /\ DOMAIN C' = 0 .. rp'[M] - 1
    BY <1>3, <2>1, StartsOfRows DEF SequentialPhase, LayOut, SizeBefore
  <2>3. /\ UNCHANGED <<nextci, element_count, bag, unit>>
        /\ pc[t] = "lay_out" /\ pc' = [pc EXCEPT ![t] = "launch"]
    BY <1>3 DEF SequentialPhase, Goto
  <2> QED
    BY <1>0, <2>2, <2>3 DEF RowInv, RowTypes, Sized
<1>4. CASE Waiting(t)
  BY <1>4, WaitingLeavesRows, RowsElsewhere DEF rowVars, RowInv
<1> QED
  BY <1>1, <1>2, <1>3, <1>4, ThreadSteps

\* C is laid out once in an iteration, for the product, before anyone copies.
LEMMA LaidOutKept ==
  ASSUME PhaseInv, RowInv, NEW t \in Workers, Step(t) \/ WakeSpuriously(t)
  PROVE  LaidOut'
<1>1. CASE RowsOnly(t)
  <2>1. CASE CopyRow(t)
    <3>1. pc[t] = "copy" /\ mmalg /= 0
      BY <1>1, <2>1, RowStepFacts DEF CopyRow
    <3>2. Laid
      BY <3>1 DEF RowInv, LaidOut, PastPhase2
    <3>3. \A i \in Rows : element_count[i] = Nnz[i]
      BY <3>1, SizesKnown DEF PastBarrier, PastClaim, PastPhase2
    <3> QED
      BY <2>1, <3>2, <3>3, CopiedStep DEF LaidOut, RowInv
  <2>2. CASE ~CopyRow(t)
    <3>1. Laid' <=> Laid
      BY <1>1, <2>2, RowStepFacts DEF Laid
    <3> QED
      BY <1>1, <3>1, RowStepFacts DEF RowInv, LaidOut, Early, PastPhase2
  <2> QED BY <2>1, <2>2
<1>2. CASE Gustavson(t)
  BY <1>2 DEF Gustavson, PhaseInv, Parts, ParallelPCs, Early, PastBarrier, PastClaim,
              PastPhase2, Sequential, config, LaidOut
<1>3. CASE SequentialPhase(t)
  <2>1. mmalg /= 0 /\ pc[t] = "lay_out"
    BY <1>3 DEF SequentialPhase, PhaseInv, Parts, Static
  <2>2. element_count = Nnz
    BY <2>1, SizesKnown DEF PastBarrier, PastClaim, Sequential
  <2>3. Laid'
    BY <1>3, <2>2 DEF SequentialPhase, LayOut, SizeBefore, Laid
  <2> QED BY <2>3 DEF LaidOut
<1>4. CASE Waiting(t)
  <2>1. Laid' <=> Laid
    BY <1>4, WaitingLeavesRows DEF rowVars, Laid
  <2> USE <2>1 DEF RowInv, LaidOut, PhaseInv, Types, Parts, Holding, Claimed, Static, Locked,
                   ParallelPCs, Early, PastBarrier, PastClaim, PastPhase2, Sequential,
                   Goto, phases, config
  <2>2. CASE First(t) \/ Arrive(t)
    BY <2>2 DEF First, Arrive
  <2>3. CASE WaitAll(t) \/ Lock(t)
    BY <2>3 DEF WaitAll, Lock
  <2>4. CASE Check(t) \/ WakeSpuriously(t)
    BY <2>4 DEF Check, WakeSpuriously
  <2>5. CASE ReadPhase2(t)
    BY <2>5 DEF ReadPhase2, AfterPhase2
  <2>6. CASE ClaimPhase2(t)
    BY <2>6 DEF ClaimPhase2, AfterPhase2
  <2>7. CASE Launch(t)
    BY <2>7 DEF Launch
  <2>8. CASE Pass(t) \/ WaitPhase3(t)
    BY <2>8 DEF Pass, WaitPhase3
  <2>9. CASE Broadcast(t)
    BY <2>9 DEF Broadcast
  <2> QED
    BY <1>4, <2>2, <2>3, <2>4, <2>5, <2>6, <2>7, <2>8, <2>9 DEF Waiting
<1> QED
  BY <1>1, <1>2, <1>3, <1>4, ThreadSteps

\* No row is lost, and the bag that was found empty stays so.
LEMMA CoveredKept ==
  ASSUME PhaseInv, RowInv, NEW t \in Workers, Step(t) \/ WakeSpuriously(t)
  PROVE  Covered' /\ Emptied'
<1>0. pc = [w \in Workers |-> pc[w]]
  BY DEF PhaseInv, Types
<1>1. CASE RowsOnly(t)
  <2> USE RowStepFacts, <1>1
  <2>1. (\E w \in Workers : pc[w] \in PastPhase2) => \E w \in Workers : pc'[w] \in PastPhase2
    BY DEF PastPhase2, Early
  <2>2. ASSUME NEW i \in Rows, CopyRow(t), i = unit[t].next \/ Copied(i)
        PROVE  Copied(i)' /\ \E w \in Workers : pc'[w] \in PastPhase2
    <3>1. pc[t] = "copy" /\ mmalg /= 0 /\ pc[t] \in PastPhase2 /\ pc[t] \in PastBarrier
      BY <2>2 DEF CopyRow, PastPhase2, PastBarrier, PastClaim
    <3>2. Laid
      BY <3>1 DEF RowInv, LaidOut
    <3>3. \A j \in Rows : element_count[j] = Nnz[j]
      BY <3>1, SizesKnown
    <3> QED
      BY <2>1, <2>2, <3>1, <3>2, <3>3, CopiedStep DEF RowInv
  <2>3. ASSUME NEW i \in Rows, ~CopyRow(t), Copied(i) PROVE Copied(i)'
    BY <2>3 DEF Copied
  <2>4. ASSUME NEW i \in Rows, Pending(i), CopyRow(t) => unit[t].next /= i
        PROVE  Pending(i)'
    BY <1>0, <2>4, PendingStep DEF RowsOnly, RowInv
  <2>5. Covered'
    BY <2>1, <2>2, <2>3, <2>4 DEF Covered, RowInv
  <2>6. CASE pc[t] \in Early
    <3>1. \A w \in Workers : pc[w] /= "done" /\ pc'[w] /= "done"
      BY <2>6 DEF PhaseInv, Gathered, PastBarrier, PastClaim, PastPhase2, Early
    <3> QED BY <2>5, <3>1 DEF Emptied
  <2>7. CASE pc[t] \notin Early
    <3>1. RemoveUnit(t) \/ NothingToRemove(t) \/ CopyRow(t)
      BY <2>7 DEF RowsOnly, RowStep, ClaimUnit, NoUnitLeft, ComputeRow, InsertUnit, Early
    <3>2. bag = {} => bag' = {}
      BY <3>1 DEF RemoveUnit, NothingToRemove, CopyRow, rowVars
    <3> QED BY <2>5, <2>7, <3>2 DEF Emptied, RowInv
  <2> QED BY <2>6, <2>7
<1>2. CASE Gustavson(t)
  BY <1>2 DEF Gustavson, PhaseInv, Parts, ParallelPCs, Early, PastBarrier, PastClaim,
              PastPhase2, Sequential, config, Covered, Emptied
<1>3. CASE SequentialPhase(t)
  <2>1. mmalg /= 0 /\ pc[t] = "lay_out" /\ mmalg' = mmalg
    BY <1>3 DEF SequentialPhase, PhaseInv, Parts, Static, config
  <2>2. /\ UNCHANGED <<nextci, element_count, bag, unit>>
        /\ pc' = [pc EXCEPT ![t] = "launch"]
    BY <1>3 DEF SequentialPhase, Goto
  <2>3. \A w \in Workers : pc[w] \notin PastPhase2
    BY <2>1 DEF PhaseInv, Alone, Sequential, PastPhase2
  <2>4. \A w \in Workers :
          \/ pc'[w] = pc[w]
          \/ /\ pc[w] \notin {"compute", "insert", "copy"}
             /\ pc'[w] \notin {"compute", "insert", "copy"}
    BY <1>0, <2>1, <2>2
  <2>5. \A i \in Rows : Pending(i) => Pending(i)'
    BY <2>2, <2>4, RowsElsewhere
  <2>6. \A w \in Workers : pc'[w] /= "done"
    BY <1>0, <2>2, <2>3 DEF PastPhase2
  <2> QED BY <2>1, <2>3, <2>5, <2>6 DEF RowInv, Covered, Emptied
<1>4. CASE Waiting(t)
  <2>1. \A i \in Rows : Pending(i) => Pending(i)'
    BY <1>4, WaitingLeavesRows, RowsElsewhere DEF rowVars
  <2>2. \A i \in Rows : Copied(i) => Copied(i)'
    BY <1>4, WaitingLeavesRows DEF rowVars, Copied
  <2>3. Covered'
    BY <1>4, <2>1, <2>2, WaitingLeavesRows DEF Covered, RowInv
  <2>4. mmalg /= 0 => \A w \in Workers : pc'[w] = "done" => pc[w] = "done"
    BY <1>0, <1>4 DEF Waiting, First, Arrive, WaitAll, Lock, Check, WakeSpuriously,
       ReadPhase2, ClaimPhase2, AfterPhase2, Launch, Broadcast, Pass, WaitPhase3, Goto,
       PhaseInv, Parts, ParallelPCs, Early, PastBarrier, PastClaim, PastPhase2, Sequential
  <2> QED
    BY <1>4, <2>3, <2>4, WaitingLeavesRows DEF Emptied, RowInv, rowVars
<1> QED
  BY <1>1, <1>2, <1>3, <1>4, ThreadSteps

\* The sequential algorithm puts the product in C.
LEMMA GustavsonMultiplies == ASSUME NEW t, Gustavson(t) PROVE IsProduct'
<1>1. /\ rp' = [i \in 0 .. M |-> Before(Nnz, i)]
      /\ C' = [s \in 0 .. rp'[M] - 1 |->
                 LET i == CHOOSE r \in Rows : rp'[r] <= s /\ s < rp'[r + 1]
                 IN  <<i, s - rp'[i]>>]
  BY DEF Gustavson
<1>2. ASSUME NEW i \in Rows, NEW k \in 0 .. Nnz[i] - 1
      PROVE  C'[Before(Nnz, i) + k] = <<i, k>>
  <2> DEFINE s == Before(Nnz, i) + k
             in(r) == rp'[r] <= s /\ s < rp'[r + 1]
  <2>1. ASSUME NEW r \in Rows
        PROVE  /\ rp'[r] = Before(Nnz, r) /\ rp'[r] \in Nat
               /\ rp'[r + 1] = Before(Nnz, r) + Nnz[r] /\ Nnz[r] \in Nat
    <3>1. r \in 0 .. M /\ r + 1 \in 0 .. M
      BY RowStoreAssumption DEF Rows
    <3> QED
      BY <1>1, <3>1, RowStoreAssumption, EntriesFinite, BeforeNext
  <2>2. s \in 0 .. rp'[M] - 1
    BY <1>1, SlotOfOneRow, StartsOfRows, RowStoreAssumption
  <2>3. in(i)
    BY <2>1
  <2>4. ASSUME NEW r \in Rows, in(r) PROVE r = i
    <3>1. s - Before(Nnz, r) \in 0 .. Nnz[r] - 1
      BY <2>1, <2>4
    <3>2. s = Before(Nnz, r) + (s - Before(Nnz, r))
      BY <2>1
    <3> QED
      BY <3>1, <3>2, SlotOfOneRow
  <2> DEFINE c == CHOOSE r \in Rows : in(r)
  <2>5. C'[s] = <<c, s - rp'[c]>>
    BY <1>1, <2>2
  <2>6. c \in Rows /\ in(c)
    BY <2>3
  <2>7. c = i
    BY <2>4, <2>6
  <2>8. s - rp'[i] = k
    BY <2>1
  <2> HIDE DEF c
  <2> QED
    BY <2>5, <2>7, <2>8
<1> QED
  BY <1>1, <1>2 DEF IsProduct

\* Subsets of the threads are finite.
LEMMA SomeThreads ==
  ASSUME NEW T \in SUBSET Workers
  PROVE  /\ IsFiniteSet(T) /\ Cardinality(T) \in Nat
         /\ Cardinality(T) <= Cardinality(Workers) /\ Cardinality(Workers) \in Nat
         /\ Cardinality(T) = 0 <=> T = {}
<1>1. IsFiniteSet(Workers)
  BY RowStoreAssumption
<1>2. IsFiniteSet(T) /\ Cardinality(T) <= Cardinality(Workers)
  BY <1>1, FS_Subset
<1> QED
  BY <1>1, <1>2, FS_CardinalityType, FS_EmptySet

\* phase1 tells the first thread that it is the first.
LEMMA SingleKept ==
  ASSUME PhaseInv, RowInv, NEW t \in Workers, Step(t) \/ WakeSpuriously(t)
  PROVE  Single'
<1>0. pc = [w \in Workers |-> pc[w]]
  BY DEF PhaseInv, Types
<1>1. CASE RowsOnly(t)
  BY <1>1, RowStepFacts DEF Single
<1>2. CASE Gustavson(t)
  <2>1. /\ pc' = [pc EXCEPT ![t] = "done"] /\ pc[t] = "gustavson" /\ mmalg' = mmalg
        /\ UNCHANGED <<phase1, phase2, phase3, nextci, bag>>
    BY <1>2 DEF Gustavson, Goto, config, phases
  <2>2. Begun' = Begun
    BY <1>0, <2>1 DEF Begun
  <2> QED
    BY <1>2, <2>1, <2>2, GustavsonMultiplies DEF Single, RowInv
<1>3. CASE SequentialPhase(t)
  BY <1>3 DEF SequentialPhase, PhaseInv, Parts, Static, config, Single
<1>4. CASE First(t)
  <2>1. /\ mmalg = 0 /\ mmalg' = mmalg /\ pc[t] = "first"
        /\ pc' = [pc EXCEPT ![t] = IF phase1 = 0 THEN "gustavson" ELSE "done"]
        /\ phase1' = phase1 + 1 /\ UNCHANGED <<phase2, phase3, nextci, bag, rp, C>>
    BY <1>4 DEF First, Goto, config, rowVars, PhaseInv, Types, Parts, ParallelPCs, Early,
                PastBarrier, PastClaim, PastPhase2, Sequential
  <2>2. t \notin Begun /\ Begun' = Begun \cup {t} /\ Begun \in SUBSET Workers
    BY <1>0, <2>1 DEF Begun
  <2>3. Cardinality(Begun') = Cardinality(Begun) + 1
    BY <2>2, SomeThreads, FS_AddElement
  <2>4. phase1 = 0 <=> Begun = {}
    BY <2>1, <2>2, SomeThreads DEF RowInv, Single
  <2>5. IsProduct' <=> IsProduct
    BY <2>1 DEF IsProduct
  <2>6. CASE phase1 = 0
    BY <1>0, <2>1, <2>3, <2>6 DEF RowInv, Single
  <2>7. CASE phase1 /= 0
    <3>1. IsProduct \/ \E w \in Workers : pc[w] = "gustavson"
      BY <2>1, <2>4, <2>7 DEF RowInv, Single
    <3>2. ASSUME NEW w \in Workers, pc[w] = "gustavson" PROVE pc'[w] = "gustavson"
      BY <1>0, <2>1, <3>2
    <3> QED
      BY <2>1, <2>3, <2>5, <3>1, <3>2 DEF RowInv, Single
  <2> QED BY <2>6, <2>7
<1>5. CASE Waiting(t) /\ ~First(t)
  <2>1. mmalg' = mmalg
    BY <1>5, WaitingLeavesRows
  <2>2. mmalg /= 0
    BY <1>5 DEF Waiting, Arrive, WaitAll, Lock, Check, WakeSpuriously, ReadPhase2,
       ClaimPhase2, Launch, Broadcast, Pass, WaitPhase3, PhaseInv, Parts, Static
  <2> QED
    BY <2>1, <2>2 DEF Single
<1> QED
  BY <1>1, <1>2, <1>3, <1>4, <1>5, ThreadSteps

\* The counters stay within bounds.
LEMMA BoundsKept ==
  ASSUME PhaseInv, Bounds, NEW t \in Workers, Step(t) \/ WakeSpuriously(t)
  PROVE  Bounds'
<1> USE RowStoreAssumption
<1>0. /\ pc = [w \in Workers |-> pc[w]] /\ nextci \in Nat /\ phase2 \in Nat
      /\ OutOfRows \in SUBSET Workers /\ OutOfRows' \in SUBSET Workers
      /\ Claimers \in SUBSET Workers /\ Claimers' \in SUBSET Workers
  BY DEF PhaseInv, Types, OutOfRows, Claimers
<1>c. /\ Cardinality(OutOfRows) \in Nat /\ Cardinality(OutOfRows') \in Nat
      /\ Cardinality(Claimers) \in Nat /\ Cardinality(Claimers') \in Nat
      /\ IsFiniteSet(Claimers') /\ IsFiniteSet(OutOfRows) /\ IsFiniteSet(Claimers)
  BY <1>0, SomeThreads
<1> USE DEF Goto, phases, config
\* Who claimed phase 2, or found it claimed, does so no more.
<1>1. Claimers \subseteq Claimers' /\ (phase2' = phase2 \/ ClaimPhase2(t))
  <2> USE <1>0 DEF Claimers, PastClaim, PastPhase2, Sequential
  <2>1. CASE RowsOnly(t)
    BY <2>1, RowStepFacts DEF Early
  <2>2. CASE Gustavson(t) \/ SequentialPhase(t)
    BY <2>2 DEF Gustavson, SequentialPhase
  <2>3. CASE First(t) \/ Arrive(t) \/ WaitAll(t) \/ Lock(t)
    BY <2>3 DEF First, Arrive, WaitAll, Lock
  <2>4. CASE Check(t) \/ WakeSpuriously(t)
    BY <2>4 DEF Check, WakeSpuriously
  <2>5. CASE ReadPhase2(t) \/ ClaimPhase2(t)
    BY <2>5 DEF ReadPhase2, ClaimPhase2, AfterPhase2
  <2>6. CASE Launch(t) \/ Broadcast(t) \/ Pass(t) \/ WaitPhase3(t)
    BY <2>6 DEF Launch, Broadcast, Pass, WaitPhase3
  <2> QED
    BY <2>1, <2>2, <2>3, <2>4, <2>5, <2>6, ThreadSteps DEF Waiting
<1>2. phase2' <= Cardinality(Claimers')
  <2>1. Cardinality(Claimers) <= Cardinality(Claimers')
    BY <1>1, <1>c, FS_Subset
  <2>2. CASE phase2' = phase2
    BY <1>0, <1>c, <2>1, <2>2 DEF Bounds
  <2>3. CASE ClaimPhase2(t)
    <3>1. t \notin Claimers /\ t \in Claimers' /\ phase2' = phase2 + 1
      BY <1>0, <2>3 DEF ClaimPhase2, AfterPhase2, Claimers, PastClaim, PastPhase2, Sequential
    <3>2. Cardinality(Claimers \cup {t}) = Cardinality(Claimers) + 1
      BY <1>c, <3>1, FS_AddElement
    <3>3. Cardinality(Claimers \cup {t}) <= Cardinality(Claimers')
      BY <1>1, <1>c, <3>1, FS_Subset
    <3> QED
      BY <1>0, <1>c, <3>1, <3>2, <3>3 DEF Bounds
  <2> QED BY <1>1, <2>2, <2>3
<1>3. /\ nextci' <= M + WUSize + WUSize * Cardinality(OutOfRows')
  <2>1. CASE NoUnitLeft(t, "arrive")
    <3>1. t \notin OutOfRows /\ OutOfRows' = OutOfRows \cup {t} /\ nextci' = nextci + WUSize
      BY <1>0, <2>1 DEF NoUnitLeft, OutOfRows
    <3>2. Cardinality(OutOfRows') = Cardinality(OutOfRows) + 1
      BY <1>c, <3>1, FS_AddElement
    <3>3. WUSize * (Cardinality(OutOfRows) + 1) = WUSize * Cardinality(OutOfRows) + WUSize
      BY <1>c
    <3>4. WUSize * Cardinality(OutOfRows) \in Nat
      BY <1>c
    <3> QED
      BY <1>0, <3>1, <3>2, <3>3, <3>4 DEF Bounds
  <2>2. CASE ClaimUnit(t)
    <3>1. WUSize * Cardinality(OutOfRows') \in Nat /\ nextci < M /\ nextci' = nextci + WUSize
      BY <1>c, <2>2 DEF ClaimUnit
    <3> QED
      BY <1>0, <3>1
  <2>3. CASE ~NoUnitLeft(t, "arrive") /\ ~ClaimUnit(t)
    <3> USE <1>0, <2>3 DEF OutOfRows
    <3>1. CASE RowsOnly(t)
      <4>1. nextci' = nextci /\ OutOfRows' = OutOfRows
        <5>1. CASE ComputeRow(t) \/ InsertUnit(t) \/ RemoveUnit(t)
          BY <5>1 DEF ComputeRow, InsertUnit, RemoveUnit
        <5>2. CASE NothingToRemove(t) \/ CopyRow(t)
          BY <5>2 DEF NothingToRemove, CopyRow, rowVars
        <5> QED BY <3>1, <5>1, <5>2 DEF RowsOnly, RowStep
      <4> QED BY <4>1 DEF Bounds
    <3>2. CASE Gustavson(t) \/ SequentialPhase(t)
      BY <3>2 DEF Gustavson, SequentialPhase, Bounds
    <3>3. CASE Waiting(t)
      <4>1. nextci' = nextci
        BY <3>3, WaitingLeavesRows DEF rowVars
      <4>2. OutOfRows' = OutOfRows
        <5>1. CASE First(t) \/ Arrive(t) \/ WaitAll(t) \/ Lock(t)
          BY <5>1 DEF First, Arrive, WaitAll, Lock
        <5>2. CASE Check(t) \/ WakeSpuriously(t) \/ ReadPhase2(t) \/ ClaimPhase2(t)
          BY <5>2 DEF Check, WakeSpuriously, ReadPhase2, ClaimPhase2, AfterPhase2
        <5>3. CASE Launch(t) \/ Broadcast(t) \/ Pass(t) \/ WaitPhase3(t)
          BY <5>3 DEF Launch, Broadcast, Pass, WaitPhase3
        <5> QED BY <3>3, <5>1, <5>2, <5>3 DEF Waiting
      <4> QED BY <4>1, <4>2 DEF Bounds
    <3> QED BY <3>1, <3>2, <3>3, ThreadSteps
  <2> QED BY <2>1, <2>2, <2>3
<1>4. useMutex' = useMutex /\ iteration' = iteration /\ (phase3' = phase3 \/ Launch(t))
  BY ThreadSteps DEF RowsOnly, Gustavson, SequentialPhase, Waiting, First, Arrive, WaitAll,
     Lock, Check, WakeSpuriously, ReadPhase2, ClaimPhase2, Launch, Broadcast, Pass,
     WaitPhase3
<1>5. Launch(t) => phase3' \in {0, 1} /\ (useMutex => phase3' = 0)
  BY DEF Launch, PhaseInv, NotLaunched, Sequential, Bounds
<1> QED
  BY <1>2, <1>3, <1>4, <1>5 DEF Bounds

-----------------------------------------------------------------------------
\* The invariant holds in every state.
LEMMA PhaseInvariance == FewThreads /\ Spec => []PhaseInv
<1>1. PhaseInv /\ UNCHANGED vars => PhaseInv'
  BY DEF PhaseInv, Types, Parts, Arrivals, Arrived, Gathered, Holding, Claimed, Alone,
         NotLaunched, vars, rowVars, phases, config
<1>2. FewThreads /\ PhaseInv /\ [Next]_vars => PhaseInv'
  BY <1>1, TypesStep, BarrierStep, ClaimStep, NextIterationKeepsPhaseInv
     DEF Next, PhaseInv
<1>3. FewThreads => FewThreads'
  BY DEF FewThreads
<1> QED
  BY <1>2, <1>3, InitPhaseInv, PTL DEF Spec

\* At the beginning of an iteration all rows are unclaimed.
LEMMA StartOfRows ==
  ASSUME RowStoreInit, phase1 = 0, phase2 = 0, phase3 = 0,
         pc = [t \in Workers |-> FirstStep], mmalg \in {0, 1},
         rp \in [0 .. M -> Nat], DOMAIN C = 0 .. rp[M] - 1
  PROVE  RowInv
<1> USE RowStoreAssumption DEF FirstStep
<1>1. RowTypes
  BY DEF RowStoreInit, RowTypes, NoUnit, UnitType
<1>2. /\ \A i \in Rows : nextci <= i
      /\ \A t \in Workers : pc[t] \notin PastPhase2 \cup {"launch", "pass"}
  BY DEF RowStoreInit, Rows, PastPhase2
<1>3. Sized /\ LaidOut /\ Covered /\ Emptied
  BY <1>2 DEF Sized, LaidOut, Covered, Pending, Emptied, PastPhase2
<1>4. mmalg = 0 => Begun = {}
  BY DEF Begun
<1>5. Single
  BY <1>4, FS_EmptySet DEF Single, RowStoreInit
<1> QED
  BY <1>1, <1>3, <1>5 DEF RowInv

LEMMA InitRowInv == Init => RowInv /\ Bounds
<1> SUFFICES ASSUME Init PROVE RowInv /\ Bounds
  OBVIOUS
<1>1. rp \in [0 .. M -> Nat] /\ rp[M] = 0 /\ DOMAIN C = 0 .. rp[M] - 1
  BY RowStoreAssumption DEF Init
<1>2. RowInv
  BY <1>1, StartOfRows DEF Init
<1>3. WUSize * Cardinality(OutOfRows) \in Nat /\ Cardinality(Claimers) \in Nat
  BY SomeThreads, RowStoreAssumption DEF OutOfRows, Claimers
<1> QED
  BY <1>2, <1>3, RowStoreAssumption, SpGEMMAssumption DEF Init, RowStoreInit, Bounds

LEMMA NextIterationKeepsRowInv ==
  ASSUME PhaseInv, RowInv, Bounds, NextIteration PROVE RowInv' /\ Bounds'
<1>1. /\ nextci' = 0 /\ element_count' = [i \in Rows |-> 0] /\ bag' = {}
      /\ unit' = [t \in Workers |-> NoUnit] /\ UNCHANGED <<rp, C>>
      /\ phase1' = 0 /\ phase2' = 0 /\ phase3' = 0
      /\ pc' = [t \in Workers |-> FirstStep]
      /\ UNCHANGED <<mutex, useMutex, mmalg>>
      /\ iteration < Iterations /\ iteration' = iteration + 1
  BY DEF NextIteration, RowStoreReset, config
<1> USE RowStoreAssumption DEF FirstStep
<1>2. RowTypes'
  BY <1>1 DEF RowInv, RowTypes, NoUnit, UnitType
<1>3. /\ \A i \in Rows : nextci' <= i
      /\ \A t \in Workers : pc'[t] \notin PastPhase2 \cup {"launch", "pass"}
      /\ \A t \in Workers : pc'[t] \notin PastPhase2
  BY <1>1 DEF Rows, PastPhase2
<1>4. Sized' /\ LaidOut' /\ Covered' /\ Emptied'
  BY <1>1, <1>3 DEF Sized, LaidOut, Covered, Pending, Emptied
<1>5. mmalg' = 0 => Begun' = {}
  BY <1>1 DEF Begun
<1>6. Single'
  BY <1>1, <1>5, FS_EmptySet DEF Single
<1>7. /\ WUSize * Cardinality(OutOfRows') \in Nat /\ Cardinality(Claimers') \in Nat
      /\ M + WUSize \in Nat
  BY SomeThreads DEF OutOfRows, Claimers
<1>8. Bounds'
  BY <1>1, <1>7, SpGEMMAssumption DEF Bounds
<1> QED
  BY <1>2, <1>4, <1>6, <1>8 DEF RowInv

\* The invariant of the rows holds in every state too.
LEMMA RowInvariance == FewThreads /\ Spec => [](PhaseInv /\ RowInv /\ Bounds)
<1>1. PhaseInv /\ RowInv /\ Bounds /\ UNCHANGED vars => RowInv' /\ Bounds'
  BY DEF RowInv, RowTypes, Sized, LaidOut, Laid, Covered, Pending, Copied, Emptied, Single,
         Begun, IsProduct, Bounds, OutOfRows, Claimers, vars, rowVars, phases, config
<1>2. PhaseInv /\ RowInv /\ Bounds /\ [Next]_vars => RowInv' /\ Bounds'
  BY <1>1, RowTypesKept, LaidOutKept, CoveredKept, SingleKept, BoundsKept,
     NextIterationKeepsRowInv DEF Next, RowInv
<1> QED
  BY <1>2, InitRowInv, PhaseInvariance, PTL DEF Spec

\* Types, and the bounds of the counters, for any number of rows and threads.
THEOREM TypesAreOK == FewThreads /\ Spec => []TypeOK
<1>1. ASSUME PhaseInv, RowInv, Bounds PROVE TypeOK
  <2> USE RowStoreAssumption
  <2>1. pc \in [Workers -> PCs]
    BY <1>1 DEF PhaseInv, Types, PCs, Static, ParallelPCs, Early, PastBarrier, PastClaim,
                PastPhase2, Sequential
  <2>2. nextci \in 0 .. M + WUSize * (Cardinality(Workers) + 1)
    <3> DEFINE c == Cardinality(OutOfRows)
               w == Cardinality(Workers)
    <3>1. c \in Nat /\ w \in Nat /\ c <= w
      BY SomeThreads DEF OutOfRows
    <3> HIDE DEF c, w
    <3>2. WUSize * c <= WUSize * w /\ WUSize * c \in Nat /\ WUSize * w \in Nat
      BY <3>1
    <3>3. WUSize * (w + 1) = WUSize * w + WUSize
      BY <3>1
    <3>4. nextci <= M + WUSize + WUSize * c /\ nextci \in Nat
      BY <1>1 DEF Bounds, RowInv, RowTypes, c
    <3>5. nextci <= M + WUSize * (w + 1) /\ M + WUSize * (w + 1) \in Nat
      BY <3>1, <3>2, <3>3, <3>4
    <3> QED
      BY <3>4, <3>5 DEF w
  <2>3. \A t \in Workers : unit[t].next \in 0 .. M /\ unit[t].end \in 0 .. M
    BY <1>1 DEF RowInv, RowTypes, UnitType
  <2>4. phase1 \in 0 .. Cardinality(Workers)
    <3>1. CASE mmalg = 0
      BY <1>1, <3>1, SomeThreads DEF RowInv, Single, Begun
    <3>2. CASE mmalg /= 0
      BY <1>1, <3>2, SomeThreads DEF PhaseInv, Arrivals, Arrived
    <3> QED BY <3>1, <3>2
  <2>5. phase2 \in 0 .. Cardinality(Workers) /\ phase3 \in 0 .. 1
    <3>1. /\ Cardinality(Claimers) \in Nat /\ Cardinality(Workers) \in Nat
          /\ Cardinality(Claimers) <= Cardinality(Workers)
      BY SomeThreads DEF Claimers
    <3> QED
      BY <1>1, <3>1 DEF Bounds, PhaseInv, Types
  <2> QED
    BY <1>1, <2>1, <2>2, <2>3, <2>4, <2>5
       DEF TypeOK, RowInv, RowTypes, Bounds, PhaseInv, Types
<1> QED
  BY <1>1, RowInvariance, PTL

\* A row is copied to a place of its size, whichever thread computed it and
\* whichever laid C out, in every iteration.
THEOREM RowsFitInC == FewThreads /\ Spec => []RowsFit
<1>1. ASSUME PhaseInv, RowInv PROVE RowsFit
  <2> SUFFICES ASSUME NEW t \in Workers, pc[t] = "copy"
               PROVE  rp[unit[t].next] + element_count[unit[t].next] = rp[unit[t].next + 1]
    BY DEF RowsFit
  <2> DEFINE i == unit[t].next
  <2>1. i \in Rows /\ i + 1 \in 0 .. M
    BY <1>1, RowAtHand DEF RowInv
  <2>2. i \in 0 .. M
    BY <2>1, RowStoreAssumption DEF Rows
  <2>3. mmalg /= 0
    BY <1>1 DEF PhaseInv, Types, Parts, Static
  <2>4. element_count[i] = Nnz[i]
    BY <1>1, <2>1, <2>3, SizesKnown DEF PastBarrier, PastClaim, PastPhase2
  <2>5. Laid
    BY <1>1, <2>3 DEF RowInv, LaidOut, PastPhase2
  <2> QED
    BY <2>1, <2>2, <2>4, <2>5, BeforeNext, RowStoreAssumption DEF Laid
<1> QED
  BY <1>1, RowInvariance, PTL

\* With at least one thread, and none that the object does not count, C is the
\* product of the matrix when an iteration is over, whatever the matrix, the
\* size of the work units, the build and the schedule.
THEOREM ProductIsComplete ==
  FewThreads /\ Workers /= {} /\ Spec => []ProductComplete
<1> SUFFICES ASSUME Workers /= {} PROVE FewThreads /\ Spec => []ProductComplete
  OBVIOUS
<1>1. ASSUME PhaseInv, RowInv PROVE ProductComplete
  <2> SUFFICES ASSUME AllDone PROVE IsProduct /\ bag = {}
    BY DEF ProductComplete
  <2>1. PICK t \in Workers : pc[t] = "done"
    BY DEF AllDone
  <2>2. CASE mmalg = 0
    <3>1. t \in Begun
      BY <2>1 DEF Begun
    <3> QED
      BY <1>1, <2>2, <3>1 DEF RowInv, Single, AllDone
  <2>3. CASE mmalg /= 0
    <3>1. bag = {} /\ Laid
      BY <1>1, <2>1, <2>3 DEF RowInv, Emptied, LaidOut, PastPhase2
    <3>2. nextci >= M /\ nextci \in Nat
      BY <1>1, <2>1, <2>3 DEF PhaseInv, Types, Arrivals
    <3>3. \A i \in Rows : ~Pending(i)
      BY <3>1, <3>2, RowStoreAssumption DEF Pending, AllDone, Rows
    <3>4. \A i \in Rows : Copied(i)
      BY <1>1, <2>3, <3>3 DEF RowInv, Covered
    <3> QED
      BY <3>1, <3>4 DEF Laid, Copied, IsProduct
  <2> QED BY <1>1, <2>2, <2>3 DEF PhaseInv, Types
<1> QED
  BY <1>1, RowInvariance, PTL

\* "Allow exactly one worker to perform the sequential phase": with no more
\* threads than the object counts, all rows are stored when a thread lays C
\* out, and no other computes, lays out or copies.
THEOREM SequentialPhaseIsAlone == FewThreads /\ Spec => []SequentialPhaseAlone
<1>1. PhaseInv => SequentialPhaseAlone
  BY DEF PhaseInv, Types, Parts, Arrivals, Gathered, Alone, SequentialPhaseAlone, RowsStored,
         Computing, Copying, Static, ParallelPCs, Early, PastBarrier, PastClaim,
         PastPhase2, Sequential
<1> QED
  BY <1>1, PhaseInvariance, PTL

\* "Wait for all.": with no more threads than the object counts, nobody is past
\* the barrier while another thread computes, which fails with more threads.
THEOREM BarrierWaitsForAll == FewThreads /\ Spec => []WaitsForAll
<1>1. PhaseInv => WaitsForAll
  BY DEF PhaseInv, Parts, Gathered, WaitsForAll, Computing, Static, Early,
         PastBarrier
<1> QED
  BY <1>1, PhaseInvariance, PTL
=============================================================================
