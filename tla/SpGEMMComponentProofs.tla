----------------------- MODULE SpGEMMComponentProofs -----------------------
(***************************************************************************)
(* What is proved of the SpGEMM component: for matrices of any size, any   *)
(* files, any number of digits and any sequence of calls, the vectors of a *)
(* matrix fit, and unless entries of it are lost to a second sequential    *)
(* phase, a matrix is well formed, survives a file, and is the product of  *)
(* what the inputs of the call that computed it stood for.                 *)
(*                                                                         *)
(* First the operators of SparseMatrix.  A sum is unrolled one member at a *)
(* time (SumUnrolled), pairs in row-major order are listed once and in     *)
(* that order (RowMajorOrder), and the accumulator holds, after any number *)
(* of products, the sum of those of each column (Accumulated).  A row is   *)
(* therefore that of the product (RowComputed), rows laid out denote the   *)
(* matrix they are the rows of (RowsDenote), and so do sorted triples      *)
(* (PositionsDenote), which a file is read to (LoadedMatrix).              *)
(*                                                                         *)
(* Then the component.  What a matrix holds are the valid copies of its    *)
(* vectors (Held), which reading them on either side does not change; IInv *)
(* says that they are a matrix and how far a sequential call has come.     *)
(***************************************************************************)
EXTENDS SpGEMMComponent, FiniteSetTheorems, SequenceTheorems,
        WellFoundedInduction, TLAPS

-----------------------------------------------------------------------------
\* Induction: a set with 0 that has the successor of each number has them all.
LEMMA AllNumbers ==
  ASSUME NEW T, 0 \in T, \A k \in Nat : k \in T => k + 1 \in T
  PROVE  Nat \subseteq T
<1> SUFFICES ASSUME Nat \ T /= {} PROVE FALSE
  OBVIOUS
<1>1. PICK k \in Nat \ T : \A j \in Nat \ T : ~(<<j, k>> \in OpToRel(<, Nat))
  <2>1. Nat \ T \subseteq Nat
    OBVIOUS
  <2> QED BY <2>1, NatLessThanWellFounded, WFMin
<1>2. \A j \in Nat \ T : ~(j < k)
  BY <1>1 DEF OpToRel
<1>3. k /= 0 /\ k - 1 \in Nat /\ k - 1 < k
  OBVIOUS
<1>4. k - 1 \in T
  BY <1>2, <1>3
<1>5. (k - 1) + 1 \in T
  BY <1>3, <1>4
<1> QED
  BY <1>3, <1>5

\* Removing a member makes a finite set smaller by one.
LEMMA OneLess ==
  ASSUME NEW S, IsFiniteSet(S), NEW x \in S
  PROVE  /\ IsFiniteSet(S \ {x}) /\ Cardinality(S) \in Nat \ {0}
         /\ Cardinality(S \ {x}) = Cardinality(S) - 1
         /\ Cardinality(S \ {x}) \in Nat
BY FS_RemoveElement, FS_CardinalityType, FS_EmptySet

-----------------------------------------------------------------------------
\* Sums.

Some(S) == CHOOSE x \in S : TRUE

\* g has the sums over the subsets of S of at most n members, 0 for the others.
UnrollsTo(g, S, f, n) ==
  g = [s \in SUBSET S |->
         IF s = {} \/ Cardinality(s) > n THEN 0 ELSE f[Some(s)] + g[s \ {Some(s)}]]

Unrolls(g, S, f) ==
  g = [s \in SUBSET S |-> IF s = {} THEN 0 ELSE f[Some(s)] + g[s \ {Some(s)}]]

LEMMA SumsUnroll ==
  ASSUME NEW S, IsFiniteSet(S), NEW f
  PROVE  \E g : Unrolls(g, S, f)
<1> DEFINE T == {n \in Nat : \E g : UnrollsTo(g, S, f, n)}
<1>0. \A s \in SUBSET S : IsFiniteSet(s) /\ Cardinality(s) \in Nat
                          /\ Cardinality(s) <= Cardinality(S)
  BY FS_Subset, FS_CardinalityType
<1>1. 0 \in T
  <2>1. \A s \in SUBSET S : s = {} \/ Cardinality(s) > 0
    BY <1>0, FS_EmptySet
  <2>2. UnrollsTo([s \in SUBSET S |-> 0], S, f, 0)
    BY <2>1 DEF UnrollsTo
  <2> QED BY <2>2
<1>2. ASSUME NEW n \in Nat, n \in T PROVE n + 1 \in T
  <2>1. PICK g : UnrollsTo(g, S, f, n)
    BY <1>2
  <2> DEFINE h == [s \in SUBSET S |->
                     IF Cardinality(s) = n + 1 THEN f[Some(s)] + g[s \ {Some(s)}] ELSE g[s]]
             k(s) == IF s = {} \/ Cardinality(s) > n + 1 THEN 0
                     ELSE f[Some(s)] + h[s \ {Some(s)}]
  <2>2. ASSUME NEW s \in SUBSET S PROVE h[s] = k(s)
    <3>1. CASE s = {}
      <4>1. Cardinality(s) = 0
        BY <3>1, FS_EmptySet
      <4>2. h[s] = g[s] /\ g[s] = 0
        BY <2>1, <3>1, <4>1 DEF UnrollsTo
      <4> QED BY <3>1, <4>2
    <3>2. CASE s /= {}
      <4> DEFINE x == Some(s)
      <4>1. x \in s
        BY <3>2 DEF Some
      <4>2. s \ {x} \in SUBSET S /\ Cardinality(s \ {x}) = Cardinality(s) - 1
        BY <1>0, <4>1, OneLess
      <4> HIDE DEF x
      <4>3. CASE Cardinality(s) = n + 1
        <5>1. h[s \ {x}] = g[s \ {x}]
          BY <4>2, <4>3
        <5>2. h[s] = f[x] + g[s \ {x}]
          BY <4>3 DEF x
        <5>3. ~(Cardinality(s) > n + 1)
          BY <4>3
        <5> QED BY <3>2, <5>1, <5>2, <5>3 DEF x
      <4>4. CASE Cardinality(s) > n + 1
        <5>1. Cardinality(s) > n /\ Cardinality(s) /= n + 1
          BY <1>0, <4>4
        <5> QED BY <2>1, <4>4, <5>1 DEF UnrollsTo
      <4>5. CASE Cardinality(s) <= n
        <5>1. ~(Cardinality(s) > n) /\ ~(Cardinality(s) > n + 1) /\ Cardinality(s) /= n + 1
              /\ Cardinality(s \ {x}) /= n + 1
          BY <1>0, <4>2, <4>5
        <5>2. h[s \ {x}] = g[s \ {x}] /\ h[s] = g[s]
          BY <4>2, <5>1
        <5>3. g[s] = f[x] + g[s \ {x}]
          BY <2>1, <3>2, <5>1 DEF UnrollsTo, x
        <5> QED BY <3>2, <5>1, <5>2, <5>3 DEF x
      <4> QED BY <1>0, <4>3, <4>4, <4>5
    <3> QED BY <3>1, <3>2
  <2> HIDE DEF k
  <2>3. h = [s \in SUBSET S |-> k(s)]
    BY <2>2
  <2>4. UnrollsTo(h, S, f, n + 1)
    BY <2>3 DEF UnrollsTo, k
  <2> QED BY <2>4
<1>3. Cardinality(S) \in T
  BY <1>0, <1>1, <1>2, AllNumbers
<1>4. PICK g : UnrollsTo(g, S, f, Cardinality(S))
  BY <1>3
<1>5. \A s \in SUBSET S : ~(Cardinality(s) > Cardinality(S))
  BY <1>0
<1>6. Unrolls(g, S, f)
  BY <1>4, <1>5 DEF Unrolls, UnrollsTo
<1> QED BY <1>6

\* The sums are those of any function that unrolls.
LEMMA SumsAgree ==
  ASSUME NEW S, NEW f, NEW g, Unrolls(g, S, f),
         NEW T, NEW e, NEW h, Unrolls(h, T, e),
         NEW s, s \subseteq S, s \subseteq T, IsFiniteSet(s), \A x \in s : f[x] = e[x]
  PROVE  g[s] = h[s]
<1> DEFINE N == {n \in Nat : \A r \in SUBSET s : Cardinality(r) = n => g[r] = h[r]}
<1>0. \A r \in SUBSET s : IsFiniteSet(r) /\ Cardinality(r) \in Nat
  BY FS_Subset, FS_CardinalityType
<1>1. 0 \in N
  <2>1. \A r \in SUBSET s : Cardinality(r) = 0 => r = {}
    BY <1>0, FS_EmptySet
  <2>2. g[{}] = 0 /\ h[{}] = 0
    <3>1. {} \in SUBSET S /\ {} \in SUBSET T
      OBVIOUS
    <3> QED BY <3>1 DEF Unrolls
  <2> QED BY <2>1, <2>2
<1>2. ASSUME NEW n \in Nat, n \in N PROVE n + 1 \in N
  <2> SUFFICES ASSUME NEW r \in SUBSET s, Cardinality(r) = n + 1 PROVE g[r] = h[r]
    OBVIOUS
  <2> DEFINE x == Some(r)
  <2>1. r /= {} /\ x \in r
    BY FS_EmptySet DEF Some
  <2>2. r \ {x} \in SUBSET s /\ Cardinality(r \ {x}) = n
    BY <1>0, <2>1, OneLess
  <2>3. g[r \ {x}] = h[r \ {x}]
    BY <1>2, <2>2
  <2>4. g[r] = f[x] + g[r \ {x}] /\ h[r] = e[x] + h[r \ {x}]
    BY <2>1 DEF Unrolls
  <2> QED BY <2>1, <2>3, <2>4
<1>3. Cardinality(s) \in N
  BY <1>0, <1>1, <1>2, AllNumbers
<1> QED BY <1>3

LEMMA SumUnrolled ==
  ASSUME NEW S, IsFiniteSet(S), NEW f
  PROVE  \E g : Unrolls(g, S, f) /\ SumOf(S, f) = g[S]
<1> DEFINE g == CHOOSE g : Unrolls(g, S, f)
<1>1. SumOf(S, f) = g[S]
  BY DEF SumOf, MapThenSumSet, MapThenFoldSet, Unrolls, Some
<1>2. Unrolls(g, S, f)
  BY SumsUnroll
<1> QED BY <1>1, <1>2

LEMMA SumEmpty == ASSUME NEW f PROVE SumOf({}, f) = 0
<1>1. PICK g : Unrolls(g, {}, f) /\ SumOf({}, f) = g[{}]
  BY SumUnrolled, FS_EmptySet
<1> QED BY <1>1 DEF Unrolls

LEMMA SumEqual ==
  ASSUME NEW S, IsFiniteSet(S), NEW f, NEW e, \A x \in S : f[x] = e[x]
  PROVE  SumOf(S, f) = SumOf(S, e)
<1>1. PICK g : Unrolls(g, S, f) /\ SumOf(S, f) = g[S]
  BY SumUnrolled
<1>2. PICK h : Unrolls(h, S, e) /\ SumOf(S, e) = h[S]
  BY SumUnrolled
<1> QED BY <1>1, <1>2, SumsAgree

LEMMA SumOfSome ==
  ASSUME NEW S, IsFiniteSet(S), S /= {}, NEW f
  PROVE  SumOf(S, f) = f[Some(S)] + SumOf(S \ {Some(S)}, f)
<1> DEFINE x == Some(S)
<1>0. x \in S /\ IsFiniteSet(S \ {x})
  BY OneLess DEF Some
<1>1. PICK g : Unrolls(g, S, f) /\ SumOf(S, f) = g[S]
  BY SumUnrolled
<1>2. PICK h : Unrolls(h, S \ {x}, f) /\ SumOf(S \ {x}, f) = h[S \ {x}]
  BY <1>0, SumUnrolled
<1> HIDE DEF x
<1>3. g[S \ {x}] = h[S \ {x}]
  BY <1>0, <1>1, <1>2, SumsAgree
<1>4. g[S] = f[x] + g[S \ {x}]
  BY <1>1 DEF Unrolls, x
<1> QED BY <1>1, <1>2, <1>3, <1>4 DEF x

LEMMA SumOfOne == ASSUME NEW x, NEW f PROVE SumOf({x}, f) = f[x] + 0
<1>1. Some({x}) = x /\ {x} \ {x} = {} /\ IsFiniteSet({x})
  BY FS_Singleton DEF Some
<1>2. SumOf({x}, f) = f[x] + SumOf({x} \ {x}, f)
  BY <1>1, SumOfSome
<1> QED BY <1>1, <1>2, SumEmpty

\* The sum of integers is an integer.
LEMMA SumInteger ==
  ASSUME NEW S, IsFiniteSet(S), NEW f, \A x \in S : f[x] \in Int
  PROVE  SumOf(S, f) \in Int
<1> DEFINE N == {n \in Nat : \A s \in SUBSET S : Cardinality(s) = n => SumOf(s, f) \in Int}
<1>0. \A s \in SUBSET S : IsFiniteSet(s) /\ Cardinality(s) \in Nat
  BY FS_Subset, FS_CardinalityType
<1>1. 0 \in N
  <2>1. \A s \in SUBSET S : Cardinality(s) = 0 => s = {}
    BY <1>0, FS_EmptySet
  <2> QED BY <2>1, SumEmpty
<1>2. ASSUME NEW n \in Nat, n \in N PROVE n + 1 \in N
  <2> SUFFICES ASSUME NEW s \in SUBSET S, Cardinality(s) = n + 1 PROVE SumOf(s, f) \in Int
    OBVIOUS
  <2> DEFINE c == Some(s)
  <2>1. c \in s /\ s /= {}
    BY FS_EmptySet DEF Some
  <2>2. s \ {c} \in SUBSET S /\ Cardinality(s \ {c}) = n
    BY <1>0, <2>1, OneLess
  <2>3. SumOf(s, f) = f[c] + SumOf(s \ {c}, f)
    BY <1>0, <2>1, SumOfSome
  <2> QED BY <1>2, <2>1, <2>2, <2>3
<1>3. Cardinality(S) \in N
  BY <1>0, <1>1, <1>2, AllNumbers
<1> QED BY <1>3

\* Any member can be taken first.
LEMMA SumRemoves ==
  ASSUME NEW S, IsFiniteSet(S), NEW f, \A x \in S : f[x] \in Int, NEW x \in S
  PROVE  SumOf(S, f) = f[x] + SumOf(S \ {x}, f)
<1> DEFINE P(s) == \A y \in s : SumOf(s, f) = f[y] + SumOf(s \ {y}, f)
           N == {n \in Nat : \A s \in SUBSET S : Cardinality(s) = n => P(s)}
<1>0. \A s \in SUBSET S : /\ IsFiniteSet(s) /\ Cardinality(s) \in Nat
                          /\ SumOf(s, f) \in Int
  BY FS_Subset, FS_CardinalityType, SumInteger
<1>1. 0 \in N
  <2>1. \A s \in SUBSET S : Cardinality(s) = 0 => s = {}
    BY <1>0, FS_EmptySet
  <2> QED BY <2>1
<1>2. ASSUME NEW n \in Nat, n \in N PROVE n + 1 \in N
  <2> SUFFICES ASSUME NEW s \in SUBSET S, Cardinality(s) = n + 1, NEW y \in s
               PROVE SumOf(s, f) = f[y] + SumOf(s \ {y}, f)
    OBVIOUS
  <2> DEFINE c == Some(s)
  <2>1. c \in s /\ s /= {}
    BY DEF Some
  <2>2. \A z \in s : s \ {z} \in SUBSET S /\ Cardinality(s \ {z}) = n
    BY <1>0, OneLess
  <2>3. \A z \in s : P(s \ {z})
    BY <1>2, <2>2
  <2>4. SumOf(s, f) = f[c] + SumOf(s \ {c}, f)
    BY <1>0, <2>1, SumOfSome
  <2> HIDE DEF c
  <2>5. CASE y = c
    BY <2>4, <2>5
  <2>6. CASE y /= c
    <3>1. SumOf(s \ {c}, f) = f[y] + SumOf((s \ {c}) \ {y}, f)
      BY <2>1, <2>3, <2>6
    <3>2. SumOf(s \ {y}, f) = f[c] + SumOf((s \ {y}) \ {c}, f)
      BY <2>1, <2>3, <2>6
    <3>3. (s \ {c}) \ {y} = (s \ {y}) \ {c} /\ (s \ {c}) \ {y} \in SUBSET S
      OBVIOUS
    <3>4. SumOf((s \ {c}) \ {y}, f) \in Int /\ f[y] \in Int /\ f[c] \in Int
      BY <1>0, <2>1, <3>3
    <3>5. SumOf((s \ {c}) \ {y}, f) = SumOf((s \ {y}) \ {c}, f)
      BY <3>3
    <3> HIDE DEF P
    <3> QED BY <2>4, <3>1, <3>2, <3>4, <3>5
  <2> QED BY <2>5, <2>6
<1>3. Cardinality(S) \in N
  BY <1>0, <1>1, <1>2, AllNumbers
<1> QED BY <1>3

LEMMA SumAdds ==
  ASSUME NEW S, IsFiniteSet(S), NEW x, x \notin S, NEW f, \A y \in S \cup {x} : f[y] \in Int
  PROVE  SumOf(S \cup {x}, f) = f[x] + SumOf(S, f)
<1>1. IsFiniteSet(S \cup {x}) /\ (S \cup {x}) \ {x} = S /\ x \in S \cup {x}
  BY FS_AddElement
<1> QED BY <1>1, SumRemoves

LEMMA SumOfZeros ==
  ASSUME NEW S, IsFiniteSet(S), NEW f, \A x \in S : f[x] = 0
  PROVE  SumOf(S, f) = 0
<1> DEFINE N == {n \in Nat : \A s \in SUBSET S : Cardinality(s) = n => SumOf(s, f) = 0}
<1>0. \A s \in SUBSET S : IsFiniteSet(s) /\ Cardinality(s) \in Nat
  BY FS_Subset, FS_CardinalityType
<1>1. 0 \in N
  <2>1. \A s \in SUBSET S : Cardinality(s) = 0 => s = {}
    BY <1>0, FS_EmptySet
  <2> QED BY <2>1, SumEmpty
<1>2. ASSUME NEW n \in Nat, n \in N PROVE n + 1 \in N
  <2> SUFFICES ASSUME NEW s \in SUBSET S, Cardinality(s) = n + 1 PROVE SumOf(s, f) = 0
    OBVIOUS
  <2> DEFINE c == Some(s)
  <2>1. c \in s /\ s /= {}
    BY FS_EmptySet DEF Some
  <2>2. s \ {c} \in SUBSET S /\ Cardinality(s \ {c}) = n
    BY <1>0, <2>1, OneLess
  <2>3. SumOf(s, f) = f[c] + SumOf(s \ {c}, f)
    BY <1>0, <2>1, SumOfSome
  <2> QED BY <1>2, <2>1, <2>2, <2>3
<1>3. Cardinality(S) \in N
  BY <1>0, <1>1, <1>2, AllNumbers
<1> QED BY <1>3

\* The terms g of a sum over S are among the terms f of a sum over T whose
\* other terms are 0.
LEMMA SumMapped ==
  ASSUME NEW S, IsFiniteSet(S), NEW T, IsFiniteSet(T), NEW g, NEW f, NEW h,
         \A x \in S : h[x] \in T /\ g[x] = f[h[x]],
         \A x, y \in S : h[x] = h[y] => x = y,
         \A y \in T : f[y] \in Int,
         \A y \in T : (\A x \in S : h[x] /= y) => f[y] = 0
  PROVE  SumOf(S, g) = SumOf(T, f)
<1> DEFINE image(s) == {h[x] : x \in s}
           N == {n \in Nat : \A s \in SUBSET S : Cardinality(s) = n =>
                                SumOf(s, g) = SumOf(T \ image(S \ s), f)}
<1>0. /\ \A s \in SUBSET S : IsFiniteSet(s) /\ Cardinality(s) \in Nat
      /\ \A t \in SUBSET T : IsFiniteSet(t)
  BY FS_Subset, FS_CardinalityType
<1>1. 0 \in N
  <2>1. \A s \in SUBSET S : Cardinality(s) = 0 => s = {}
    BY <1>0, FS_EmptySet
  <2>2. SumOf(T \ image(S \ {}), f) = 0
    <3>1. \A y \in T \ image(S \ {}) : f[y] = 0
      OBVIOUS
    <3>2. T \ image(S \ {}) \in SUBSET T
      OBVIOUS
    <3> HIDE DEF image
    <3> QED BY <1>0, <3>1, <3>2, SumOfZeros
  <2> HIDE DEF image
  <2> QED BY <2>1, <2>2, SumEmpty
<1>2. ASSUME NEW n \in Nat, n \in N PROVE n + 1 \in N
  <2> SUFFICES ASSUME NEW s \in SUBSET S, Cardinality(s) = n + 1
               PROVE SumOf(s, g) = SumOf(T \ image(S \ s), f)
    OBVIOUS
  <2>1. PICK c : c \in s
    BY FS_EmptySet
  <2>2. s \ {c} \in SUBSET S /\ Cardinality(s \ {c}) = n
    BY <1>0, <2>1, OneLess
  <2>3. SumOf(s \ {c}, g) = SumOf(T \ image(S \ (s \ {c})), f)
    BY <1>2, <2>2
  <2>4. SumOf(s, g) = g[c] + SumOf(s \ {c}, g)
    <3>1. \A x \in s : g[x] \in Int
      OBVIOUS
    <3> QED BY <1>0, <2>1, <3>1, SumRemoves
  <2>5. /\ h[c] \in T \ image(S \ s)
        /\ (T \ image(S \ s)) \ {h[c]} = T \ image(S \ (s \ {c}))
    <3>1. image(S \ (s \ {c})) = image(S \ s) \cup {h[c]}
      BY <2>1
    <3>2. h[c] \notin image(S \ s)
      BY <2>1
    <3> HIDE DEF image
    <3> QED BY <2>1, <3>1, <3>2
  <2>6. IsFiniteSet(T \ image(S \ s)) /\ \A y \in T \ image(S \ s) : f[y] \in Int
    BY <1>0
  <2> HIDE DEF image
  <2>7. SumOf(T \ image(S \ s), f) = f[h[c]] + SumOf(T \ image(S \ (s \ {c})), f)
    <3> DEFINE rest == T \ image(S \ s)
    <3>1. IsFiniteSet(rest) /\ (\A y \in rest : f[y] \in Int) /\ h[c] \in rest
      BY <2>5, <2>6
    <3> HIDE DEF rest
    <3>2. SumOf(rest, f) = f[h[c]] + SumOf(rest \ {h[c]}, f)
      BY <3>1, SumRemoves
    <3> QED BY <2>5, <3>2 DEF rest
  <2> QED BY <2>1, <2>3, <2>4, <2>7
<1>3. Cardinality(S) \in N
  BY <1>0, <1>1, <1>2, AllNumbers
<1>4. T \ image(S \ S) = T
  OBVIOUS
<1> HIDE DEF image
<1> QED BY <1>3, <1>4

-----------------------------------------------------------------------------
\* Sorting.

\* RowMajor lists the members of a set, each after those before it.
LEMMA RowMajorOrder ==
  ASSUME NEW S, IsFiniteSet(S), S \subseteq Int \X Int
  PROVE  /\ Cardinality(S) \in Nat
         /\ RowMajor(S) \in [1 .. Cardinality(S) -> S]
         /\ \A x \in S : \E i \in 1 .. Cardinality(S) : RowMajor(S)[i] = x
         /\ \A i, j \in 1 .. Cardinality(S) :
              i < j => RowMajorLessThan(RowMajor(S)[i], RowMajor(S)[j])
<1> DEFINE n == Cardinality(S)
           before(x) == {y \in S : RowMajorLessThan(y, x)}
           rank == [x \in S |-> Cardinality(before(x)) + 1]
<1>1. n \in Nat
  BY FS_CardinalityType
<1>2. \A x, y \in S : /\ ~RowMajorLessThan(x, x)
                      /\ x = y \/ RowMajorLessThan(x, y) \/ RowMajorLessThan(y, x)
                      /\ ~(RowMajorLessThan(x, y) /\ RowMajorLessThan(y, x))
                      /\ \A z \in S : RowMajorLessThan(x, y) /\ RowMajorLessThan(y, z)
                                      => RowMajorLessThan(x, z)
  BY DEF RowMajorLessThan
<1>3. ASSUME NEW x \in S PROVE /\ IsFiniteSet(before(x))
                               /\ rank[x] \in 1 .. n
                               /\ Cardinality(before(x)) \in Nat
  <2>1. before(x) \in SUBSET (S \ {x})
    BY <1>2
  <2>2. IsFiniteSet(S \ {x}) /\ Cardinality(S \ {x}) = n - 1
    BY OneLess
  <2>3. /\ IsFiniteSet(before(x)) /\ Cardinality(before(x)) <= n - 1
        /\ Cardinality(before(x)) \in Nat
    BY <2>1, <2>2, FS_Subset, FS_CardinalityType
  <2> HIDE DEF before, n
  <2> QED BY <1>1, <2>3
<1>4. ASSUME NEW x \in S, NEW y \in S, RowMajorLessThan(x, y) PROVE rank[x] < rank[y]
  <2>1. before(x) \in SUBSET (before(y) \ {x}) /\ x \in before(y)
    BY <1>2, <1>4
  <2>2. /\ IsFiniteSet(before(y) \ {x})
        /\ Cardinality(before(y) \ {x}) = Cardinality(before(y)) - 1
    BY <1>3, <2>1, OneLess
  <2>3. Cardinality(before(x)) <= Cardinality(before(y)) - 1
    BY <2>1, <2>2, FS_Subset
  <2>4. Cardinality(before(x)) \in Nat /\ Cardinality(before(y)) \in Nat
    BY <1>3
  <2> HIDE DEF before
  <2> QED BY <2>3, <2>4
<1>5. rank \in Injection(S, 1 .. n)
  <2>1. rank \in [S -> 1 .. n]
    BY <1>3
  <2>2. \A x, y \in S : rank[x] = rank[y] => x = y
    <3> SUFFICES ASSUME NEW x \in S, NEW y \in S, x /= y PROVE rank[x] /= rank[y]
      OBVIOUS
    <3>1. rank[x] < rank[y] \/ rank[y] < rank[x]
      BY <1>2, <1>4
    <3>2. rank[x] \in Int /\ rank[y] \in Int
      BY <2>1
    <3> HIDE DEF rank
    <3> QED BY <3>1, <3>2
  <2> HIDE DEF rank
  <2> QED BY <2>1, <2>2 DEF Injection, IsInjective
<1>6. rank \in Surjection(S, 1 .. n)
  <2>1. IsFiniteSet(1 .. n) /\ Cardinality(1 .. n) = n
    BY <1>1, FS_Interval
  <2> HIDE DEF rank, n
  <2> QED BY <1>5, <2>1, FS_Injection DEF n
<1>7. ASSUME NEW i \in 1 .. n PROVE RowMajor(S)[i] \in S /\ rank[RowMajor(S)[i]] = i
  <2>1. PICK x \in S : rank[x] = i
    BY <1>6 DEF Surjection
  <2>2. Cardinality(before(x)) = i - 1
    <3>1. Cardinality(before(x)) + 1 = i /\ Cardinality(before(x)) \in Nat
      BY <1>3, <2>1
    <3> HIDE DEF before
    <3> QED BY <3>1
  <2>3. RowMajor(S)[i] = CHOOSE y \in S : Cardinality(before(y)) = i - 1
    BY DEF RowMajor
  <2> DEFINE r == CHOOSE y \in S : Cardinality(before(y)) = i - 1
  <2>4. r \in S /\ Cardinality(before(r)) = i - 1
    BY <2>2
  <2> HIDE DEF before, r
  <2>5. rank[r] = i
    <3>1. rank[r] = Cardinality(before(r)) + 1
      BY <2>4
    <3>2. i - 1 + 1 = i
      OBVIOUS
    <3> HIDE DEF rank
    <3> QED BY <2>4, <3>1, <3>2
  <2> QED BY <2>3, <2>4, <2>5 DEF r
<1>8. RowMajor(S) \in [1 .. n -> S]
  <2> DEFINE c(i) == CHOOSE x \in S : Cardinality(before(x)) = i - 1
  <2>1. RowMajor(S) = [i \in 1 .. n |-> c(i)]
    BY DEF RowMajor
  <2> HIDE DEF n, c
  <2> QED BY <1>7, <2>1
<1>9. ASSUME NEW x \in S PROVE \E i \in 1 .. n : RowMajor(S)[i] = x
  <2>1. rank[x] \in 1 .. n
    BY <1>3
  <2>2. RowMajor(S)[rank[x]] \in S /\ rank[RowMajor(S)[rank[x]]] = rank[x]
    BY <1>7, <2>1
  <2>3. RowMajor(S)[rank[x]] = x
    <3> HIDE DEF rank
    <3> QED BY <1>5, <2>2 DEF Injection, IsInjective
  <2> QED BY <2>1, <2>3
<1>10. ASSUME NEW i \in 1 .. n, NEW j \in 1 .. n, i < j
       PROVE  RowMajorLessThan(RowMajor(S)[i], RowMajor(S)[j])
  <2> DEFINE x == RowMajor(S)[i]
             y == RowMajor(S)[j]
  <2>1. x \in S /\ y \in S /\ rank[x] = i /\ rank[y] = j
    BY <1>7
  <2> HIDE DEF x, y, rank
  <2>2. x /= y
    BY <1>10, <2>1
  <2>3. ~RowMajorLessThan(y, x)
    <3>1. ~(rank[y] < rank[x])
      BY <1>10, <2>1
    <3> QED BY <1>4, <2>1, <3>1
  <2>4. RowMajorLessThan(x, y)
    BY <1>2, <2>1, <2>2, <2>3
  <2> QED BY <2>4 DEF x, y
<1> QED BY <1>1, <1>8, <1>9, <1>10

\* A set of numbers with a bound has a greatest one.
LEMMA Greatest ==
  ASSUME NEW n \in Nat, NEW T, T \subseteq 0 .. n, T /= {}
  PROVE  Max(T) \in T /\ \A x \in T : x <= Max(T)
<1> DEFINE below == {n - x : x \in T}
<1>1. below \subseteq Nat /\ below /= {}
  <2>1. \A x \in T : n - x \in Nat
    OBVIOUS
  <2>2. \E x \in T : n - x \in below
    OBVIOUS
  <2> QED BY <2>1, <2>2
<1>2. PICK d \in below : \A e \in below : ~(<<e, d>> \in OpToRel(<, Nat))
  BY <1>1, NatLessThanWellFounded, WFMin
<1>3. PICK m \in T : d = n - m
  OBVIOUS
<1>4. ASSUME NEW x \in T PROVE x <= m
  <2>1. n - x \in below /\ n - x \in Nat /\ n - m \in Nat
    BY <1>1
  <2>2. ~(n - x < n - m)
    BY <1>2, <1>3, <2>1 DEF OpToRel
  <2> QED BY <2>2
<1> QED
  BY <1>4 DEF Max

-----------------------------------------------------------------------------
\* The accumulator.

\* What is in the accumulator after the first products.
AddsTo(f, spa, p, n) ==
  f = [s \in SUBSET (1 .. n) |->
        IF s = {} THEN spa ELSE AddTo(f[s \ {Max(s)}], p[Max(s)])]

LEMMA MaxOfInitial ==
  ASSUME NEW n \in Nat, NEW s \in SUBSET (1 .. n), n \in s
  PROVE  Max(s) = n
<1>1. s \subseteq 0 .. n /\ s /= {}
  OBVIOUS
<1>2. Max(s) \in s /\ n <= Max(s)
  BY <1>1, Greatest
<1>3. Max(s) \in 1 .. n
  BY <1>2
<1> QED BY <1>2, <1>3

LEMMA SomeAddsTo ==
  ASSUME NEW spa, NEW p, NEW n \in Nat
  PROVE  \E f : AddsTo(f, spa, p, n)
<1> DEFINE T == {m \in Nat : \E f : AddsTo(f, spa, p, m)}
<1>1. 0 \in T
  <2>1. SUBSET (1 .. 0) = {{}}
    OBVIOUS
  <2>2. AddsTo([s \in SUBSET (1 .. 0) |-> spa], spa, p, 0)
    BY <2>1 DEF AddsTo
  <2> QED BY <2>2
<1>2. ASSUME NEW m \in Nat, m \in T PROVE m + 1 \in T
  <2>1. PICK f : AddsTo(f, spa, p, m)
    BY <1>2
  <2> DEFINE g == [s \in SUBSET (1 .. m + 1) |->
                    IF m + 1 \in s THEN AddTo(f[s \ {m + 1}], p[m + 1]) ELSE f[s]]
             h(s) == IF s = {} THEN spa ELSE AddTo(g[s \ {Max(s)}], p[Max(s)])
  <2>2. ASSUME NEW s \in SUBSET (1 .. m + 1) PROVE g[s] = h(s)
    <3>1. CASE m + 1 \in s
      <4>1. Max(s) = m + 1
        BY <3>1, MaxOfInitial
      <4>2. s \ {m + 1} \in SUBSET (1 .. m + 1) /\ m + 1 \notin s \ {m + 1}
        OBVIOUS
      <4>3. g[s \ {m + 1}] = f[s \ {m + 1}]
        BY <4>2
      <4> QED BY <3>1, <4>1, <4>3
    <3>2. CASE m + 1 \notin s
      <4>1. s \in SUBSET (1 .. m) /\ g[s] = f[s]
        BY <3>2
      <4>2. f[s] = IF s = {} THEN spa ELSE AddTo(f[s \ {Max(s)}], p[Max(s)])
        BY <2>1, <4>1 DEF AddsTo
      <4>3. g[s \ {Max(s)}] = f[s \ {Max(s)}]
        BY <3>2
      <4> QED BY <4>1, <4>2, <4>3
    <3> QED BY <3>1, <3>2
  <2>3. AddsTo(g, spa, p, m + 1)
    BY <2>2 DEF AddsTo
  <2> QED BY <2>3
<1>3. Nat \subseteq T
  BY <1>1, <1>2, AllNumbers
<1> QED BY <1>3

\* The products are added from first to last.
LEMMA AddedOneByOne ==
  ASSUME NEW spa, NEW p, NEW n \in Nat, DOMAIN p = 1 .. n
  PROVE  \E after :
           /\ after[0] = spa
           /\ \A q \in 1 .. n : after[q] = AddTo(after[q - 1], p[q])
           /\ AddAll(spa, p) = after[n]
<1> DEFINE f == CHOOSE f : AddsTo(f, spa, p, n)
           after == [q \in 0 .. n |-> f[1 .. q]]
<1>1. AddAll(spa, p) = f[1 .. n]
  BY DEF AddAll, FoldLeft, MapThenFoldSet, AddsTo
<1>2. AddsTo(f, spa, p, n)
  BY SomeAddsTo
<1> HIDE DEF f
<1>3. after[0] = spa
  <2>1. 1 .. 0 = {} /\ {} \in SUBSET (1 .. n)
    OBVIOUS
  <2> QED BY <1>2, <2>1 DEF AddsTo
<1>4. ASSUME NEW q \in 1 .. n PROVE after[q] = AddTo(after[q - 1], p[q])
  <2> HIDE DEF after
  <2>0. q \in Nat /\ 1 <= q /\ q <= n /\ q \in 0 .. n /\ q - 1 \in 0 .. n
    OBVIOUS
  <2>1. /\ 1 .. q \in SUBSET (1 .. n) /\ 1 .. q /= {} /\ q \in 1 .. q
        /\ (1 .. q) \ {q} = 1 .. q - 1
    <3>1. \A z : z \in (1 .. q) \ {q} <=> z \in 1 .. q - 1
      BY <2>0
    <3>2. q \in 1 .. q /\ \A z \in 1 .. q : z \in 1 .. n
      BY <2>0
    <3> QED BY <3>1, <3>2
  <2>2. Max(1 .. q) = q
    BY <2>0, <2>1, MaxOfInitial
  <2>3. f[1 .. q] = AddTo(f[(1 .. q) \ {Max(1 .. q)}], p[Max(1 .. q)])
    BY <1>2, <2>1 DEF AddsTo
  <2>4. after[q] = f[1 .. q] /\ after[q - 1] = f[1 .. q - 1]
    BY <2>0 DEF after
  <2> QED BY <2>1, <2>2, <2>3, <2>4
<1>5. after[n] = f[1 .. n]
  OBVIOUS
<1> QED BY <1>1, <1>3, <1>4, <1>5

SPAType(n) ==
  [version : Nat, used : [0 .. n - 1 -> Nat], v : [0 .. n - 1 -> Int],
   nzs : Seq(0 .. n - 1)]

\* No column has been added to.
Clean(spa, n) ==
  spa \in SPAType(n) /\ spa.nzs = <<>> /\ \A k \in 0 .. n - 1 : spa.used[k] < spa.version

ProductType(n) == [k : 0 .. n - 1, x : Int]

\* Those of the first q products that belong to column k, and their values.
OfColumn(p, q, k) == {r \in 1 .. q : p[r].k = k}
ValuesOf(p) == [r \in DOMAIN p |-> p[r].x]

\* The accumulator after the first q products.
Accumulated(spa, p, n, q) ==
  /\ spa \in SPAType(n)
  /\ \A k \in 0 .. n - 1 :
       /\ spa.used[k] <= spa.version
       /\ spa.used[k] = spa.version <=> OfColumn(p, q, k) /= {}
       /\ spa.used[k] = spa.version => spa.v[k] = SumOf(OfColumn(p, q, k), ValuesOf(p))
       /\ spa.used[k] = spa.version <=> \E c \in 1 .. Len(spa.nzs) : spa.nzs[c] = k
  /\ \A c, d \in 1 .. Len(spa.nzs) : spa.nzs[c] = spa.nzs[d] => c = d

LEMMA ColumnGrows ==
  ASSUME NEW n \in Nat, NEW p \in Seq(ProductType(n)), NEW q \in 1 .. Len(p), NEW k
  PROVE  /\ IsFiniteSet(OfColumn(p, q - 1, k))
         /\ \A r \in OfColumn(p, q - 1, k) : ValuesOf(p)[r] \in Int
         /\ p[q].k /= k => OfColumn(p, q, k) = OfColumn(p, q - 1, k)
         /\ p[q].k = k =>
              /\ OfColumn(p, q, k) = OfColumn(p, q - 1, k) \cup {q}
              /\ q \notin OfColumn(p, q - 1, k)
              /\ SumOf(OfColumn(p, q, k), ValuesOf(p)) =
                   p[q].x + SumOf(OfColumn(p, q - 1, k), ValuesOf(p))
<1>0. Len(p) \in Nat /\ q \in Nat /\ q - 1 \in Nat /\ DOMAIN p = 1 .. Len(p)
  BY LenProperties
<1>1. ASSUME NEW r \in 1 .. Len(p)
      PROVE  p[r] \in ProductType(n) /\ ValuesOf(p)[r] = p[r].x /\ p[r].x \in Int
  <2>1. p[r] \in ProductType(n)
    BY ElementOfSeq
  <2> QED BY <1>0, <2>1 DEF ValuesOf, ProductType
<1>2. IsFiniteSet(OfColumn(p, q - 1, k))
  <2>1. OfColumn(p, q - 1, k) \in SUBSET (1 .. q - 1)
    BY DEF OfColumn
  <2>2. IsFiniteSet(1 .. q - 1)
    BY <1>0, FS_Interval
  <2> QED BY <2>1, <2>2, FS_Subset
<1>3. OfColumn(p, q - 1, k) \subseteq 1 .. Len(p)
  BY <1>0 DEF OfColumn
<1>4. 1 .. q = (1 .. q - 1) \cup {q} /\ q \notin 1 .. q - 1
  BY <1>0
<1>5. /\ p[q].k /= k => OfColumn(p, q, k) = OfColumn(p, q - 1, k)
      /\ p[q].k = k => OfColumn(p, q, k) = OfColumn(p, q - 1, k) \cup {q}
      /\ q \notin OfColumn(p, q - 1, k)
  BY <1>4 DEF OfColumn
<1>6. ASSUME p[q].k = k
      PROVE  SumOf(OfColumn(p, q, k), ValuesOf(p)) =
               p[q].x + SumOf(OfColumn(p, q - 1, k), ValuesOf(p))
  <2>1. \A r \in OfColumn(p, q - 1, k) \cup {q} : ValuesOf(p)[r] \in Int
    BY <1>1, <1>3
  <2>2. SumOf(OfColumn(p, q - 1, k) \cup {q}, ValuesOf(p)) =
          ValuesOf(p)[q] + SumOf(OfColumn(p, q - 1, k), ValuesOf(p))
    BY <1>2, <1>5, <2>1, SumAdds
  <2> QED BY <1>1, <1>5, <1>6, <2>2
<1> QED BY <1>1, <1>2, <1>3, <1>5, <1>6

\* What AddTo does to the entries of an accumulator.
LEMMA AddToEffect ==
  ASSUME NEW n \in Nat, NEW spa \in SPAType(n), NEW e \in ProductType(n)
  PROVE  /\ AddTo(spa, e) \in SPAType(n)
         /\ AddTo(spa, e).version = spa.version
         /\ \A k \in 0 .. n - 1 : k /= e.k =>
              AddTo(spa, e).used[k] = spa.used[k] /\ AddTo(spa, e).v[k] = spa.v[k]
         /\ AddTo(spa, e).used[e.k] = spa.version
         /\ spa.used[e.k] /= spa.version =>
              AddTo(spa, e).v[e.k] = e.x /\ AddTo(spa, e).nzs = Append(spa.nzs, e.k)
         /\ spa.used[e.k] = spa.version =>
              AddTo(spa, e).v[e.k] = spa.v[e.k] + e.x /\ AddTo(spa, e).nzs = spa.nzs
<1>0. e.k \in 0 .. n - 1 /\ e.x \in Int
  BY DEF ProductType
<1>1. CASE spa.used[e.k] /= spa.version
  <2>1. AddTo(spa, e) = [version |-> spa.version,
                         used |-> [spa.used EXCEPT ![e.k] = spa.version],
                         v |-> [spa.v EXCEPT ![e.k] = e.x],
                         nzs |-> Append(spa.nzs, e.k)]
    BY <1>1 DEF AddTo, SPAType
  <2>2. Append(spa.nzs, e.k) \in Seq(0 .. n - 1)
    BY <1>0, AppendProperties DEF SPAType
  <2> QED BY <1>0, <1>1, <2>1, <2>2 DEF SPAType
<1>2. CASE spa.used[e.k] = spa.version
  <2>1. AddTo(spa, e) = [version |-> spa.version, used |-> spa.used,
                         v |-> [spa.v EXCEPT ![e.k] = spa.v[e.k] + e.x],
                         nzs |-> spa.nzs]
    BY <1>2 DEF AddTo, SPAType
  <2>2. /\ spa.version \in Nat /\ spa.used \in [0 .. n - 1 -> Nat] /\ spa.nzs \in Seq(0 .. n - 1)
        /\ spa.v \in [0 .. n - 1 -> Int]
    BY DEF SPAType
  <2>3. [spa.v EXCEPT ![e.k] = spa.v[e.k] + e.x] \in [0 .. n - 1 -> Int]
    <3>1. spa.v[e.k] \in Int /\ e.x \in Int
      BY <1>0, <2>2
    <3> DEFINE sum == spa.v[e.k] + e.x
    <3>2. sum \in Int
      BY <3>1
    <3> HIDE DEF sum
    <3>3. [spa.v EXCEPT ![e.k] = sum] \in [0 .. n - 1 -> Int]
      BY <2>2, <3>2
    <3> QED BY <3>3 DEF sum
  <2>4. AddTo(spa, e) \in SPAType(n)
    BY <2>1, <2>2, <2>3 DEF SPAType
  <2> QED BY <1>0, <1>2, <2>1, <2>2, <2>4
<1> QED BY <1>1, <1>2

\* The numbers up to the next one.
LEMMA OneNumberMore ==
  ASSUME NEW l \in Nat
  PROVE  1 .. l + 1 = (1 .. l) \cup {l + 1}
  OBVIOUS

LEMMA ProductAccumulated ==
  ASSUME NEW n \in Nat, NEW p \in Seq(ProductType(n)), NEW q \in 1 .. Len(p),
         NEW spa, Accumulated(spa, p, n, q - 1)
  PROVE  Accumulated(AddTo(spa, p[q]), p, n, q)
<1> DEFINE e == p[q]
           next == AddTo(spa, e)
<1>a. ASSUME NEW k, p[q].k = k
      PROVE  OfColumn(p, q, k) = OfColumn(p, q - 1, k) \cup {q}
  <2>1. q - 1 \in Nat /\ (q - 1) + 1 = q
    BY LenProperties
  <2>2. 1 .. q = (1 .. q - 1) \cup {q}
    BY <2>1, OneNumberMore
  <2> HIDE DEF next, e
  <2> QED BY <1>a, <2>2, Zenon DEF OfColumn
<1>0. /\ e \in ProductType(n) /\ e.k \in 0 .. n - 1 /\ e.x \in Int
      /\ spa \in SPAType(n) /\ spa.nzs \in Seq(0 .. n - 1) /\ Len(spa.nzs) \in Nat
  <2>1. e \in ProductType(n)
    BY ElementOfSeq
  <2>2. spa \in SPAType(n)
    BY DEF Accumulated
  <2>3. spa.nzs \in Seq(0 .. n - 1)
    BY <2>2 DEF SPAType
  <2> HIDE DEF e
  <2> QED BY <2>1, <2>2, <2>3, LenProperties DEF ProductType
<1> HIDE DEF e, next
<1>1. /\ next \in SPAType(n) /\ next.version = spa.version
      /\ \A k \in 0 .. n - 1 : k /= e.k => next.used[k] = spa.used[k] /\ next.v[k] = spa.v[k]
      /\ next.used[e.k] = spa.version
  BY <1>0, AddToEffect DEF next
<1>2. CASE spa.used[e.k] = spa.version
  <2>1. next.v[e.k] = spa.v[e.k] + e.x /\ next.nzs = spa.nzs
    BY <1>0, <1>2, AddToEffect DEF next
  <2>2. \A c, d \in 1 .. Len(next.nzs) : next.nzs[c] = next.nzs[d] => c = d
    BY <2>1 DEF Accumulated
  <2>3. ASSUME NEW k \in 0 .. n - 1
        PROVE  /\ next.used[k] <= next.version
               /\ next.used[k] = next.version <=> OfColumn(p, q, k) /= {}
               /\ next.used[k] = next.version =>
                    next.v[k] = SumOf(OfColumn(p, q, k), ValuesOf(p))
               /\ next.used[k] = next.version <=> \E c \in 1 .. Len(next.nzs) : next.nzs[c] = k
    <3>1. CASE k /= e.k
      <4>1. OfColumn(p, q, k) = OfColumn(p, q - 1, k)
        BY <3>1, ColumnGrows DEF e
      <4> QED BY <1>1, <2>1, <3>1, <4>1 DEF Accumulated
    <3>2. CASE k = e.k
      <4>1. OfColumn(p, q, k) /= {}
        <5>1. p[q].k = k
          BY <3>2, Zenon DEF e
        <5>2. OfColumn(p, q, k) = OfColumn(p, q - 1, k) \cup {q}
          BY <5>1, <1>a, Zenon
        <5> QED BY <5>2
      <4>2. SumOf(OfColumn(p, q, k), ValuesOf(p)) =
              e.x + SumOf(OfColumn(p, q - 1, k), ValuesOf(p))
        BY <3>2, ColumnGrows DEF e
      <4>3. spa.v[k] = SumOf(OfColumn(p, q - 1, k), ValuesOf(p)) /\ spa.v[k] \in Int
        BY <1>0, <1>2, <3>2 DEF Accumulated, SPAType
      <4>4. \E c \in 1 .. Len(next.nzs) : next.nzs[c] = k
        BY <1>2, <2>1, <3>2 DEF Accumulated
      <4>5. next.used[k] = next.version /\ next.version \in Nat
        BY <1>1, <3>2 DEF SPAType
      <4>6. next.v[k] = spa.v[k] + e.x
        BY <2>1, <3>2
      <4>7. next.v[k] = SumOf(OfColumn(p, q, k), ValuesOf(p))
        BY <1>0, <4>2, <4>3, <4>6
      <4> QED BY <4>1, <4>4, <4>5, <4>7
    <3> QED BY <3>1, <3>2
  <2> QED BY <1>1, <2>2, <2>3 DEF Accumulated, e, next
<1>3. CASE spa.used[e.k] /= spa.version
  <2>1. next.v[e.k] = e.x /\ next.nzs = Append(spa.nzs, e.k)
    BY <1>0, <1>3, AddToEffect DEF next
  <2> DEFINE l == Len(spa.nzs)
  <2>2. /\ Len(next.nzs) = l + 1 /\ next.nzs[l + 1] = e.k
        /\ \A c \in 1 .. l : next.nzs[c] = spa.nzs[c] /\ next.nzs[c] /= e.k
    <3>1. \A c \in 1 .. l : spa.nzs[c] /= e.k
      <4>1. spa.used[e.k] = spa.version <=> \E c \in 1 .. l : spa.nzs[c] = e.k
        BY <1>0, Zenon DEF Accumulated
      <4> QED BY <1>3, <4>1, Zenon
    <3> QED BY <1>0, <2>1, <3>1, AppendProperties
  <2>3. l \in Nat /\ 1 .. l + 1 = (1 .. l) \cup {l + 1}
    BY <1>0, OneNumberMore, Zenon
  <2> HIDE DEF l
  <2>4. \A c, d \in 1 .. Len(next.nzs) : next.nzs[c] = next.nzs[d] => c = d
    <3>1. \A c, d \in 1 .. l : spa.nzs[c] = spa.nzs[d] => c = d
      BY DEF Accumulated, l
    <3> QED BY <2>2, <2>3, <3>1
  <2>5. ASSUME NEW k \in 0 .. n - 1
        PROVE  /\ next.used[k] <= next.version
               /\ next.used[k] = next.version <=> OfColumn(p, q, k) /= {}
               /\ next.used[k] = next.version =>
                    next.v[k] = SumOf(OfColumn(p, q, k), ValuesOf(p))
               /\ next.used[k] = next.version <=> \E c \in 1 .. Len(next.nzs) : next.nzs[c] = k
    <3>1. CASE k /= e.k
      <4>1. (\E c \in 1 .. Len(next.nzs) : next.nzs[c] = k) <=> \E c \in 1 .. l : spa.nzs[c] = k
        <5>1. \A c \in 1 .. Len(next.nzs) : next.nzs[c] = k => c \in 1 .. l /\ spa.nzs[c] = k
          BY <2>2, <2>3, <3>1
        <5>2. \A c \in 1 .. l : c \in 1 .. Len(next.nzs) /\ next.nzs[c] = spa.nzs[c]
          BY <2>2, <2>3
        <5> QED BY <5>1, <5>2
      <4>2. OfColumn(p, q, k) = OfColumn(p, q - 1, k)
        BY <3>1, ColumnGrows DEF e
      <4>3. /\ next.used[k] = spa.used[k] /\ next.v[k] = spa.v[k]
            /\ next.version = spa.version
        BY <1>1, <3>1
      <4>4. /\ spa.used[k] <= spa.version
            /\ spa.used[k] = spa.version <=> OfColumn(p, q - 1, k) /= {}
            /\ spa.used[k] = spa.version =>
                 spa.v[k] = SumOf(OfColumn(p, q - 1, k), ValuesOf(p))
            /\ spa.used[k] = spa.version <=> \E c \in 1 .. l : spa.nzs[c] = k
        BY DEF Accumulated, l
      <4> QED BY <4>1, <4>2, <4>3, <4>4
    <3>2. CASE k = e.k
      <4>1. OfColumn(p, q, k) /= {} /\ OfColumn(p, q - 1, k) = {}
        <5>1. p[q].k = k
          BY <3>2, Zenon DEF e
        <5>2. OfColumn(p, q, k) = OfColumn(p, q - 1, k) \cup {q}
          BY <5>1, <1>a, Zenon
        <5>3. OfColumn(p, q - 1, k) = {}
          BY <1>3, <3>2 DEF Accumulated
        <5> QED BY <5>2, <5>3
      <4>2. SumOf(OfColumn(p, q, k), ValuesOf(p)) = e.x + 0
        <5>1. SumOf(OfColumn(p, q, k), ValuesOf(p)) =
                e.x + SumOf(OfColumn(p, q - 1, k), ValuesOf(p))
          BY <3>2, ColumnGrows DEF e
        <5>2. SumOf(OfColumn(p, q - 1, k), ValuesOf(p)) = 0
          BY <4>1, SumEmpty
        <5> QED BY <5>1, <5>2
      <4>3. next.used[k] = next.version /\ next.version \in Nat
        BY <1>1, <3>2 DEF SPAType
      <4> QED BY <1>0, <2>1, <2>2, <2>3, <3>2, <4>1, <4>2, <4>3
    <3> QED BY <3>1, <3>2
  <2> QED BY <1>1, <2>4, <2>5 DEF Accumulated, e, next
<1> QED BY <1>2, <1>3

\* Adding the products of a row to a clean accumulator sums those of each column.
LEMMA AllAccumulated ==
  ASSUME NEW n \in Nat, NEW p \in Seq(ProductType(n)), NEW spa, Clean(spa, n)
  PROVE  Accumulated(AddAll(spa, p), p, n, Len(p))
<1>0. Len(p) \in Nat /\ DOMAIN p = 1 .. Len(p)
  BY LenProperties
<1>1. PICK after : /\ after[0] = spa
                   /\ \A q \in 1 .. Len(p) : after[q] = AddTo(after[q - 1], p[q])
                   /\ AddAll(spa, p) = after[Len(p)]
  <2>1. \E after : /\ after[0] = spa
                   /\ \A q \in 1 .. Len(p) : after[q] = AddTo(after[q - 1], p[q])
                   /\ AddAll(spa, p) = after[Len(p)]
    BY <1>0, AddedOneByOne, SMTT(30)
  <2> QED BY <2>1, Zenon
<1> DEFINE T == {q \in Nat : q <= Len(p) => Accumulated(after[q], p, n, q)}
<1>2. 0 \in T
  <2>1. \A k : OfColumn(p, 0, k) = {}
    BY DEF OfColumn
  <2>2. Len(spa.nzs) = 0 /\ 1 .. 0 = {}
    BY DEF Clean
  <2>3. ASSUME NEW k \in 0 .. n - 1
        PROVE  spa.used[k] <= spa.version /\ spa.used[k] /= spa.version
    <3>1. spa.used[k] < spa.version /\ spa.used[k] \in Nat /\ spa.version \in Nat
      BY DEF Clean, SPAType
    <3> QED BY <3>1
  <2>4. Accumulated(spa, p, n, 0)
    BY <2>1, <2>2, <2>3 DEF Accumulated, Clean
  <2> QED BY <1>1, <2>4
<1>3. ASSUME NEW q \in Nat, q \in T PROVE q + 1 \in T
  <2> SUFFICES ASSUME q + 1 <= Len(p) PROVE Accumulated(after[q + 1], p, n, q + 1)
    OBVIOUS
  <2>1. q + 1 \in 1 .. Len(p) /\ (q + 1) - 1 = q /\ q <= Len(p)
    BY <1>0
  <2>2. Accumulated(after[q], p, n, q) /\ after[q + 1] = AddTo(after[q], p[q + 1])
    BY <1>1, <1>3, <2>1
  <2> QED BY <2>1, <2>2, ProductAccumulated
<1>4. Len(p) \in T
  BY <1>0, <1>2, <1>3, AllNumbers
<1> QED BY <1>0, <1>1, <1>4

-----------------------------------------------------------------------------
\* Compressed matrices.

IsMatrix(M) ==
  /\ M.m \in Nat /\ M.n \in Nat
  /\ M.rp \in Seq(Nat) /\ M.ci \in Seq(Nat)
  /\ IsCompressed(M)

IntValues(M) == M.v \in Seq(Int)

LEMMA Ascends ==
  ASSUME NEW n \in Nat, NEW f, \A i \in 1 .. n + 1 : f[i] \in Int,
         \A i \in 1 .. n : f[i] <= f[i + 1],
         NEW i \in 1 .. n + 1, NEW j \in 1 .. n + 1, i <= j
  PROVE  f[i] <= f[j]
<1> DEFINE T == {d \in Nat : i + d <= n + 1 => f[i] <= f[i + d]}
<1>1. 0 \in T
  OBVIOUS
<1>2. ASSUME NEW d \in Nat, d \in T PROVE d + 1 \in T
  <2> SUFFICES ASSUME i + (d + 1) <= n + 1 PROVE f[i] <= f[i + (d + 1)]
    OBVIOUS
  <2>1. i + d \in 1 .. n /\ i + d <= n + 1 /\ i + (d + 1) = (i + d) + 1
    OBVIOUS
  <2>2. f[i] <= f[i + d] /\ f[i + d] <= f[(i + d) + 1]
    BY <1>2, <2>1
  <2>3. f[i] \in Int /\ f[i + d] \in Int /\ f[(i + d) + 1] \in Int
    BY <2>1
  <2> QED BY <2>1, <2>2, <2>3
<1>3. j - i \in Nat /\ i + (j - i) = j /\ j <= n + 1
  OBVIOUS
<1>4. j - i \in T
  BY <1>1, <1>2, <1>3, AllNumbers
<1> QED BY <1>3, <1>4

\* The slots of a row are in the arrays, one for each column it has.
LEMMA SlotsOfRow ==
  ASSUME NEW M, IsMatrix(M), NEW i \in 0 .. M.m - 1
  PROVE  /\ M.m \in Nat /\ M.n \in Nat /\ Len(M.ci) \in Nat /\ Len(M.ci) = Len(M.v)
         /\ Slots(M, i) \subseteq 1 .. Len(M.ci)
         /\ IsFiniteSet(Slots(M, i))
         /\ \A s \in Slots(M, i) : M.ci[s] \in 0 .. M.n - 1
         /\ \A s, u \in Slots(M, i) : M.ci[s] = M.ci[u] => s = u
<1>1. /\ M.m \in Nat /\ M.n \in Nat /\ Len(M.rp) = M.m + 1 /\ Len(M.ci) = M.rp[M.m + 1]
      /\ Len(M.v) = Len(M.ci) /\ M.rp[1] = 0
      /\ \A k \in 1 .. M.m : M.rp[k] <= M.rp[k + 1]
      /\ \A s, u \in Slots(M, i) : M.ci[s] \in 0 .. M.n - 1 /\ (M.ci[s] = M.ci[u] => s = u)
  BY DEF IsMatrix, IsCompressed
<1>2. \A k \in 1 .. M.m + 1 : M.rp[k] \in Nat
  BY <1>1, ElementOfSeq DEF IsMatrix
<1> DEFINE m == M.m
           f == M.rp
           begin == f[i + 1]
           end == f[i + 2]
<1>3. m \in Nat /\ i \in 0 .. m - 1
  BY <1>1
<1>4. /\ \A k \in 1 .. m + 1 : f[k] \in Nat
      /\ \A k \in 1 .. m : f[k] <= f[k + 1]
      /\ Len(M.ci) = f[m + 1] /\ Slots(M, i) = begin + 1 .. end
  BY <1>1, <1>2 DEF Slots
<1> HIDE DEF m, f
<1>5. i + 1 \in 1 .. m + 1 /\ i + 2 \in 1 .. m + 1 /\ m + 1 \in 1 .. m + 1 /\ i + 2 <= m + 1
  BY <1>3
<1>6. f[i + 2] <= f[m + 1]
  <2>1. \A k \in 1 .. m + 1 : f[k] \in Int
    BY <1>4
  <2>2. \A k \in 1 .. m : f[k] <= f[k + 1]
    BY <1>4
  <2> QED BY <1>3, <1>5, <2>1, <2>2, Ascends
<1>7. begin \in Nat /\ end \in Nat /\ end <= Len(M.ci) /\ Len(M.ci) \in Nat
  BY <1>4, <1>5, <1>6
<1> HIDE DEF begin, end
<1>8. Slots(M, i) \subseteq 1 .. Len(M.ci) /\ IsFiniteSet(Slots(M, i))
  <2>1. IsFiniteSet(begin + 1 .. end)
    BY <1>7, FS_Interval
  <2>2. begin + 1 .. end \subseteq 1 .. Len(M.ci)
    BY <1>7
  <2> QED BY <1>4, <2>1, <2>2
<1> QED BY <1>1, <1>7, <1>8

\* An entry of the matrix is the value in its slot, 0 without one.
LEMMA DenseAt ==
  ASSUME NEW M, IsMatrix(M), NEW i \in 0 .. M.m - 1, NEW k \in 0 .. M.n - 1
  PROVE  /\ \A s \in Slots(M, i) : M.ci[s] = k => Dense(M).at[<<i, k>>] = M.v[s] + 0
         /\ (\A s \in Slots(M, i) : M.ci[s] /= k) => Dense(M).at[<<i, k>>] = 0
<1> DEFINE S == {s \in Slots(M, i) : M.ci[s] = k}
<1>1. Dense(M).at[<<i, k>>] = SumOf(S, M.v)
  BY DEF Dense, Positions
<1>2. \A s, u \in Slots(M, i) : M.ci[s] = M.ci[u] => s = u
  BY SlotsOfRow
<1>3. ASSUME NEW s \in Slots(M, i), M.ci[s] = k PROVE SumOf(S, M.v) = M.v[s] + 0
  <2>1. S = {s}
    BY <1>2, <1>3
  <2> QED BY <2>1, SumOfOne
<1>4. ASSUME \A s \in Slots(M, i) : M.ci[s] /= k PROVE SumOf(S, M.v) = 0
  <2>1. S = {}
    BY <1>4
  <2> QED BY <2>1, SumEmpty
<1> HIDE DEF S
<1> QED BY <1>1, <1>3, <1>4

LEMMA DenseOfIntegers ==
  ASSUME NEW M, IsMatrix(M), IntValues(M), NEW i \in 0 .. M.m - 1, NEW k \in 0 .. M.n - 1
  PROVE  /\ Dense(M).at[<<i, k>>] \in Int
         /\ \A s \in Slots(M, i) : M.v[s] \in Int
         /\ \A s \in Slots(M, i) : M.ci[s] = k => Dense(M).at[<<i, k>>] = M.v[s]
<1>1. ASSUME NEW s \in Slots(M, i) PROVE M.v[s] \in Int
  <2>1. s \in 1 .. Len(M.v)
    BY SlotsOfRow
  <2> QED BY <2>1, ElementOfSeq DEF IntValues
<1> QED BY <1>1, DenseAt

-----------------------------------------------------------------------------
\* Rows of a product.

\* The pairs of slots whose nonzeros are multiplied for row i.
Pairs(A, B, i) == UNION {{s} \X Slots(B, A.ci[s]) : s \in Slots(A, i)}

LEMMA PairsListed ==
  ASSUME NEW A, IsMatrix(A), NEW B, IsMatrix(B), A.n = B.m, NEW i \in 0 .. A.m - 1
  PROVE  /\ IsFiniteSet(Pairs(A, B, i)) /\ Pairs(A, B, i) \subseteq Int \X Int
         /\ \A s, u : <<s, u>> \in Pairs(A, B, i) <=>
                        s \in Slots(A, i) /\ u \in Slots(B, A.ci[s])
<1> DEFINE all == Slots(A, i) \X (1 .. Len(B.ci))
<1>1. /\ \A s \in Slots(A, i) : A.ci[s] \in 0 .. B.m - 1
      /\ Slots(A, i) \subseteq Int /\ IsFiniteSet(Slots(A, i))
  BY SlotsOfRow
<1>2. \A s \in Slots(A, i) : Slots(B, A.ci[s]) \subseteq 1 .. Len(B.ci)
  BY <1>1, SlotsOfRow
<1>3. \A s, u : <<s, u>> \in Pairs(A, B, i) <=> s \in Slots(A, i) /\ u \in Slots(B, A.ci[s])
  BY DEF Pairs
<1>4. Pairs(A, B, i) \subseteq all
  <2>1. \A z \in Pairs(A, B, i) : \E s \in Slots(A, i) : z \in {s} \X Slots(B, A.ci[s])
    BY DEF Pairs
  <2> QED BY <1>2, <2>1
<1>5. IsFiniteSet(1 .. Len(B.ci)) /\ 1 .. Len(B.ci) \subseteq Int
  <2>1. Len(B.ci) \in Nat
    BY LenProperties DEF IsMatrix
  <2> QED BY <2>1, FS_Interval
<1>6. IsFiniteSet(all)
  BY <1>1, <1>5, FS_Product
<1>7. IsFiniteSet(Pairs(A, B, i))
  BY <1>4, <1>6, FS_Subset
<1>8. Pairs(A, B, i) \subseteq Int \X Int
  BY <1>1, <1>4
<1> QED BY <1>3, <1>7, <1>8

\* An entry of a product, with its terms.
TermOf(A, B, i, k) ==
  [j \in 0 .. A.n - 1 |-> Dense(A).at[<<i, j>>] * Dense(B).at[<<j, k>>]]

LEMMA TimesAt ==
  ASSUME NEW A, NEW B, NEW i \in 0 .. A.m - 1, NEW k \in 0 .. B.n - 1
  PROVE  Times(Dense(A), Dense(B)).at[<<i, k>>] = SumOf(0 .. A.n - 1, TermOf(A, B, i, k))
<1> DEFINE X == Dense(A)
           Y == Dense(B)
<1>1. X.m = A.m /\ X.n = A.n /\ Y.n = B.n
  BY DEF Dense
<1>2. TermOf(A, B, i, k) = [j \in 0 .. X.n - 1 |-> X.at[<<i, j>>] * Y.at[<<j, k>>]]
  BY <1>1 DEF TermOf
<1> HIDE DEF X, Y
<1>3. <<i, k>> \in Positions(X.m, Y.n) /\ <<i, k>>[1] = i /\ <<i, k>>[2] = k
  BY <1>1 DEF Positions
<1>4. Times(X, Y).at[<<i, k>>] =
        SumOf(0 .. X.n - 1, [j \in 0 .. X.n - 1 |-> X.at[<<i, j>>] * Y.at[<<j, k>>]])
  BY <1>3 DEF Times
<1> QED BY <1>1, <1>2, <1>4 DEF X, Y

LEMMA TermsOfIntegers ==
  ASSUME NEW A, IsMatrix(A), IntValues(A), NEW B, IsMatrix(B), IntValues(B), A.n = B.m,
         NEW i \in 0 .. A.m - 1, NEW k \in 0 .. B.n - 1, NEW j \in 0 .. A.n - 1
  PROVE  /\ TermOf(A, B, i, k)[j] \in Int
         /\ \A s \in Slots(A, i), u \in Slots(B, j) :
              A.ci[s] = j /\ B.ci[u] = k => TermOf(A, B, i, k)[j] = A.v[s] * B.v[u]
         /\ (\A s \in Slots(A, i), u \in Slots(B, j) : ~ (A.ci[s] = j /\ B.ci[u] = k)) =>
              TermOf(A, B, i, k)[j] = 0
<1> DEFINE a == Dense(A).at[<<i, j>>]
           b == Dense(B).at[<<j, k>>]
<1>1. TermOf(A, B, i, k)[j] = a * b
  BY DEF TermOf
<1>2. /\ a \in Int /\ \A s \in Slots(A, i) : A.ci[s] = j => a = A.v[s]
      /\ (\A s \in Slots(A, i) : A.ci[s] /= j) => a = 0
  BY DenseOfIntegers, DenseAt
<1>3. /\ b \in Int /\ \A u \in Slots(B, j) : B.ci[u] = k => b = B.v[u]
      /\ (\A u \in Slots(B, j) : B.ci[u] /= k) => b = 0
  BY DenseOfIntegers, DenseAt
<1> HIDE DEF a, b
<1>4. a * b \in Int /\ (a = 0 \/ b = 0 => a * b = 0)
  BY <1>2, <1>3
<1> QED BY <1>1, <1>2, <1>3, <1>4

LEMMA ProductsOfRow ==
  ASSUME NEW A, IsMatrix(A), IntValues(A), NEW B, IsMatrix(B), IntValues(B), A.n = B.m,
         NEW i \in 0 .. A.m - 1
  PROVE  /\ Products(A, B, i) \in Seq(ProductType(B.n))
         /\ \A k \in 0 .. B.n - 1 :
              SumOf(OfColumn(Products(A, B, i), Len(Products(A, B, i)), k),
                    ValuesOf(Products(A, B, i)))
                = Times(Dense(A), Dense(B)).at[<<i, k>>]
<1> DEFINE c == Cardinality(Pairs(A, B, i))
           order == RowMajor(Pairs(A, B, i))
           p == Products(A, B, i)
<1>1. /\ c \in Nat /\ order \in [1 .. c -> Pairs(A, B, i)]
      /\ \A x \in Pairs(A, B, i) : \E q \in 1 .. c : order[q] = x
      /\ \A q, r \in 1 .. c : q < r => RowMajorLessThan(order[q], order[r])
  BY PairsListed, RowMajorOrder
<1>2. p = [q \in 1 .. c |-> [k |-> B.ci[order[q][2]],
                             x |-> A.v[order[q][1]] * B.v[order[q][2]]]]
  BY <1>1 DEF Products, Pairs
<1> HIDE DEF c, order, p
<1>3. ASSUME NEW q \in 1 .. c
      PROVE  /\ order[q] = <<order[q][1], order[q][2]>>
             /\ order[q][1] \in Slots(A, i) /\ order[q][2] \in Slots(B, A.ci[order[q][1]])
             /\ order[q][1] \in Int /\ order[q][2] \in Int
  <2>1. order[q] \in Pairs(A, B, i) /\ Pairs(A, B, i) \subseteq Int \X Int
    BY <1>1, PairsListed
  <2>2. order[q] = <<order[q][1], order[q][2]>> /\ order[q][1] \in Int /\ order[q][2] \in Int
    BY <2>1
  <2>3. order[q][1] \in Slots(A, i) /\ order[q][2] \in Slots(B, A.ci[order[q][1]])
    BY <2>1, <2>2, PairsListed
  <2> QED BY <2>2, <2>3
<1>4. \A s \in Slots(A, i) : A.ci[s] \in 0 .. A.n - 1 /\ A.v[s] \in Int
  BY SlotsOfRow, DenseOfIntegers
<1>5. \A j \in 0 .. A.n - 1 : \A u \in Slots(B, j) : B.ci[u] \in 0 .. B.n - 1 /\ B.v[u] \in Int
  BY SlotsOfRow, DenseOfIntegers
<1>6. p \in [1 .. c -> ProductType(B.n)]
  <2>1. ASSUME NEW q \in 1 .. c
        PROVE  [k |-> B.ci[order[q][2]], x |-> A.v[order[q][1]] * B.v[order[q][2]]]
                 \in ProductType(B.n)
    <3> DEFINE x == A.v[order[q][1]]
               y == B.v[order[q][2]]
    <3>1. x \in Int /\ y \in Int /\ B.ci[order[q][2]] \in 0 .. B.n - 1
      BY <1>3, <1>4, <1>5
    <3> HIDE DEF x, y
    <3>2. x * y \in Int
      BY <3>1
    <3>3. [k |-> B.ci[order[q][2]], x |-> x * y] \in ProductType(B.n)
      BY <3>1, <3>2 DEF ProductType
    <3> QED BY <3>3 DEF x, y
  <2> QED BY <1>2, <2>1
<1>7. p \in Seq(ProductType(B.n)) /\ Len(p) = c /\ DOMAIN p = 1 .. c
  <2>1. p \in Seq(ProductType(B.n))
    BY <1>1, <1>6, IsASeq
  <2> QED BY <1>1, <1>6, <2>1, LenProperties
<1>8. ASSUME NEW k \in 0 .. B.n - 1
      PROVE  SumOf(OfColumn(p, c, k), ValuesOf(p)) = SumOf(0 .. A.n - 1, TermOf(A, B, i, k))
  <2> DEFINE S == OfColumn(p, c, k)
             T == 0 .. A.n - 1
             g == ValuesOf(p)
             f == TermOf(A, B, i, k)
             h == [r \in 1 .. c |-> A.ci[order[r][1]]]
  <2>1. IsFiniteSet(T) /\ IsFiniteSet(S)
    <3>1. S \subseteq 1 .. c /\ IsFiniteSet(1 .. c)
      BY <1>1, FS_Interval DEF OfColumn
    <3>2. A.n \in Nat
      BY DEF IsMatrix
    <3>3. IsFiniteSet(T)
      BY <3>2, FS_Interval
    <3> HIDE DEF S, T
    <3> QED BY <3>1, <3>3, FS_Subset
  <2>2. ASSUME NEW r \in S
        PROVE  /\ r \in 1 .. c /\ h[r] = A.ci[order[r][1]] /\ h[r] \in T
               /\ order[r][2] \in Slots(B, h[r]) /\ B.ci[order[r][2]] = k
    <3>1. r \in 1 .. c /\ p[r].k = k
      BY DEF OfColumn
    <3> QED BY <1>2, <1>3, <1>4, <3>1
  <2>3. ASSUME NEW r \in S PROVE h[r] \in T /\ g[r] = f[h[r]]
    <3>1. g[r] = A.v[order[r][1]] * B.v[order[r][2]]
      BY <1>2, <1>7, <2>2 DEF ValuesOf
    <3>2. /\ order[r][1] \in Slots(A, i) /\ order[r][2] \in Slots(B, h[r])
          /\ A.ci[order[r][1]] = h[r] /\ B.ci[order[r][2]] = k /\ h[r] \in T
      BY <1>3, <2>2
    <3> HIDE DEF h
    <3>3. f[h[r]] = A.v[order[r][1]] * B.v[order[r][2]]
      BY <3>2, TermsOfIntegers
    <3> QED BY <3>1, <3>2, <3>3
  <2>4. ASSUME NEW r \in S, NEW q \in S, h[r] = h[q] PROVE r = q
    <3>1. order[r][1] = order[q][1]
      BY <1>3, <2>2, <2>4, SlotsOfRow
    <3>2. order[r][2] = order[q][2]
      <4>1. /\ h[r] \in 0 .. B.m - 1
            /\ order[r][2] \in Slots(B, h[r]) /\ order[q][2] \in Slots(B, h[r])
            /\ B.ci[order[r][2]] = B.ci[order[q][2]]
        BY <2>2, <2>4
      <4> HIDE DEF h, S
      <4> QED BY <4>1, SlotsOfRow
    <3>3. order[r] = order[q] /\ r \in Int /\ q \in Int
      <4>1. r \in 1 .. c /\ q \in 1 .. c
        BY <2>2
      <4>2. /\ order[r] = <<order[r][1], order[r][2]>>
            /\ order[q] = <<order[q][1], order[q][2]>>
        BY <1>3, <4>1
      <4> HIDE DEF S
      <4> QED BY <1>1, <3>1, <3>2, <4>1, <4>2
    <3>4. ~ RowMajorLessThan(order[r], order[q]) /\ ~ RowMajorLessThan(order[q], order[r])
      <4>1. r \in 1 .. c /\ q \in 1 .. c
        BY <2>2
      <4>2. order[r][1] \in Int /\ order[r][2] \in Int
        BY <1>3, <4>1
      <4> HIDE DEF S
      <4> QED BY <3>3, <4>2 DEF RowMajorLessThan
    <3>5. ~ r < q /\ ~ q < r
      BY <1>1, <2>2, <3>4
    <3> QED BY <3>3, <3>5
  <2>5. \A j \in T : f[j] \in Int
    BY TermsOfIntegers
  <2>6. ASSUME NEW j \in T, \A r \in S : h[r] /= j PROVE f[j] = 0
    <3>1. ASSUME NEW s \in Slots(A, i), NEW u \in Slots(B, j), A.ci[s] = j, B.ci[u] = k
          PROVE  FALSE
      <4>1. <<s, u>> \in Pairs(A, B, i)
        BY <3>1, PairsListed
      <4>2. PICK q \in 1 .. c : order[q] = <<s, u>>
        BY <1>1, <4>1
      <4>3. q \in S /\ h[q] = j
        BY <1>2, <3>1, <4>2 DEF OfColumn
      <4> QED BY <2>6, <4>3
    <3> QED BY <3>1, TermsOfIntegers
  <2> HIDE DEF S, T, g, f, h
  <2>7. SumOf(S, g) = SumOf(T, f)
    BY <2>1, <2>3, <2>4, <2>5, <2>6, SumMapped
  <2> QED BY <2>7 DEF S, T, g, f
<1> QED BY <1>7, <1>8, TimesAt DEF p

\* row has the nonzeros of row i of X, perhaps with zeros, in some order.
IsRowOf(row, X, i) ==
  /\ row \in Seq(ProductType(X.n))
  /\ \A c, d \in 1 .. Len(row) : row[c].k = row[d].k => c = d
  /\ \A c \in 1 .. Len(row) : row[c].x = X.at[<<i, row[c].k>>]
  /\ \A k \in 0 .. X.n - 1 : X.at[<<i, k>>] /= 0 => \E c \in 1 .. Len(row) : row[c].k = k

\* The nonzeros in the accumulator are those of the row it has summed.
LEMMA NonzerosOfSums ==
  ASSUME NEW X, X.n \in Nat, NEW i, NEW p, NEW spa, Accumulated(spa, p, X.n, Len(p)),
         \A k \in 0 .. X.n - 1 :
           SumOf(OfColumn(p, Len(p), k), ValuesOf(p)) = X.at[<<i, k>>]
  PROVE  IsRowOf(Nonzeros(spa), X, i)
<1> DEFINE n == X.n
           nzs == spa.nzs
           l == Len(spa.nzs)
           S == {<<c, nzs[c]>> : c \in {d \in DOMAIN nzs : spa.v[nzs[d]] /= 0}}
           order == RowMajor(S)
           size == Cardinality(S)
           row == Nonzeros(spa)
<1>1. /\ n \in Nat /\ l \in Nat /\ DOMAIN nzs = 1 .. l /\ spa.v \in [0 .. n - 1 -> Int]
      /\ \A c \in 1 .. l : nzs[c] \in 0 .. n - 1
  <2>1. nzs \in Seq(0 .. n - 1) /\ spa.v \in [0 .. n - 1 -> Int]
    BY DEF Accumulated, SPAType
  <2> HIDE DEF n, nzs
  <2> QED BY <2>1, LenProperties, ElementOfSeq DEF n, nzs
<1>2. /\ \A k \in 0 .. n - 1 :
           (\E c \in 1 .. l : nzs[c] = k) => spa.v[k] = X.at[<<i, k>>]
      /\ \A k \in 0 .. n - 1 :
           (\A c \in 1 .. l : nzs[c] /= k) => X.at[<<i, k>>] = 0
      /\ \A c, d \in 1 .. l : nzs[c] = nzs[d] => c = d
  BY SumEmpty DEF Accumulated
<1> HIDE DEF n, nzs, l
<1>3. /\ \A c \in 1 .. l : spa.v[nzs[c]] /= 0 => <<c, nzs[c]>> \in S
      /\ \A z \in S : \E c \in 1 .. l : z = <<c, nzs[c]>> /\ spa.v[nzs[c]] /= 0
  BY <1>1
<1>4. IsFiniteSet(S) /\ S \subseteq Int \X Int
  <2>1. S \subseteq (1 .. l) \X (0 .. n - 1)
    BY <1>1, <1>3
  <2>2. IsFiniteSet((1 .. l) \X (0 .. n - 1))
    <3>1. IsFiniteSet(1 .. l) /\ IsFiniteSet(0 .. n - 1)
      BY <1>1, FS_Interval
    <3> QED BY <3>1, FS_Product
  <2> HIDE DEF S
  <2> QED BY <1>1, <2>1, <2>2, FS_Subset
<1>5. /\ size \in Nat /\ order \in [1 .. size -> S]
      /\ \A x \in S : \E c \in 1 .. size : order[c] = x
      /\ \A c, d \in 1 .. size : c < d => RowMajorLessThan(order[c], order[d])
  BY <1>4, RowMajorOrder
<1>6. row = [c \in 1 .. size |-> [k |-> order[c][2], x |-> spa.v[order[c][2]]]]
  BY <1>5 DEF Nonzeros, nzs
<1> HIDE DEF S, order, size, row
<1>7. ASSUME NEW c \in 1 .. size
      PROVE  /\ row[c].k \in 0 .. n - 1 /\ row[c] = [k |-> row[c].k, x |-> spa.v[row[c].k]]
             /\ order[c][1] \in 1 .. l /\ nzs[order[c][1]] = row[c].k
             /\ order[c] = <<order[c][1], row[c].k>>
             /\ order[c][1] \in Int /\ row[c].k \in Int
  <2>1. order[c] \in S
    BY <1>5
  <2>2. PICK d \in 1 .. l : order[c] = <<d, nzs[d]>> /\ spa.v[nzs[d]] /= 0
    BY <1>3, <2>1
  <2> QED BY <1>1, <1>6, <2>2
<1>8. row \in Seq(ProductType(n)) /\ Len(row) = size
  <2>1. ASSUME NEW c \in 1 .. size PROVE row[c] \in ProductType(n)
    <3> DEFINE k == row[c].k
    <3>1. k \in 0 .. n - 1 /\ row[c] = [k |-> k, x |-> spa.v[k]]
      BY <1>7
    <3> HIDE DEF k
    <3>2. spa.v[k] \in Int
      BY <1>1, <3>1
    <3> QED BY <3>1, <3>2 DEF ProductType
  <2>2. row \in [1 .. size -> ProductType(n)]
    BY <1>6, <2>1
  <2>3. row \in Seq(ProductType(n))
    BY <1>5, <2>2, IsASeq
  <2> QED BY <1>5, <2>2, <2>3, LenProperties
<1>9. ASSUME NEW c \in 1 .. size, NEW d \in 1 .. size, row[c].k = row[d].k PROVE c = d
  <2>1. order[c][1] = order[d][1]
    <3>1. order[c][1] \in 1 .. l /\ nzs[order[c][1]] = row[c].k
      BY <1>7
    <3>2. order[d][1] \in 1 .. l /\ nzs[order[d][1]] = row[d].k
      BY <1>7
    <3> QED BY <1>2, <1>9, <3>1, <3>2
  <2>2. /\ order[c] = <<order[c][1], row[c].k>> /\ order[d] = <<order[d][1], row[d].k>>
        /\ order[c][1] \in Int /\ row[c].k \in Int
    BY <1>7
  <2>3. ~ RowMajorLessThan(order[c], order[d]) /\ ~ RowMajorLessThan(order[d], order[c])
    <3>1. order[c] = order[d]
      BY <1>9, <2>1, <2>2
    <3>2. order[c][1] \in Int /\ order[c][2] \in Int
      BY <2>2
    <3> QED BY <3>1, <3>2 DEF RowMajorLessThan
  <2> QED BY <1>5, <2>3
<1>10. ASSUME NEW c \in 1 .. size PROVE row[c].x = X.at[<<i, row[c].k>>]
  <2> DEFINE k == row[c].k
  <2>1. /\ k \in 0 .. n - 1 /\ row[c] = [k |-> k, x |-> spa.v[k]]
        /\ order[c][1] \in 1 .. l /\ nzs[order[c][1]] = k
    BY <1>7
  <2> HIDE DEF k
  <2>2. spa.v[k] = X.at[<<i, k>>]
    BY <1>2, <2>1
  <2>3. row[c].x = spa.v[k]
    BY <2>1
  <2> QED BY <2>2, <2>3 DEF k
<1>11. ASSUME NEW k \in 0 .. n - 1, X.at[<<i, k>>] /= 0
       PROVE  \E c \in 1 .. size : row[c].k = k
  <2>1. PICK d \in 1 .. l : nzs[d] = k
    BY <1>2, <1>11
  <2>2. <<d, k>> \in S
    BY <1>2, <1>3, <1>11, <2>1
  <2>3. PICK c \in 1 .. size : order[c] = <<d, k>>
    BY <1>5, <2>2
  <2> QED BY <1>6, <2>3
<1> QED BY <1>8, <1>9, <1>10, <1>11 DEF IsRowOf, n, row

\* A row computed with a clean accumulator, which is left clean again.
LEMMA RowComputed ==
  ASSUME NEW A, IsMatrix(A), IntValues(A), NEW B, IsMatrix(B), IntValues(B), A.n = B.m,
         NEW i \in 0 .. A.m - 1, NEW spa, Clean(spa, B.n)
  PROVE  /\ IsRowOf(Nonzeros(AddAll(spa, Products(A, B, i))),
                    Times(Dense(A), Dense(B)), i)
         /\ Clean(Clear(AddAll(spa, Products(A, B, i))), B.n)
<1> DEFINE p == Products(A, B, i)
           X == Times(Dense(A), Dense(B))
           sums == AddAll(spa, p)
<1>1. X.n = B.n /\ B.n \in Nat
  BY DEF Times, Dense, IsMatrix
<1>2. p \in Seq(ProductType(B.n))
  BY ProductsOfRow
<1>3. \A k \in 0 .. B.n - 1 :
        SumOf(OfColumn(p, Len(p), k), ValuesOf(p)) = X.at[<<i, k>>]
  BY ProductsOfRow
<1> HIDE DEF p, X
<1>4. Accumulated(sums, p, B.n, Len(p))
  BY <1>1, <1>2, AllAccumulated
<1> HIDE DEF sums
<1>5. IsRowOf(Nonzeros(sums), X, i)
  BY <1>1, <1>3, <1>4, NonzerosOfSums
<1>6. Clean(Clear(sums), B.n)
  <2>1. sums \in SPAType(B.n) /\ \A k \in 0 .. B.n - 1 : sums.used[k] <= sums.version
    BY <1>4 DEF Accumulated
  <2>2. Clear(sums) = [version |-> sums.version + 1, used |-> sums.used, v |-> sums.v,
                       nzs |-> <<>>]
    <3> DEFINE next == sums.version + 1
    <3>1. Clear(sums) = [sums EXCEPT !.nzs = <<>>, !.version = next]
      BY DEF Clear
    <3> HIDE DEF next
    <3>2. Clear(sums) = [version |-> next, used |-> sums.used, v |-> sums.v, nzs |-> <<>>]
      BY <2>1, <3>1 DEF SPAType
    <3> QED BY <3>2 DEF next
  <2>3. sums.version \in Nat /\ sums.used \in [0 .. B.n - 1 -> Nat]
    BY <2>1 DEF SPAType
  <2>4. Clear(sums) \in SPAType(B.n)
    BY <2>1, <2>2, <2>3, EmptySeq DEF SPAType
  <2>5. ASSUME NEW k \in 0 .. B.n - 1 PROVE sums.used[k] < sums.version + 1
    <3>1. sums.used[k] \in Nat /\ sums.used[k] <= sums.version
      BY <2>1, <2>3
    <3> QED BY <2>3, <3>1
  <2> QED BY <2>2, <2>4, <2>5 DEF Clean
<1> QED BY <1>5, <1>6 DEF p, X, sums

LEMMA NewSPAClean ==
  ASSUME NEW n \in Nat, NEW garbage \in Int
  PROVE  Clean(NewSPA(n, garbage), n)
BY EmptySeq DEF Clean, NewSPA, SPAType

LEMMA TimesOfIntegers ==
  ASSUME NEW A, IsMatrix(A), IntValues(A), NEW B, IsMatrix(B), IntValues(B), A.n = B.m
  PROVE  LET X == Times(Dense(A), Dense(B))
         IN  /\ X = [m |-> A.m, n |-> B.n, at |-> X.at]
             /\ X.at \in [Positions(A.m, B.n) -> Int]
<1> DEFINE X == Times(Dense(A), Dense(B))
<1>1. /\ X = [m |-> A.m, n |-> B.n, at |-> X.at]
      /\ X.at = [p \in Positions(A.m, B.n) |-> X.at[p]]
  BY DEF Times, Dense
<1> HIDE DEF X
<1>2. ASSUME NEW p \in Positions(A.m, B.n) PROVE X.at[p] \in Int
  <2>1. PICK i \in 0 .. A.m - 1, k \in 0 .. B.n - 1 : p = <<i, k>>
    BY DEF Positions
  <2>2. X.at[p] = SumOf(0 .. A.n - 1, TermOf(A, B, i, k))
    BY <2>1, TimesAt DEF X
  <2>3. \A j \in 0 .. A.n - 1 : TermOf(A, B, i, k)[j] \in Int
    BY TermsOfIntegers
  <2>4. IsFiniteSet(0 .. A.n - 1)
    <3>1. A.n \in Nat
      BY DEF IsMatrix
    <3> QED BY <3>1, FS_Interval
  <2> QED BY <2>2, <2>3, <2>4, SumInteger
<1> QED BY <1>1, <1>2 DEF X

-----------------------------------------------------------------------------
\* Rows laid out in the arrays of a matrix.

IsListOfRows(rows) ==
  /\ Len(rows) \in Nat /\ DOMAIN rows = 1 .. Len(rows)
  /\ \A r \in 1 .. Len(rows) : Len(rows[r]) \in Nat

LEMMA PointersAscend ==
  ASSUME NEW rows, IsListOfRows(rows)
  PROVE  /\ DOMAIN RowPointers(rows) = 1 .. Len(rows) + 1
         /\ RowPointers(rows)[1] = 0
         /\ \A r \in 1 .. Len(rows) + 1 : RowPointers(rows)[r] \in Nat
         /\ \A r \in 1 .. Len(rows) :
              RowPointers(rows)[r + 1] = RowPointers(rows)[r] + Len(rows[r])
<1> DEFINE n == Len(rows)
           rp == RowPointers(rows)
           f == [r \in DOMAIN rows |-> Len(rows[r])]
<1>1. n \in Nat /\ \A r \in 1 .. n : f[r] \in Nat /\ f[r] = Len(rows[r])
  BY DEF IsListOfRows
<1>2. rp = [i \in 1 .. n + 1 |-> SumOf(1 .. i - 1, f)]
  BY DEF RowPointers
<1> HIDE DEF n, rp, f
<1>3. rp[1] = 0
  <2>1. 1 \in 1 .. n + 1 /\ 1 .. 1 - 1 = {}
    BY <1>1
  <2> QED BY <1>2, <2>1, SumEmpty
<1>4. ASSUME NEW r \in 1 .. n, rp[r] \in Nat
      PROVE  rp[r + 1] = rp[r] + f[r] /\ rp[r + 1] \in Nat
  <2>1. /\ r \in 1 .. n + 1 /\ r + 1 \in 1 .. n + 1 /\ (r + 1) - 1 = r
        /\ 1 .. r = (1 .. r - 1) \cup {r} /\ r \notin 1 .. r - 1 /\ r - 1 \in Nat
    BY <1>1
  <2>2. rp[r] = SumOf(1 .. r - 1, f) /\ rp[r + 1] = SumOf(1 .. r, f)
    BY <1>2, <2>1
  <2>3. \A q \in (1 .. r - 1) \cup {r} : f[q] \in Int
    BY <1>1, <2>1
  <2>4. IsFiniteSet(1 .. r - 1)
    BY <2>1, FS_Interval
  <2>5. SumOf((1 .. r - 1) \cup {r}, f) = f[r] + SumOf(1 .. r - 1, f)
    BY <2>1, <2>3, <2>4, SumAdds
  <2>6. rp[r + 1] = f[r] + rp[r] /\ f[r] \in Nat
    BY <1>1, <2>1, <2>2, <2>5
  <2> QED BY <1>4, <2>6
<1> DEFINE T == {d \in Nat : d <= n => rp[d + 1] \in Nat}
<1>5. 0 \in T
  BY <1>3
<1>6. ASSUME NEW d \in Nat, d \in T PROVE d + 1 \in T
  BY <1>1, <1>4, <1>6
<1>7. Nat \subseteq T
  BY <1>5, <1>6, AllNumbers
<1>8. ASSUME NEW r \in 1 .. n + 1 PROVE rp[r] \in Nat
  <2>1. r - 1 \in Nat /\ r - 1 <= n /\ (r - 1) + 1 = r
    BY <1>1
  <2> QED BY <1>7, <2>1
<1>9. \A r \in 1 .. n : rp[r + 1] = rp[r] + Len(rows[r])
  <2> TAKE r \in 1 .. n
  <2>1. r \in 1 .. n + 1
    BY <1>1
  <2> QED BY <1>1, <1>4, <1>8, <2>1
<1>10. DOMAIN rp = 1 .. n + 1
  BY <1>2
<1> QED BY <1>3, <1>8, <1>9, <1>10 DEF n, rp

\* Ascending from 0, the pieces f[r] + 1 .. f[r + 1] part the numbers up to f[n + 1].
LEMMA PieceAt ==
  ASSUME NEW n \in Nat, NEW rp, rp[1] = 0, \A r \in 1 .. n + 1 : rp[r] \in Nat,
         \A r \in 1 .. n : rp[r] <= rp[r + 1], NEW s \in 1 .. rp[n + 1]
  PROVE  /\ \E r \in 1 .. n : rp[r] < s /\ s <= rp[r + 1]
         /\ \A q, r \in 1 .. n :
              rp[q] < s /\ s <= rp[q + 1] /\ rp[r] < s /\ s <= rp[r + 1] => q = r
<1>1. /\ n \in Nat /\ rp[1] = 0 /\ \A r \in 1 .. n + 1 : rp[r] \in Nat
      /\ \A r \in 1 .. n : rp[r] <= rp[r + 1]
  OBVIOUS
<1>2. s \in Nat /\ 1 <= s /\ s <= rp[n + 1]
  <2>1. rp[n + 1] \in Nat
    BY <1>1
  <2> QED BY <2>1
<1> DEFINE T == {d \in Nat : d <= n /\ s <= rp[d + 1] =>
                               \E r \in 1 .. n : rp[r] < s /\ s <= rp[r + 1]}
<1>3. 0 \in T
  BY <1>1, <1>2
<1>4. ASSUME NEW d \in Nat, d \in T PROVE d + 1 \in T
  <2> SUFFICES ASSUME d + 1 <= n, s <= rp[(d + 1) + 1]
               PROVE  \E r \in 1 .. n : rp[r] < s /\ s <= rp[r + 1]
    OBVIOUS
  <2>1. d + 1 \in 1 .. n /\ d + 1 \in 1 .. n + 1 /\ d <= n
    BY <1>1
  <2>2. rp[d + 1] \in Nat
    BY <1>1, <2>1
  <2>3. CASE s <= rp[d + 1]
    BY <1>4, <2>1, <2>3
  <2>4. CASE rp[d + 1] < s
    BY <2>1, <2>4
  <2> QED BY <1>2, <2>2, <2>3, <2>4
<1>5. n \in T
  BY <1>1, <1>3, <1>4, AllNumbers
<1>6. \E r \in 1 .. n : rp[r] < s /\ s <= rp[r + 1]
  BY <1>1, <1>2, <1>5
<1>7. ASSUME NEW q \in 1 .. n, NEW r \in 1 .. n, q < r, s <= rp[q + 1], rp[r] < s PROVE FALSE
  <2>1. q + 1 \in 1 .. n + 1 /\ r \in 1 .. n + 1 /\ q + 1 <= r
    BY <1>1, <1>7
  <2>2. \A k \in 1 .. n + 1 : rp[k] \in Int
    BY <1>1
  <2>3. \A k \in 1 .. n : rp[k] <= rp[k + 1]
    BY <1>1
  <2>4. rp[q + 1] <= rp[r]
    BY <1>1, <2>1, <2>2, <2>3, Ascends
  <2>5. rp[q + 1] \in Int /\ rp[r] \in Int
    BY <2>1, <2>2
  <2> QED BY <1>2, <1>7, <2>4, <2>5
<1>8. ASSUME NEW q \in 1 .. n, NEW r \in 1 .. n,
             rp[q] < s, s <= rp[q + 1], rp[r] < s, s <= rp[r + 1]
      PROVE  q = r
  <2>1. ~ q < r /\ ~ r < q
    BY <1>7, <1>8
  <2> QED BY <1>1, <2>1
<1> QED BY <1>6, <1>8

\* Every slot is in one row.
LEMMA RowAt ==
  ASSUME NEW rows, IsListOfRows(rows), NEW s \in 1 .. RowPointers(rows)[Len(rows) + 1]
  PROVE  /\ \E r \in 1 .. Len(rows) : RowPointers(rows)[r] < s /\ s <= RowPointers(rows)[r + 1]
         /\ \A q, r \in 1 .. Len(rows) :
              /\ RowPointers(rows)[q] < s /\ s <= RowPointers(rows)[q + 1]
              /\ RowPointers(rows)[r] < s /\ s <= RowPointers(rows)[r + 1]
              => q = r
<1> DEFINE n == Len(rows)
           rp == RowPointers(rows)
<1>1. n \in Nat /\ rp[1] = 0 /\ \A r \in 1 .. n + 1 : rp[r] \in Nat
  BY PointersAscend DEF IsListOfRows
<1>2. \A r \in 1 .. n : Len(rows[r]) \in Nat /\ rp[r + 1] = rp[r] + Len(rows[r])
  BY PointersAscend DEF IsListOfRows
<1>3. s \in 1 .. rp[n + 1]
  OBVIOUS
<1> HIDE DEF n, rp
<1>4. ASSUME NEW r \in 1 .. n PROVE rp[r] <= rp[r + 1]
  <2>1. rp[r] \in Nat
    BY <1>1
  <2> QED BY <1>2, <2>1
<1>5. /\ \E r \in 1 .. n : rp[r] < s /\ s <= rp[r + 1]
      /\ \A q, r \in 1 .. n :
           rp[q] < s /\ s <= rp[q + 1] /\ rp[r] < s /\ s <= rp[r + 1] => q = r
  BY <1>1, <1>3, <1>4, PieceAt
<1> QED BY <1>5 DEF n, rp

\* M has the row pointers of rows and, in the rows from first on, their nonzeros.
HoldsRows(M, rows, first) ==
  LET rp   == RowPointers(rows)
      size == rp[Len(rows) + 1]
  IN  /\ M.m = Len(rows) /\ M.rp = rp
      /\ M.ci = [s \in 1 .. size |-> M.ci[s]] /\ M.v = [s \in 1 .. size |-> M.v[s]]
      /\ \A r \in first .. Len(rows) : \A c \in 1 .. Len(rows[r]) :
           M.ci[rp[r] + c] = rows[r][c].k /\ M.v[rp[r] + c] = rows[r][c].x

\* rows are the rows of the matrix X.
AreRowsOf(rows, X) ==
  /\ rows \in Seq(Seq(ProductType(X.n)))
  /\ Len(rows) = X.m
  /\ \A r \in 1 .. X.m : IsRowOf(rows[r], X, r - 1)

LEMMA RowsListed ==
  ASSUME NEW n, NEW rows \in Seq(Seq(ProductType(n)))
  PROVE  /\ IsListOfRows(rows)
         /\ \A r \in 1 .. Len(rows) : rows[r] \in Seq(ProductType(n))
         /\ \A r \in 1 .. Len(rows) : \A c \in 1 .. Len(rows[r]) :
              rows[r][c].k \in 0 .. n - 1 /\ rows[r][c].x \in Int
<1>1. Len(rows) \in Nat /\ DOMAIN rows = 1 .. Len(rows)
  BY LenProperties
<1>2. ASSUME NEW r \in 1 .. Len(rows) PROVE rows[r] \in Seq(ProductType(n))
  BY ElementOfSeq
<1>3. ASSUME NEW r \in 1 .. Len(rows) PROVE Len(rows[r]) \in Nat
  BY <1>2, LenProperties
<1>4. ASSUME NEW r \in 1 .. Len(rows), NEW c \in 1 .. Len(rows[r])
      PROVE  rows[r][c].k \in 0 .. n - 1 /\ rows[r][c].x \in Int
  <2>1. rows[r][c] \in ProductType(n)
    BY <1>2, ElementOfSeq
  <2> QED BY <2>1 DEF ProductType
<1> QED BY <1>1, <1>2, <1>3, <1>4 DEF IsListOfRows

LEMMA FromRowsHoldsRows ==
  ASSUME NEW n, NEW rows \in Seq(Seq(ProductType(n)))
  PROVE  HoldsRows(FromRows(rows, n), rows, 1) /\ FromRows(rows, n).n = n
<1> DEFINE rp == RowPointers(rows)
           M == FromRows(rows, n)
           size == rp[Len(rp)]
           l == Len(rows)
           row(s) == CHOOSE r \in DOMAIN rows : rp[r] < s /\ s <= rp[r + 1]
<1>1. /\ l \in Nat /\ DOMAIN rp = 1 .. l + 1 /\ Len(rp) = l + 1 /\ DOMAIN rows = 1 .. l
      /\ \A r \in 1 .. l : Len(rows[r]) \in Nat
      /\ \A r \in 1 .. l + 1 : rp[r] \in Nat
      /\ \A r \in 1 .. l : rp[r + 1] = rp[r] + Len(rows[r])
  <2>1. l \in Nat /\ DOMAIN rows = 1 .. l /\ \A r \in 1 .. l : Len(rows[r]) \in Nat
    BY RowsListed DEF IsListOfRows
  <2>2. DOMAIN rp = 1 .. l + 1 /\ \A r \in 1 .. l + 1 : rp[r] \in Nat
    BY PointersAscend, RowsListed
  <2>3. \A r \in 1 .. l : rp[r + 1] = rp[r] + Len(rows[r])
    BY PointersAscend, RowsListed
  <2>4. rp \in Seq(Nat)
    <3>1. rp \in [1 .. l + 1 -> Nat]
      BY <2>2 DEF RowPointers
    <3> HIDE DEF rp, l
    <3> QED BY <2>1, <3>1, IsASeq
  <2>5. Len(rp) = l + 1
    <3> HIDE DEF rp, l
    <3> QED BY <2>1, <2>2, <2>4, LenProperties
  <2> HIDE DEF rp, l
  <2> QED BY <2>1, <2>2, <2>3, <2>5
<1>2. /\ M.m = l /\ M.n = n /\ M.rp = rp
      /\ M.ci = [s \in 1 .. size |-> M.ci[s]] /\ M.v = [s \in 1 .. size |-> M.v[s]]
      /\ \A s \in 1 .. size : M.ci[s] = rows[row(s)][s - rp[row(s)]].k
                           /\ M.v[s] = rows[row(s)][s - rp[row(s)]].x
  BY DEF FromRows
<1>3. ASSUME NEW r \in 1 .. l, NEW c \in 1 .. Len(rows[r])
      PROVE  M.ci[rp[r] + c] = rows[r][c].k /\ M.v[rp[r] + c] = rows[r][c].x
  <2> DEFINE s == rp[r] + c
  <2>1. /\ rp[r] \in Nat /\ rp[r + 1] \in Nat /\ c \in Nat
        /\ rp[r] < s /\ s <= rp[r + 1] /\ s - rp[r] = c /\ s \in Nat /\ 1 <= s
    <3>1. r \in 1 .. l + 1 /\ r + 1 \in 1 .. l + 1
      BY <1>1
    <3>2. rp[r] \in Nat /\ rp[r + 1] \in Nat /\ rp[r + 1] = rp[r] + Len(rows[r])
          /\ Len(rows[r]) \in Nat /\ c \in 1 .. Len(rows[r])
      BY <1>1, <3>1
    <3> DEFINE begin == rp[r]
               end == rp[r + 1]
               length == Len(rows[r])
    <3> HIDE DEF rp, begin, end, length
    <3>3. begin \in Nat /\ length \in Nat /\ end = begin + length /\ c \in 1 .. length
      BY <3>2 DEF begin, end, length
    <3>4. /\ end \in Nat /\ c \in Nat /\ begin < begin + c /\ begin + c <= end
          /\ (begin + c) - begin = c /\ begin + c \in Nat /\ 1 <= begin + c
      BY <3>3
    <3> QED BY <3>3, <3>4 DEF begin, end
  <2>2. rp[r + 1] <= rp[l + 1]
    <3>1. r + 1 \in 1 .. l + 1 /\ l + 1 \in 1 .. l + 1 /\ r + 1 <= l + 1
      BY <1>1
    <3>2. \A k \in 1 .. l + 1 : rp[k] \in Int
      BY <1>1
    <3>3. ASSUME NEW k \in 1 .. l PROVE rp[k] <= rp[k + 1]
      <4>1. k \in 1 .. l + 1
        BY <1>1
      <4>2. rp[k] \in Nat /\ rp[k + 1] = rp[k] + Len(rows[k]) /\ Len(rows[k]) \in Nat
        BY <1>1, <4>1
      <4> HIDE DEF rp
      <4> QED BY <4>2
    <3> HIDE DEF rp, l
    <3> QED BY <1>1, <3>1, <3>2, <3>3, Ascends
  <2>3. rp[l + 1] \in Nat /\ size = rp[l + 1]
    BY <1>1
  <2> HIDE DEF s
  <2>4. s \in 1 .. rp[l + 1]
    <3> HIDE DEF rp
    <3> QED BY <2>1, <2>2, <2>3
  <2>5. row(s) = r
    <3>1. \A q \in DOMAIN rows : rp[q] < s /\ s <= rp[q + 1] => q = r
      <4>1. IsListOfRows(rows)
        BY RowsListed
      <4> QED BY <1>1, <2>1, <2>4, <4>1, RowAt
    <3>2. r \in DOMAIN rows /\ rp[r] < s /\ s <= rp[r + 1]
      BY <1>1, <2>1
    <3> HIDE DEF rp
    <3> QED BY <3>1, <3>2
  <2> HIDE DEF M, rp, size, row
  <2>6. M.ci[s] = rows[r][c].k /\ M.v[s] = rows[r][c].x
    BY <1>2, <2>1, <2>3, <2>4, <2>5
  <2> QED BY <2>6 DEF s
<1>4. size = rp[l + 1]
  BY <1>1
<1> HIDE DEF M, size, row
<1> QED BY <1>2, <1>3, <1>4 DEF HoldsRows, M

\* The slots of a row.
LEMMA SlotsHoldRow ==
  ASSUME NEW n, NEW rows \in Seq(Seq(ProductType(n))), NEW M, HoldsRows(M, rows, 1),
         NEW i \in 0 .. Len(rows) - 1
  PROVE  LET begin == RowPointers(rows)[i + 1]
         IN  /\ begin \in Nat
             /\ \A c \in 1 .. Len(rows[i + 1]) :
                  /\ begin + c \in Slots(M, i)
                  /\ M.ci[begin + c] = rows[i + 1][c].k /\ M.v[begin + c] = rows[i + 1][c].x
             /\ \A s \in Slots(M, i) :
                  s - begin \in 1 .. Len(rows[i + 1]) /\ s = begin + (s - begin)
<1> DEFINE rp == RowPointers(rows)
           begin == rp[i + 1]
           end == rp[i + 2]
           length == Len(rows[i + 1])
<1>1. i + 1 \in 1 .. Len(rows) /\ i + 1 \in 1 .. Len(rows) + 1 /\ (i + 1) + 1 = i + 2
  BY RowsListed DEF IsListOfRows
<1>2. begin \in Nat /\ length \in Nat /\ end = begin + length
  BY <1>1, RowsListed, PointersAscend DEF IsListOfRows
<1>3. Slots(M, i) = begin + 1 .. end
  BY DEF HoldsRows, Slots
<1>4. \A c \in 1 .. length :
        M.ci[begin + c] = rows[i + 1][c].k /\ M.v[begin + c] = rows[i + 1][c].x
  BY <1>1 DEF HoldsRows
<1> HIDE DEF begin, end, length
<1>5. /\ \A c \in 1 .. length : begin + c \in Slots(M, i)
      /\ \A s \in Slots(M, i) : s - begin \in 1 .. length /\ s = begin + (s - begin)
  BY <1>2, <1>3
<1> QED BY <1>2, <1>4, <1>5 DEF begin, length

\* The arrays that hold the rows of X are the matrix X.
LEMMA RowsDenote ==
  ASSUME NEW X, X.m \in Nat, X.n \in Nat, X = [m |-> X.m, n |-> X.n, at |-> X.at],
         X.at \in [Positions(X.m, X.n) -> Int],
         NEW rows, AreRowsOf(rows, X), NEW M, HoldsRows(M, rows, 1), M.n = X.n
  PROVE  IsMatrix(M) /\ IntValues(M) /\ Dense(M) = X
<1> DEFINE rp == RowPointers(rows)
           m == X.m
           n == X.n
           size == rp[m + 1]
<1>1. /\ rows \in Seq(Seq(ProductType(n))) /\ Len(rows) = m /\ m \in Nat /\ n \in Nat
      /\ M.m = m /\ M.n = n /\ M.rp = rp /\ IsListOfRows(rows)
      /\ M.ci = [s \in 1 .. size |-> M.ci[s]] /\ M.v = [s \in 1 .. size |-> M.v[s]]
  BY RowsListed DEF AreRowsOf, HoldsRows
<1>2. /\ DOMAIN rp = 1 .. m + 1 /\ rp[1] = 0 /\ \A r \in 1 .. m + 1 : rp[r] \in Nat
      /\ \A r \in 1 .. m : rp[r + 1] = rp[r] + Len(rows[r]) /\ Len(rows[r]) \in Nat
  BY <1>1, PointersAscend DEF IsListOfRows
<1>3. size \in Nat
  BY <1>1, <1>2
<1>4. M.rp \in Seq(Nat) /\ Len(M.rp) = m + 1
  <2>1. rp \in [1 .. m + 1 -> Nat]
    BY <1>1, <1>2 DEF RowPointers
  <2>0. m + 1 \in Nat
    BY <1>1
  <2> HIDE DEF rp, m
  <2>2. rp \in Seq(Nat)
    BY <2>0, <2>1, IsASeq
  <2>3. Len(rp) \in Nat /\ DOMAIN rp = 1 .. Len(rp)
    BY <2>2, LenProperties
  <2>4. Len(rp) = m + 1
    BY <1>1, <1>2, <2>3
  <2> QED BY <1>1, <2>2, <2>4
<1>5. ASSUME NEW r \in 1 .. m PROVE rp[r] <= rp[r + 1]
  <2>1. rp[r] \in Nat
    BY <1>1, <1>2
  <2>2. rp[r + 1] = rp[r] + Len(rows[r]) /\ Len(rows[r]) \in Nat
    BY <1>2
  <2> HIDE DEF rp
  <2> QED BY <2>1, <2>2
<1>6. ASSUME NEW s \in 1 .. size PROVE M.ci[s] \in 0 .. n - 1 /\ M.v[s] \in Int
  <2>1. PICK r \in 1 .. m : rp[r] < s /\ s <= rp[r + 1]
    BY <1>1, RowAt
  <2> DEFINE c == s - rp[r]
  <2>2. c \in 1 .. Len(rows[r]) /\ s = rp[r] + c
    <3>1. rp[r] \in Nat /\ rp[r + 1] = rp[r] + Len(rows[r]) /\ Len(rows[r]) \in Nat
      BY <1>1, <1>2
    <3> DEFINE begin == rp[r]
               end == rp[r + 1]
               length == Len(rows[r])
    <3>2. begin \in Nat /\ length \in Nat /\ end = begin + length /\ begin < s /\ s <= end
      BY <2>1, <3>1
    <3>3. c = s - begin
      OBVIOUS
    <3> HIDE DEF begin, end, length, c
    <3>4. c \in 1 .. length /\ s = begin + c
      BY <3>2, <3>3
    <3> QED BY <3>4 DEF begin, length
  <2> HIDE DEF c
  <2>3. M.ci[s] = rows[r][c].k /\ M.v[s] = rows[r][c].x
    BY <1>1, <2>2 DEF HoldsRows
  <2>4. rows \in Seq(Seq(ProductType(n))) /\ r \in 1 .. Len(rows)
    BY <1>1
  <2>5. rows[r][c].k \in 0 .. n - 1 /\ rows[r][c].x \in Int
    <3> HIDE DEF n
    <3> QED BY <2>2, <2>4, RowsListed
  <2> QED BY <2>3, <2>5
<1>7. M.ci \in Seq(Nat) /\ M.v \in Seq(Int) /\ Len(M.ci) = size /\ Len(M.v) = size
  <2>0. ASSUME NEW s \in 1 .. size PROVE M.ci[s] \in Nat /\ M.v[s] \in Int
    <3>1. n \in Nat /\ M.ci[s] \in 0 .. n - 1 /\ M.v[s] \in Int
      BY <1>1, <1>6
    <3> HIDE DEF n
    <3> QED BY <3>1
  <2> DEFINE ci == M.ci
             v  == M.v
  <2>1. ci = [s \in 1 .. size |-> ci[s]] /\ v = [s \in 1 .. size |-> v[s]]
    BY <1>1
  <2> HIDE DEF size, ci, v
  <2>2. ci \in [1 .. size -> Nat] /\ v \in [1 .. size -> Int]
    BY <2>0, <2>1 DEF ci, v
  <2>3. ci \in Seq(Nat) /\ v \in Seq(Int)
    <3>1. size \in Nat
      BY <1>3
    <3>2. ci \in Seq(Nat)
      BY <2>2, <3>1, IsASeq
    <3>3. v \in Seq(Int)
      BY <2>2, <3>1, IsASeq
    <3> QED BY <3>2, <3>3
  <2>4. Len(ci) = size /\ Len(v) = size
    BY <1>3, <2>2, <2>3, LenProperties
  <2> QED BY <2>3, <2>4 DEF ci, v
<1>8. ASSUME NEW i \in 0 .. m - 1
      PROVE  \A s, u \in Slots(M, i) :
               M.ci[s] \in 0 .. n - 1 /\ (M.ci[s] = M.ci[u] => s = u)
  <2> DEFINE row == rows[i + 1]
             begin == rp[i + 1]
  <2>1. i \in 0 .. Len(rows) - 1 /\ i + 1 \in 1 .. m
    BY <1>1
  <2>2. /\ \A c \in 1 .. Len(row) : M.ci[begin + c] = row[c].k
        /\ \A s \in Slots(M, i) : s - begin \in 1 .. Len(row) /\ s = begin + (s - begin)
    <3>1. rows \in Seq(Seq(ProductType(n))) /\ HoldsRows(M, rows, 1)
      BY <1>1
    <3> HIDE DEF m, n
    <3> QED BY <2>1, <3>1, SlotsHoldRow, SMTT(30)
  <2>3. /\ \A c \in 1 .. Len(row) : row[c].k \in 0 .. n - 1
        /\ \A c, d \in 1 .. Len(row) : row[c].k = row[d].k => c = d
    BY <1>1, <2>1, RowsListed DEF AreRowsOf, IsRowOf
  <2>4. ASSUME NEW s \in Slots(M, i)
        PROVE  /\ s - begin \in 1 .. Len(row) /\ s = begin + (s - begin)
               /\ M.ci[s] = row[s - begin].k
    <3> DEFINE c == s - begin
    <3>1. c \in 1 .. Len(row) /\ s = begin + c
      BY <2>2
    <3> HIDE DEF c, begin, row
    <3>2. M.ci[s] = row[c].k
      BY <2>2, <3>1
    <3> QED BY <3>1, <3>2 DEF c
  <2> HIDE DEF row, begin
  <2>5. ASSUME NEW s \in Slots(M, i), NEW u \in Slots(M, i), M.ci[s] = M.ci[u] PROVE s = u
    <3>1. s - begin = u - begin
      BY <2>3, <2>4, <2>5
    <3>2. s = begin + (s - begin) /\ u = begin + (u - begin)
      BY <2>4
    <3> DEFINE c == s - begin
               d == u - begin
    <3>3. c = d /\ s = begin + c /\ u = begin + d
      BY <3>1, <3>2
    <3> HIDE DEF c, d
    <3> QED BY <3>3
  <2>6. \A s \in Slots(M, i) : M.ci[s] \in 0 .. n - 1
    BY <2>3, <2>4
  <2> QED BY <2>5, <2>6
<1>9. IsMatrix(M) /\ IntValues(M)
  BY <1>1, <1>2, <1>4, <1>5, <1>7, <1>8 DEF IsMatrix, IsCompressed, IntValues
<1>10. ASSUME NEW i \in 0 .. m - 1, NEW k \in 0 .. n - 1
       PROVE  Dense(M).at[<<i, k>>] = X.at[<<i, k>>]
  <2> DEFINE row == rows[i + 1]
             begin == rp[i + 1]
  <2>1. i \in 0 .. Len(rows) - 1 /\ i + 1 \in 1 .. m /\ (i + 1) - 1 = i
    BY <1>1
  <2>2. /\ \A c \in 1 .. Len(row) :
             /\ begin + c \in Slots(M, i)
             /\ M.ci[begin + c] = row[c].k /\ M.v[begin + c] = row[c].x
        /\ \A s \in Slots(M, i) : s - begin \in 1 .. Len(row) /\ s = begin + (s - begin)
    <3>1. rows \in Seq(Seq(ProductType(n))) /\ HoldsRows(M, rows, 1)
      BY <1>1
    <3> HIDE DEF m, n
    <3> QED BY <2>1, <3>1, SlotsHoldRow, SMTT(30)
  <2>3. IsRowOf(row, X, i)
    BY <2>1 DEF AreRowsOf
  <2> HIDE DEF row, begin
  <2>4. CASE \E c \in 1 .. Len(row) : row[c].k = k
    <3>1. PICK c \in 1 .. Len(row) : row[c].k = k
      BY <2>4
    <3>2. M.v[begin + c] = X.at[<<i, k>>]
      BY <2>2, <2>3, <3>1 DEF IsRowOf
    <3>3. begin + c \in Slots(M, i) /\ M.ci[begin + c] = k
      BY <2>2, <3>1
    <3>4. i \in 0 .. M.m - 1 /\ k \in 0 .. M.n - 1
      BY <1>1
    <3> HIDE DEF m, n
    <3> QED BY <1>9, <3>2, <3>3, <3>4, DenseOfIntegers
  <2>5. CASE \A c \in 1 .. Len(row) : row[c].k /= k
    <3>1. X.at[<<i, k>>] = 0
      BY <2>3, <2>5 DEF IsRowOf
    <3>2. ASSUME NEW s \in Slots(M, i) PROVE M.ci[s] /= k
      <4> DEFINE c == s - begin
      <4>1. c \in 1 .. Len(row) /\ s = begin + c
        BY <2>2
      <4> HIDE DEF c
      <4>2. M.ci[s] = row[c].k
        BY <2>2, <4>1
      <4> QED BY <2>5, <4>1, <4>2
    <3>3. i \in 0 .. M.m - 1 /\ k \in 0 .. M.n - 1
      BY <1>1
    <3> HIDE DEF m, n
    <3> QED BY <1>9, <3>1, <3>2, <3>3, DenseAt
  <2> QED BY <2>4, <2>5
<1>11. Dense(M) = [m |-> m, n |-> n, at |-> Dense(M).at]
       /\ Dense(M).at = [p \in Positions(m, n) |-> Dense(M).at[p]]
  BY <1>1 DEF Dense
<1>12. ASSUME NEW p \in Positions(m, n) PROVE Dense(M).at[p] = X.at[p]
  <2>1. PICK i \in 0 .. m - 1, k \in 0 .. n - 1 : p = <<i, k>>
    BY DEF Positions
  <2> QED BY <1>10, <2>1
<1> HIDE DEF m, n
<1>13. X = [m |-> m, n |-> n, at |-> X.at] /\ X.at = [p \in Positions(m, n) |-> X.at[p]]
  BY DEF m, n
<1>14. Dense(M).at = X.at
  BY <1>11, <1>12, <1>13
<1> QED BY <1>9, <1>11, <1>13, <1>14

\* A slot behind a row is farther from its begin than the row is long.
LEMMA BehindRow ==
  ASSUME NEW first \in Nat, NEW length \in Nat, NEW begin \in Nat, NEW c \in Nat \ {0},
         first + length <= begin
  PROVE  (begin + c) - first > length
  OBVIOUS

LEMMA RowInArrays ==
  ASSUME NEW rows, IsListOfRows(rows),
         NEW r \in 1 .. Len(rows), NEW c \in 1 .. Len(rows[r])
  PROVE  LET rp == RowPointers(rows)
         IN  /\ rp[r] \in Nat /\ rp[r] + c \in 1 .. rp[Len(rows) + 1]
             /\ \A q \in 1 .. Len(rows) : q < r =>
                  rp[q] \in Nat /\ (rp[r] + c) - rp[q] > Len(rows[q])
<1> DEFINE n == Len(rows)
           rp == RowPointers(rows)
<1>1. /\ n \in Nat /\ \A k \in 1 .. n + 1 : rp[k] \in Nat
      /\ \A k \in 1 .. n : rp[k + 1] = rp[k] + Len(rows[k]) /\ Len(rows[k]) \in Nat
  BY PointersAscend DEF IsListOfRows
<1> HIDE DEF n, rp
<1>2. ASSUME NEW k \in 1 .. n PROVE rp[k] <= rp[k + 1]
  <2>1. rp[k] \in Nat /\ rp[k + 1] = rp[k] + Len(rows[k]) /\ Len(rows[k]) \in Nat
    BY <1>1
  <2> QED BY <2>1
<1>3. \A k \in 1 .. n + 1 : rp[k] \in Int
  BY <1>1
<1>4. r \in 1 .. n /\ c \in 1 .. Len(rows[r])
  BY DEF n
<1>5. r \in 1 .. n + 1 /\ r + 1 \in 1 .. n + 1 /\ n + 1 \in 1 .. n + 1 /\ r + 1 <= n + 1
  BY <1>1, <1>4
<1>6. rp[r + 1] <= rp[n + 1]
  BY <1>1, <1>2, <1>3, <1>5, Ascends
<1>7. /\ rp[r] \in Nat /\ rp[n + 1] \in Nat /\ rp[r + 1] = rp[r] + Len(rows[r])
      /\ Len(rows[r]) \in Nat
  BY <1>1, <1>4, <1>5
<1>8. rp[r] + c \in 1 .. rp[n + 1]
  BY <1>4, <1>6, <1>7
<1>9. ASSUME NEW q \in 1 .. n, q < r
      PROVE  rp[q] \in Nat /\ (rp[r] + c) - rp[q] > Len(rows[q])
  <2>1. q \in 1 .. n + 1 /\ q + 1 \in 1 .. n + 1 /\ q + 1 <= r
    BY <1>1, <1>4, <1>9
  <2>2. rp[q + 1] <= rp[r]
    BY <1>1, <1>2, <1>3, <1>5, <2>1, Ascends
  <2>3. rp[q] \in Nat /\ rp[q + 1] = rp[q] + Len(rows[q]) /\ Len(rows[q]) \in Nat
    BY <1>1, <2>1
  <2>4. c \in Nat \ {0}
    BY <1>4, <1>7
  <2>5. rp[q] + Len(rows[q]) <= rp[r]
    BY <2>2, <2>3, Zenon
  <2> QED BY <1>7, <2>3, <2>4, <2>5, BehindRow, Zenon
<1> QED BY <1>7, <1>8, <1>9 DEF n, rp

\* Copying one row more.
LEMMA RowCopied ==
  ASSUME NEW n, NEW rows \in Seq(Seq(ProductType(n))), NEW j \in 1 .. Len(rows),
         NEW M, HoldsRows(M, rows, j + 1),
         NEW N, N.m = M.m, N.rp = M.rp,
         N.ci = [s \in DOMAIN M.ci |-> IF s - M.rp[j] \in DOMAIN rows[j]
                                       THEN rows[j][s - M.rp[j]].k ELSE M.ci[s]],
         N.v  = [s \in DOMAIN M.v |-> IF s - M.rp[j] \in DOMAIN rows[j]
                                      THEN rows[j][s - M.rp[j]].x ELSE M.v[s]]
  PROVE  HoldsRows(N, rows, j)
<1> DEFINE rp == RowPointers(rows)
           size == rp[Len(rows) + 1]
<1>1. /\ M.m = Len(rows) /\ M.rp = rp /\ DOMAIN M.ci = 1 .. size /\ DOMAIN M.v = 1 .. size
      /\ \A r \in j + 1 .. Len(rows) : \A c \in 1 .. Len(rows[r]) :
           M.ci[rp[r] + c] = rows[r][c].k /\ M.v[rp[r] + c] = rows[r][c].x
  BY DEF HoldsRows
<1>2. /\ IsListOfRows(rows) /\ Len(rows) \in Nat /\ DOMAIN rows[j] = 1 .. Len(rows[j])
      /\ Len(rows[j]) \in Nat
  BY RowsListed, LenProperties DEF IsListOfRows
<1>3. /\ N.ci = [s \in 1 .. size |-> IF s - rp[j] \in 1 .. Len(rows[j])
                                     THEN rows[j][s - rp[j]].k ELSE M.ci[s]]
      /\ N.v = [s \in 1 .. size |-> IF s - rp[j] \in 1 .. Len(rows[j])
                                    THEN rows[j][s - rp[j]].x ELSE M.v[s]]
  BY <1>1, <1>2
<1> DEFINE ci == N.ci
           v  == N.v
<1> HIDE DEF rp, size, ci, v
<1>4. ASSUME NEW r \in j .. Len(rows), NEW c \in 1 .. Len(rows[r])
      PROVE  ci[rp[r] + c] = rows[r][c].k /\ v[rp[r] + c] = rows[r][c].x
  <2>0. r \in 1 .. Len(rows) /\ r \in Nat /\ j \in Nat /\ j <= r
    BY <1>2
  <2>1. /\ rp[r] \in Nat /\ rp[r] + c \in 1 .. size
        /\ \A q \in 1 .. Len(rows) : q < r =>
             rp[q] \in Nat /\ (rp[r] + c) - rp[q] > Len(rows[q])
    BY <1>2, <2>0, RowInArrays DEF rp, size
  <2> DEFINE s == rp[r] + c
  <2>2. CASE r = j
    <3>1. s - rp[j] = c /\ s \in 1 .. size
      BY <2>1, <2>2
    <3> HIDE DEF s
    <3>2. ci[s] = rows[j][c].k /\ v[s] = rows[j][c].x
      BY <1>3, <2>2, <3>1 DEF ci, v
    <3> QED BY <2>2, <3>2 DEF s
  <2>3. CASE j < r
    <3>1. s - rp[j] > Len(rows[j]) /\ s \in 1 .. size /\ s - rp[j] \in Int
      <4>1. rp[j] \in Nat /\ s - rp[j] > Len(rows[j]) /\ s \in 1 .. size
        BY <2>1, <2>3
      <4> HIDE DEF s
      <4> DEFINE begin == rp[j]
      <4>2. begin \in Nat /\ s \in 1 .. size
        BY <4>1
      <4> HIDE DEF begin
      <4>3. s - begin \in Int
        BY <4>2
      <4> QED BY <4>1, <4>3 DEF begin
    <3>2. s - rp[j] \notin 1 .. Len(rows[j])
      <4> DEFINE d == s - rp[j]
      <4> HIDE DEF s
      <4>1. d \in Int /\ d > Len(rows[j])
        BY <3>1
      <4> HIDE DEF d
      <4>2. d \notin 1 .. Len(rows[j])
        BY <1>2, <4>1
      <4> QED BY <4>2 DEF d
    <3> HIDE DEF s
    <3>3. ci[s] = M.ci[s] /\ v[s] = M.v[s]
      BY <1>3, <3>1, <3>2 DEF ci, v
    <3>4. M.ci[s] = rows[r][c].k /\ M.v[s] = rows[r][c].x
      <4>1. r \in j + 1 .. Len(rows)
        BY <2>0, <2>3
      <4> QED BY <1>1, <4>1 DEF s
    <3> QED BY <3>3, <3>4 DEF s
  <2> QED BY <2>0, <2>2, <2>3
<1>5. ci = [s \in 1 .. size |-> ci[s]] /\ v = [s \in 1 .. size |-> v[s]]
  BY <1>3 DEF ci, v
<1> QED BY <1>1, <1>4, <1>5 DEF HoldsRows, rp, size, ci, v

LEMMA NothingCopied ==
  ASSUME NEW n, NEW rows \in Seq(Seq(ProductType(n))), NEW garbage,
         NEW M, M.m = Len(rows), M.rp = RowPointers(rows),
         LET size == RowPointers(rows)[Len(RowPointers(rows))]
         IN  /\ M.ci = [s \in 1 .. size |-> garbage]
             /\ M.v = [s \in 1 .. size |-> garbage]
  PROVE  HoldsRows(M, rows, Len(rows) + 1)
<1>1. Len(RowPointers(rows)) = Len(rows) + 1
  <2>1. /\ Len(rows) + 1 \in Nat /\ DOMAIN RowPointers(rows) = 1 .. Len(rows) + 1
        /\ \A r \in 1 .. Len(rows) + 1 : RowPointers(rows)[r] \in Nat
    BY RowsListed, PointersAscend DEF IsListOfRows
  <2>2. RowPointers(rows) \in [1 .. Len(rows) + 1 -> Nat]
    BY <2>1 DEF RowPointers
  <2> DEFINE rp == RowPointers(rows)
             l == Len(rows) + 1
  <2> HIDE DEF rp, l
  <2>3. rp \in [1 .. l -> Nat] /\ l \in Nat
    BY <2>1, <2>2 DEF rp, l
  <2>4. rp \in Seq(Nat)
    BY <2>3, IsASeq
  <2>5. Len(rp) = l
    BY <2>3, <2>4, LenProperties
  <2> QED BY <2>5 DEF rp, l
<1>2. ASSUME NEW r \in Len(rows) + 1 .. Len(rows) PROVE FALSE
  <2>1. Len(rows) \in Nat
    BY RowsListed DEF IsListOfRows
  <2> QED BY <2>1
<1> QED BY <1>1, <1>2 DEF HoldsRows

-----------------------------------------------------------------------------
\* Matrices made from triples in row-major order.

LEMMA Least ==
  ASSUME NEW n \in Nat, NEW T, T \subseteq 0 .. n, T /= {}
  PROVE  Min(T) \in T /\ \A x \in T : Min(T) <= x
<1> DEFINE D == {d \in Nat : (\E x \in T : x <= d) => \E x \in T : \A y \in T : x <= y}
<1>1. 0 \in D
  <2> SUFFICES ASSUME NEW x \in T, x <= 0 PROVE \A y \in T : x <= y
    OBVIOUS
  <2> QED OBVIOUS
<1>2. ASSUME NEW d \in Nat, d \in D PROVE d + 1 \in D
  <2> SUFFICES ASSUME NEW x \in T, x <= d + 1 PROVE \E z \in T : \A y \in T : z <= y
    OBVIOUS
  <2>1. CASE \E y \in T : y <= d
    BY <1>2, <2>1
  <2>2. CASE \A y \in T : ~ y <= d
    BY <2>2
  <2> QED BY <2>1, <2>2
<1>3. n \in D
  <2> HIDE DEF D
  <2> QED BY <1>1, <1>2, AllNumbers
<1>4. PICK x \in T : \A y \in T : x <= y
  <2>1. \E x \in T : x <= n
    <3>1. PICK x \in T : x \in 0 .. n
      OBVIOUS
    <3> QED BY <3>1
  <2> QED BY <1>3, <2>1
<1> QED BY <1>4 DEF Min

\* The triples T of an m by n matrix, in row-major order.
AreSorted(T, m, n) ==
  /\ m \in Nat /\ n \in Nat
  /\ Len(T) \in Nat /\ DOMAIN T = 1 .. Len(T)
  /\ \A k \in 1 .. Len(T) : T[k][1] \in 0 .. m - 1 /\ T[k][2] \in 0 .. n - 1
  /\ \A k, l \in 1 .. Len(T) : k < l => RowMajorLessThan(T[k], T[l])

LEMMA PointerOfRow ==
  ASSUME NEW m, NEW n, NEW T, AreSorted(T, m, n), NEW r \in Int
  PROVE  /\ RowPointer(T, r) \in 0 .. Len(T)
         /\ \A k \in 1 .. Len(T) : k <= RowPointer(T, r) <=> T[k][1] < r
<1> DEFINE S == {k - 1 : k \in {l \in DOMAIN T : T[l][1] >= r}} \cup {Len(T)}
           p == RowPointer(T, r)
           size == Len(T)
<1>1. size \in Nat /\ DOMAIN T = 1 .. size
  BY DEF AreSorted
<1>2. /\ \A k \in 1 .. size : T[k][1] \in Int /\ T[k][2] \in Int
      /\ \A k, l \in 1 .. size : k < l => RowMajorLessThan(T[k], T[l])
  BY DEF AreSorted
<1>3. p = Min(S)
  BY DEF RowPointer
<1> HIDE DEF size, p
<1>4. /\ \A k \in 1 .. size : T[k][1] >= r => k - 1 \in S
      /\ \A z \in S : z = size \/ \E k \in 1 .. size : z = k - 1 /\ T[k][1] >= r
      /\ size \in S
  BY <1>1 DEF size
<1> HIDE DEF S
<1>5. p \in S /\ \A z \in S : p <= z
  <2>1. S \subseteq 0 .. size /\ S /= {}
    BY <1>1, <1>4
  <2> QED BY <1>1, <1>3, <2>1, Least
<1>6. p \in 0 .. size
  BY <1>1, <1>4, <1>5
<1>7. ASSUME NEW k \in 1 .. size, k <= p PROVE T[k][1] < r
  <2>1. CASE T[k][1] >= r
    <3>1. p <= k - 1
      BY <1>4, <1>5, <2>1
    <3> QED BY <1>6, <1>7, <3>1
  <2> QED BY <1>2, <2>1
<1>8. ASSUME NEW k \in 1 .. size, p < k PROVE T[k][1] >= r
  <2>1. PICK l \in 1 .. size : p = l - 1 /\ T[l][1] >= r
    BY <1>1, <1>4, <1>5, <1>6, <1>8
  <2>2. l <= k
    BY <1>6, <1>8, <2>1
  <2>3. CASE l = k
    BY <2>1, <2>3
  <2>4. CASE l < k
    <3>1. RowMajorLessThan(T[l], T[k])
      BY <1>2, <2>4
    <3>2. T[l][1] <= T[k][1]
      BY <1>2, <3>1 DEF RowMajorLessThan
    <3>3. T[l][1] \in Int /\ T[k][1] \in Int
      BY <1>2
    <3> QED BY <2>1, <3>2, <3>3
  <2> QED BY <1>1, <2>2, <2>3, <2>4
<1>9. ASSUME NEW k \in 1 .. size PROVE k <= p <=> T[k][1] < r
  <2>1. k \in Int /\ p \in Int /\ T[k][1] \in Int
    BY <1>2, <1>6
  <2> QED BY <1>7, <1>8, <2>1
<1> QED BY <1>6, <1>9 DEF p, size

\* A function on the first numbers is a sequence.
LEMMA SequenceOf ==
  ASSUME NEW S, NEW n \in Nat, NEW s \in [1 .. n -> S]
  PROVE  s \in Seq(S) /\ Len(s) = n
<1>1. s \in Seq(S)
  BY IsASeq
<1> QED BY <1>1, LenProperties

LEMMA SortedTriples ==
  ASSUME NEW m, NEW n, NEW T, AreSorted(T, m, n)
  PROVE  LET M == FromTriples(m, n, T)
         IN  /\ IsMatrix(M) /\ M.m = m /\ M.n = n
             /\ DOMAIN M.ci = 1 .. Len(T) /\ M.v = [k \in 1 .. Len(T) |-> T[k][3]]
             /\ \A i \in 0 .. m - 1 : \A k :
                  k \in Slots(M, i) <=> k \in 1 .. Len(T) /\ T[k][1] = i
             /\ \A k \in 1 .. Len(T) : M.ci[k] = T[k][2]
<1> DEFINE M == FromTriples(m, n, T)
           size == Len(T)
           rp == [i \in 1 .. m + 1 |-> RowPointer(T, i - 1)]
           ci == [k \in 1 .. size |-> T[k][2]]
           v == [k \in 1 .. size |-> T[k][3]]
<1>1. /\ m \in Nat /\ n \in Nat /\ size \in Nat /\ DOMAIN T = 1 .. size
      /\ \A k \in 1 .. size : T[k][1] \in 0 .. m - 1 /\ T[k][2] \in 0 .. n - 1
      /\ \A k, l \in 1 .. size : k < l => RowMajorLessThan(T[k], T[l])
  BY DEF AreSorted
<1>2. M = [m |-> m, n |-> n, rp |-> rp, ci |-> ci, v |-> v]
  BY <1>1 DEF FromTriples
<1>3. ASSUME NEW i \in 0 .. m
      PROVE  /\ rp[i + 1] \in 0 .. size
             /\ \A k \in 1 .. size : k <= rp[i + 1] <=> T[k][1] < i
  <2>1. i \in Int /\ i + 1 \in 1 .. m + 1 /\ (i + 1) - 1 = i
    BY <1>1
  <2>2. rp[i + 1] = RowPointer(T, i)
    BY <2>1
  <2> QED BY <2>1, <2>2, PointerOfRow
<1>4. rp \in Seq(Nat) /\ Len(rp) = m + 1
  <2>1. ASSUME NEW i \in 1 .. m + 1 PROVE rp[i] \in Nat
    <3>1. i - 1 \in 0 .. m /\ (i - 1) + 1 = i
      BY <1>1
    <3>2. rp[(i - 1) + 1] \in 0 .. size
      BY <1>3, <3>1
    <3> HIDE DEF rp
    <3> QED BY <1>1, <3>1, <3>2
  <2>2. rp \in [1 .. m + 1 -> Nat] /\ m + 1 \in Nat
    BY <1>1, <2>1
  <2> HIDE DEF rp
  <2>3. rp \in Seq(Nat)
    BY <2>2, IsASeq
  <2> QED BY <2>2, <2>3, LenProperties
<1>5. ci \in Seq(Nat) /\ Len(ci) = size /\ Len(v) = size
  <2> DEFINE V == {v[k] : k \in 1 .. size}
  <2>1. size \in Nat /\ ci \in [1 .. size -> Nat] /\ v \in [1 .. size -> V]
    BY <1>1
  <2> HIDE DEF ci, v, size, V
  <2> QED BY <2>1, SequenceOf
<1> HIDE DEF M, size, rp
<1>6. rp[1] = 0
  <2>1. rp[0 + 1] \in 0 .. size /\ \A k \in 1 .. size : k <= rp[0 + 1] <=> T[k][1] < 0
    BY <1>1, <1>3
  <2>2. \A k \in 1 .. size : T[k][1] >= 0
    BY <1>1
  <2>3. rp[1] \in 0 .. size /\ \A k \in 1 .. size : ~ k <= rp[1]
    BY <1>1, <2>1, <2>2
  <2> QED BY <1>1, <2>3
<1>7. rp[m + 1] = size
  <2>1. rp[m + 1] \in 0 .. size /\ \A k \in 1 .. size : k <= rp[m + 1] <=> T[k][1] < m
    BY <1>1, <1>3
  <2>2. \A k \in 1 .. size : k <= rp[m + 1]
    BY <1>1, <2>1
  <2> QED BY <1>1, <2>1, <2>2
<1>8. ASSUME NEW i \in 1 .. m PROVE rp[i] <= rp[i + 1]
  <2>1. /\ i - 1 \in 0 .. m /\ i \in 0 .. m /\ (i - 1) + 1 = i
    BY <1>1
  <2>2. rp[i] \in 0 .. size /\ \A k \in 1 .. size : k <= rp[i] <=> T[k][1] < i - 1
    BY <1>3, <2>1
  <2>3. rp[i + 1] \in 0 .. size /\ \A k \in 1 .. size : k <= rp[i + 1] <=> T[k][1] < i
    BY <1>3, <2>1
  <2>4. ASSUME rp[i + 1] < rp[i] PROVE FALSE
    <3>1. rp[i] \in 1 .. size
      BY <1>1, <2>2, <2>3, <2>4
    <3>2. T[rp[i]][1] < i - 1
      BY <2>2, <3>1
    <3>3. T[rp[i]][1] \in Int /\ i \in Int
      BY <1>1, <3>1
    <3>4. T[rp[i]][1] < i
      BY <3>2, <3>3
    <3>5. rp[i] <= rp[i + 1]
      BY <2>3, <3>1, <3>4
    <3> QED BY <2>2, <2>3, <2>4, <3>5
  <2> QED BY <2>2, <2>3, <2>4
<1>9. ASSUME NEW i \in 0 .. m - 1, NEW k
      PROVE  k \in Slots(M, i) <=> k \in 1 .. size /\ T[k][1] = i
  <2>1. i \in 0 .. m /\ i + 1 \in 0 .. m /\ (i + 1) + 1 = i + 2 /\ i \in Int
    BY <1>1
  <2>2. Slots(M, i) = rp[i + 1] + 1 .. rp[i + 2]
    BY <1>2 DEF Slots
  <2>3. rp[i + 1] \in 0 .. size /\ \A l \in 1 .. size : l <= rp[i + 1] <=> T[l][1] < i
    BY <1>3, <2>1
  <2>4. rp[i + 2] \in 0 .. size /\ \A l \in 1 .. size : l <= rp[i + 2] <=> T[l][1] < i + 1
    BY <1>3, <2>1
  <2> DEFINE b == rp[i + 1]
             e == rp[i + 2]
  <2>5. b \in 0 .. size /\ e \in 0 .. size /\ Slots(M, i) = b + 1 .. e
    BY <2>2, <2>3, <2>4
  <2> HIDE DEF b, e
  <2>6. k \in Slots(M, i) <=> k \in 1 .. size /\ ~ k <= b /\ k <= e
    BY <1>1, <2>5
  <2>7. ASSUME k \in 1 .. size PROVE (~ k <= b /\ k <= e) <=> T[k][1] = i
    <3>1. T[k][1] \in Int
      BY <1>1, <2>7
    <3>2. (k <= b <=> T[k][1] < i) /\ (k <= e <=> T[k][1] < i + 1)
      BY <2>3, <2>4, <2>7 DEF b, e
    <3> QED BY <2>1, <3>1, <3>2
  <2> QED BY <2>6, <2>7
<1>10. \A k \in 1 .. size : M.ci[k] = T[k][2]
  BY <1>2
<1>11. ASSUME NEW i \in 0 .. m - 1, NEW s \in Slots(M, i), NEW u \in Slots(M, i)
       PROVE  M.ci[s] \in 0 .. n - 1 /\ (M.ci[s] = M.ci[u] => s = u)
  <2>1. /\ s \in 1 .. size /\ u \in 1 .. size /\ T[s][1] = i /\ T[u][1] = i
        /\ M.ci[s] = T[s][2] /\ M.ci[u] = T[u][2] /\ T[s][2] \in 0 .. n - 1
    BY <1>1, <1>9, <1>10
  <2>2. ASSUME T[s][2] = T[u][2] PROVE s = u
    <3>1. i \in Int /\ T[s][2] \in Int
      BY <2>1
    <3>2. ~ RowMajorLessThan(T[s], T[u]) /\ ~ RowMajorLessThan(T[u], T[s])
      BY <2>1, <2>2, <3>1 DEF RowMajorLessThan
    <3>3. ~ s < u /\ ~ u < s
      BY <1>1, <2>1, <3>2
    <3> QED BY <1>1, <2>1, <3>3
  <2> QED BY <2>1, <2>2
<1>12. IsMatrix(M)
  <2>1. M.m = m /\ M.n = n /\ M.rp = rp /\ M.ci = ci /\ M.v = v
    BY <1>2
  <2> HIDE DEF ci, v
  <2>2. M.m \in Nat /\ M.n \in Nat /\ M.rp \in Seq(Nat) /\ M.ci \in Seq(Nat)
    BY <1>1, <1>4, <1>5, <2>1
  <2>3. /\ Len(M.rp) = M.m + 1 /\ M.rp[1] = 0
        /\ Len(M.ci) = M.rp[M.m + 1] /\ Len(M.v) = M.rp[M.m + 1]
    BY <1>4, <1>5, <1>6, <1>7, <2>1
  <2>4. \A i \in 1 .. M.m : M.rp[i] <= M.rp[i + 1]
    BY <1>8, <2>1
  <2>5. \A i \in 0 .. M.m - 1 : \A s, u \in Slots(M, i) :
          M.ci[s] \in 0 .. M.n - 1 /\ (M.ci[s] = M.ci[u] => s = u)
    BY <1>11, <2>1
  <2> QED BY <2>2, <2>3, <2>4, <2>5 DEF IsMatrix, IsCompressed
<1>13. /\ M.m = m /\ M.n = n /\ DOMAIN M.ci = 1 .. size
       /\ M.v = [k \in 1 .. size |-> T[k][3]]
  BY <1>2
<1> QED BY <1>9, <1>10, <1>12, <1>13 DEF M, size

\* The triples T are those of the positions in S, with the values w.
ListsPositions(T, S, w) ==
  /\ \A k \in 1 .. Len(T) :
       <<T[k][1], T[k][2]>> \in S /\ T[k][3] = w[<<T[k][1], T[k][2]>>]
  /\ \A p \in S : \E k \in 1 .. Len(T) : <<T[k][1], T[k][2]>> = p

LEMMA PositionsSorted ==
  ASSUME NEW m \in Nat, NEW n \in Nat, NEW S, S \subseteq Positions(m, n), NEW w
  PROVE  AreSorted(Triples(S, w), m, n) /\ ListsPositions(Triples(S, w), S, w)
<1> DEFINE order == RowMajor(S)
           size == Cardinality(S)
           T == Triples(S, w)
<1>1. IsFiniteSet(S) /\ S \subseteq Int \X Int
  <2>1. IsFiniteSet(0 .. m - 1) /\ IsFiniteSet(0 .. n - 1)
    BY FS_Interval
  <2>2. IsFiniteSet(Positions(m, n))
    BY <2>1, FS_Product DEF Positions
  <2>3. Positions(m, n) \subseteq Int \X Int
    BY DEF Positions
  <2> QED BY <2>2, <2>3, FS_Subset
<1>2. /\ size \in Nat /\ order \in [1 .. size -> S]
      /\ \A x \in S : \E k \in 1 .. size : order[k] = x
      /\ \A k, l \in 1 .. size : k < l => RowMajorLessThan(order[k], order[l])
  BY <1>1, RowMajorOrder
<1> HIDE DEF order, size
<1>3. T = [k \in 1 .. size |-> <<order[k][1], order[k][2], w[order[k]]>>]
  BY <1>2 DEF Triples, order
<1>4. Len(T) = size /\ DOMAIN T = 1 .. size
  <2> DEFINE triple == [k \in 1 .. size |-> <<order[k][1], order[k][2], w[order[k]]>>]
  <2>1. triple \in Seq({triple[k] : k \in 1 .. size})
    BY <1>2, IsASeq
  <2> QED BY <1>2, <1>3, <2>1, LenProperties
<1> HIDE DEF T
<1>5. ASSUME NEW k \in 1 .. size
      PROVE  /\ order[k] = <<T[k][1], T[k][2]>> /\ order[k] \in S /\ T[k][3] = w[order[k]]
             /\ T[k][1] = order[k][1] /\ T[k][2] = order[k][2]
             /\ T[k][1] \in 0 .. m - 1 /\ T[k][2] \in 0 .. n - 1
  <2>1. order[k] \in S
    BY <1>2
  <2>2. PICK i \in 0 .. m - 1, j \in 0 .. n - 1 : order[k] = <<i, j>>
    BY <2>1 DEF Positions
  <2> QED BY <1>3, <2>1, <2>2
<1>6. ASSUME NEW k \in 1 .. size, NEW l \in 1 .. size, k < l
      PROVE  RowMajorLessThan(T[k], T[l])
  <2>1. RowMajorLessThan(order[k], order[l])
    BY <1>2, <1>6
  <2>2. /\ T[k][1] = order[k][1] /\ T[k][2] = order[k][2]
        /\ T[l][1] = order[l][1] /\ T[l][2] = order[l][2]
    BY <1>5
  <2> QED BY <2>1, <2>2 DEF RowMajorLessThan
<1>7. AreSorted(T, m, n)
  BY <1>2, <1>4, <1>5, <1>6 DEF AreSorted
<1>8. ASSUME NEW p \in S PROVE \E k \in 1 .. size : <<T[k][1], T[k][2]>> = p
  <2>1. PICK k \in 1 .. size : order[k] = p
    BY <1>2
  <2> QED BY <1>5, <2>1
<1>9. \A k \in 1 .. size : <<T[k][1], T[k][2]>> \in S /\ T[k][3] = w[<<T[k][1], T[k][2]>>]
  BY <1>5
<1> QED BY <1>4, <1>7, <1>8, <1>9 DEF T, ListsPositions

\* The matrix made of them has their values there and 0 elsewhere.
LEMMA PositionsDenote ==
  ASSUME NEW m \in Nat, NEW n \in Nat, NEW S, S \subseteq Positions(m, n), NEW w
  PROVE  LET M == FromTriples(m, n, Triples(S, w))
         IN  /\ IsMatrix(M) /\ M.m = m /\ M.n = n
             /\ \A p \in Positions(m, n) :
                  Dense(M).at[p] = IF p \in S THEN w[p] + 0 ELSE 0
             /\ (\A p \in S : w[p] \in Int) => IntValues(M)
<1> DEFINE T == Triples(S, w)
           M == FromTriples(m, n, T)
<1>1. /\ AreSorted(T, m, n)
      /\ \A k \in 1 .. Len(T) :
           <<T[k][1], T[k][2]>> \in S /\ T[k][3] = w[<<T[k][1], T[k][2]>>]
      /\ \A p \in S : \E k \in 1 .. Len(T) : <<T[k][1], T[k][2]>> = p
  <2>1. AreSorted(T, m, n) /\ ListsPositions(T, S, w)
    BY PositionsSorted
  <2> HIDE DEF T
  <2> QED BY <2>1 DEF ListsPositions
<1> HIDE DEF T
<1>2. /\ IsMatrix(M) /\ M.m = m /\ M.n = n
      /\ M.v = [k \in 1 .. Len(T) |-> T[k][3]]
      /\ \A i \in 0 .. m - 1 : \A k : k \in Slots(M, i) <=> k \in 1 .. Len(T) /\ T[k][1] = i
      /\ \A k \in 1 .. Len(T) : M.ci[k] = T[k][2]
  BY <1>1, SortedTriples
<1>3. Len(T) \in Nat
  BY <1>1 DEF AreSorted
<1> HIDE DEF M
<1>4. ASSUME NEW i \in 0 .. m - 1, NEW j \in 0 .. n - 1
      PROVE  Dense(M).at[<<i, j>>] = IF <<i, j>> \in S THEN w[<<i, j>>] + 0 ELSE 0
  <2>1. i \in 0 .. M.m - 1 /\ j \in 0 .. M.n - 1
    BY <1>2
  <2>2. CASE <<i, j>> \in S
    <3>1. PICK k \in 1 .. Len(T) : <<T[k][1], T[k][2]>> = <<i, j>>
      BY <1>1, <2>2
    <3>2. T[k][1] = i /\ T[k][2] = j
      BY <3>1
    <3>3. k \in Slots(M, i) /\ M.ci[k] = j
      BY <1>2, <3>2
    <3>4. M.v[k] = w[<<i, j>>]
      BY <1>1, <1>2, <3>1
    <3>5. Dense(M).at[<<i, j>>] = M.v[k] + 0
      <4>1. IsMatrix(M)
        BY <1>2
      <4> QED BY <2>1, <3>3, <4>1, DenseAt
    <3> QED BY <2>2, <3>4, <3>5
  <2>3. CASE <<i, j>> \notin S
    <3>1. ASSUME NEW k \in Slots(M, i) PROVE M.ci[k] /= j
      <4>1. k \in 1 .. Len(T) /\ T[k][1] = i /\ M.ci[k] = T[k][2]
        BY <1>2
      <4> QED BY <1>1, <2>3, <4>1
    <3>2. Dense(M).at[<<i, j>>] = 0
      <4>1. IsMatrix(M)
        BY <1>2
      <4> QED BY <2>1, <3>1, <4>1, DenseAt
    <3> QED BY <2>3, <3>2
  <2> QED BY <2>2, <2>3
<1>5. ASSUME NEW p \in Positions(m, n)
      PROVE  Dense(M).at[p] = IF p \in S THEN w[p] + 0 ELSE 0
  <2>1. PICK i \in 0 .. m - 1, j \in 0 .. n - 1 : p = <<i, j>>
    BY DEF Positions
  <2> QED BY <1>4, <2>1
<1>6. ASSUME \A p \in S : w[p] \in Int PROVE IntValues(M)
  <2>1. \A k \in 1 .. Len(T) : T[k][3] \in Int
    BY <1>1, <1>6
  <2>2. [k \in 1 .. Len(T) |-> T[k][3]] \in Seq(Int)
    BY <1>3, <2>1, IsASeq
  <2> QED BY <1>2, <2>2 DEF IntValues
<1> QED BY <1>2, <1>5, <1>6 DEF M, T

\* bhSPARSE leaves the product.
LEMMA GpuProductIsProduct ==
  ASSUME NEW A, IsMatrix(A), IntValues(A), NEW B, IsMatrix(B), IntValues(B), A.n = B.m
  PROVE  /\ IsMatrix(GpuProduct(A, B)) /\ IntValues(GpuProduct(A, B))
         /\ GpuProduct(A, B).m = A.m /\ GpuProduct(A, B).n = B.n
         /\ Dense(GpuProduct(A, B)) = Times(Dense(A), Dense(B))
<1> DEFINE X == Times(Dense(A), Dense(B))
           m == A.m
           n == B.n
           S == {p \in Positions(X.m, X.n) : X.at[p] /= 0}
           M == FromTriples(m, n, Triples(S, X.at))
<1>1. /\ m \in Nat /\ n \in Nat /\ X = [m |-> m, n |-> n, at |-> X.at]
      /\ X.at \in [Positions(m, n) -> Int]
  BY TimesOfIntegers DEF IsMatrix
<1>2. X.m = m /\ X.n = n
  BY <1>1
<1>3. GpuProduct(A, B) = M
  BY <1>2 DEF GpuProduct
<1> HIDE DEF X, m, n
<1>4. S \subseteq Positions(m, n) /\ \A p \in Positions(m, n) : p \notin S => X.at[p] = 0
  BY <1>2
<1> HIDE DEF S
<1>5. /\ IsMatrix(M) /\ M.m = m /\ M.n = n
      /\ \A p \in Positions(m, n) : Dense(M).at[p] = IF p \in S THEN X.at[p] + 0 ELSE 0
      /\ (\A p \in S : X.at[p] \in Int) => IntValues(M)
  BY <1>1, <1>4, PositionsDenote
<1> HIDE DEF M
<1>6. IntValues(M)
  BY <1>1, <1>4, <1>5
<1>7. Dense(M) = X
  <2>1. Dense(M) = [m |-> m, n |-> n, at |-> Dense(M).at]
        /\ Dense(M).at = [p \in Positions(m, n) |-> Dense(M).at[p]]
    BY <1>5 DEF Dense
  <2>2. ASSUME NEW p \in Positions(m, n) PROVE Dense(M).at[p] = X.at[p]
    <3>1. X.at[p] \in Int
      BY <1>1
    <3> QED BY <1>4, <1>5, <3>1
  <2>3. Dense(M).at = X.at
    BY <1>1, <2>1, <2>2
  <2> QED BY <1>1, <2>1, <2>3
<1> QED BY <1>3, <1>5, <1>6, <1>7 DEF X, m, n

-----------------------------------------------------------------------------
\* Loaded matrices.

LEMMA MergedMatrix ==
  ASSUME NEW m \in Nat, NEW n \in Nat, NEW L, PositionsOf(L) \subseteq Positions(m, n),
         NEW T \in Merged(L)
  PROVE  LET M == FromTriples(m, n, T)
         IN  /\ IsMatrix(M) /\ M.m = m /\ M.n = n
             /\ \A p \in Positions(m, n) :
                  IF p \in PositionsOf(L) THEN \E x \in ValuesAt(L, p) : Dense(M).at[p] = x + 0
                                          ELSE Dense(M).at[p] = 0
             /\ (\A p \in PositionsOf(L) : ValuesAt(L, p) \subseteq Int) => IntValues(M)
<1> DEFINE S == PositionsOf(L)
           M == FromTriples(m, n, T)
<1>1. PICK w : T = Triples(S, w) /\ \A p \in S : w[p] \in ValuesAt(L, p)
  BY DEF Merged
<1> HIDE DEF S
<1>2. S \subseteq Positions(m, n)
  BY DEF S
<1>3. /\ IsMatrix(M) /\ M.m = m /\ M.n = n
      /\ \A p \in Positions(m, n) : Dense(M).at[p] = IF p \in S THEN w[p] + 0 ELSE 0
      /\ (\A p \in S : w[p] \in Int) => IntValues(M)
  <2> DEFINE N == FromTriples(m, n, Triples(S, w))
  <2>1. /\ IsMatrix(N) /\ N.m = m /\ N.n = n
        /\ \A p \in Positions(m, n) : Dense(N).at[p] = IF p \in S THEN w[p] + 0 ELSE 0
        /\ (\A p \in S : w[p] \in Int) => IntValues(N)
    BY <1>2, PositionsDenote
  <2>2. M = N
    BY <1>1
  <2> HIDE DEF M, N
  <2> QED BY <2>1, <2>2
<1> HIDE DEF M
<1> QED BY <1>1, <1>3 DEF M, S

LEMMA SomeMerged == ASSUME NEW L PROVE Merged(L) /= {}
<1> DEFINE S == PositionsOf(L)
           w == [p \in S |-> CHOOSE x \in ValuesAt(L, p) : TRUE]
<1>1. ASSUME NEW p \in S PROVE w[p] \in ValuesAt(L, p)
  <2>1. \E x : x \in ValuesAt(L, p)
    BY DEF PositionsOf, ValuesAt
  <2> QED BY <2>1
<1>2. w \in [S -> UNION {ValuesAt(L, p) : p \in S}]
  BY <1>1
<1> HIDE DEF w
<1>3. Triples(S, w) \in Merged(L)
  BY <1>1, <1>2 DEF Merged
<1> QED BY <1>3

LEMMA LesserOfTwo ==
  ASSUME NEW a \in Int, NEW b \in Int
  PROVE  (a <= b => Min({a, b}) = a) /\ (b <= a => Min({a, b}) = b)
<1>1. ASSUME NEW S, NEW x \in S, x \in Int, \A y \in S : y \in Int /\ x <= y
      PROVE  Min(S) = x
  <2>1. Min(S) \in S /\ \A y \in S : Min(S) <= y
    BY <1>1 DEF Min
  <2> DEFINE z == Min(S)
  <2>2. z \in Int /\ z <= x /\ x <= z
    BY <1>1, <2>1
  <2> HIDE DEF z
  <2>3. z = x
    BY <1>1, <2>2
  <2> QED BY <2>3 DEF z
<1> QED BY <1>1

\* Line k of a file is one for position p of the matrix.
IsLineOf(file, k, p) == p = <<file[k][1] - 1, file[k][2] - 1>>

\* The lines of a file as the program counts them; that the last one is read
\* twice adds nothing.
LEMMA ReadLines ==
  ASSUME NEW file, Len(file) \in Nat, Len(file) > 0, DOMAIN file = 1 .. Len(file)
  PROVE  /\ \A p : p \in PositionsOf(Read(file)) <=>
                     \E k \in 1 .. Len(file) : IsLineOf(file, k, p)
         /\ \A p, x : x \in ValuesAt(Read(file), p) <=>
                        \E k \in 1 .. Len(file) :
                          IsLineOf(file, k, p) /\ x = file[k][3]
<1> DEFINE l == Len(file)
           line(k) == <<file[k][1] - 1, file[k][2] - 1, file[k][3]>>
           L == Read(file)
<1>1. l \in Nat /\ l > 0
  OBVIOUS
<1>2. L = [k \in 1 .. l + 1 |-> line(Min({k, l}))]
  BY DEF Read
<1> HIDE DEF l, L
<1>3. /\ DOMAIN L = 1 .. l + 1
      /\ \A k \in 1 .. l : k \in 1 .. l + 1 /\ L[k] = line(k)
      /\ \A k \in 1 .. l + 1 : \E q \in 1 .. l : L[k] = line(q)
  <2>1. DOMAIN L = 1 .. l + 1
    BY <1>2
  <2>2. ASSUME NEW k \in 1 .. l PROVE k \in 1 .. l + 1 /\ L[k] = line(k)
    <3>1. k \in 1 .. l + 1 /\ k \in Int /\ l \in Int /\ k <= l
      BY <1>1
    <3>2. Min({k, l}) = k
      BY <3>1, LesserOfTwo
    <3> QED BY <1>2, <3>1, <3>2
  <2>3. ASSUME NEW k \in 1 .. l + 1 PROVE \E q \in 1 .. l : L[k] = line(q)
    <3>1. CASE k \in 1 .. l
      BY <2>2, <3>1
    <3>2. CASE k \notin 1 .. l
      <4>1. k \in Int /\ l \in Int /\ l <= k /\ l \in 1 .. l
        BY <1>1, <3>2
      <4>2. Min({k, l}) = l
        BY <4>1, LesserOfTwo
      <4> QED BY <1>2, <4>1, <4>2
    <3> QED BY <3>1, <3>2
  <2> QED BY <2>1, <2>2, <2>3
<1>4. ASSUME NEW p
      PROVE  p \in PositionsOf(L) <=> \E k \in 1 .. l : p = <<line(k)[1], line(k)[2]>>
  <2>1. p \in PositionsOf(L) <=> \E k \in 1 .. l + 1 : p = <<L[k][1], L[k][2]>>
    BY <1>3 DEF PositionsOf
  <2> HIDE DEF line
  <2> QED BY <1>3, <2>1
<1>5. ASSUME NEW p, NEW x
      PROVE  x \in ValuesAt(L, p) <=>
               \E k \in 1 .. l : p = <<line(k)[1], line(k)[2]>> /\ x = line(k)[3]
  <2>1. x \in ValuesAt(L, p) <=>
          \E k \in 1 .. l + 1 : p = <<L[k][1], L[k][2]>> /\ x = L[k][3]
    BY <1>3 DEF ValuesAt
  <2> HIDE DEF line
  <2> QED BY <1>3, <2>1
<1>6. \A k : line(k)[1] = file[k][1] - 1 /\ line(k)[2] = file[k][2] - 1
             /\ line(k)[3] = file[k][3]
  OBVIOUS
<1> HIDE DEF line
<1> QED BY <1>4, <1>5, <1>6 DEF l, L, IsLineOf

\* A loaded matrix is one the file may denote.
LEMMA LoadedMatrix ==
  ASSUME NEW m \in Nat, NEW n \in Nat, NEW file, Len(file) > 0,
         file \in Seq((1 .. m) \X (1 .. n) \X Int), NEW M \in Loaded(m, n, file)
  PROVE  /\ IsMatrix(M) /\ IntValues(M) /\ M.m = m /\ M.n = n
         /\ Dense(M) \in Denoted(m, n, file)
<1> DEFINE L == Read(file)
           l == Len(file)
<1>1. l \in Nat /\ l > 0 /\ DOMAIN file = 1 .. l
  BY LenProperties
<1>2. ASSUME NEW k \in 1 .. l
      PROVE  file[k][1] \in 1 .. m /\ file[k][2] \in 1 .. n /\ file[k][3] \in Int
  <2>1. file[k] \in (1 .. m) \X (1 .. n) \X Int
    <3> DEFINE Line == (1 .. m) \X (1 .. n) \X Int
    <3> HIDE DEF Line
    <3>1. file \in Seq(Line)
      BY DEF Line
    <3>2. file[k] \in Line
      BY <3>1, ElementOfSeq
    <3> QED BY <3>2 DEF Line
  <2> QED BY <2>1
<1>3. /\ \A p : p \in PositionsOf(L) <=>
                  \E k \in 1 .. l : IsLineOf(file, k, p)
      /\ \A p, x : x \in ValuesAt(L, p) <=>
                     \E k \in 1 .. l : IsLineOf(file, k, p) /\ x = file[k][3]
  BY <1>1, ReadLines
<1>4. PICK T \in Merged(L) : M = FromTriples(m, n, T)
  BY DEF Loaded
<1> HIDE DEF L, l
<1>5. PositionsOf(L) \subseteq Positions(m, n)
  <2> SUFFICES ASSUME NEW p \in PositionsOf(L) PROVE p \in Positions(m, n)
    OBVIOUS
  <2>1. PICK k \in 1 .. l : p = <<file[k][1] - 1, file[k][2] - 1>>
    BY <1>3 DEF IsLineOf
  <2>2. file[k][1] - 1 \in 0 .. m - 1 /\ file[k][2] - 1 \in 0 .. n - 1
    <3> DEFINE a == file[k][1]
               b == file[k][2]
    <3>1. a \in 1 .. m /\ b \in 1 .. n
      BY <1>2
    <3> HIDE DEF a, b
    <3>2. a - 1 \in 0 .. m - 1 /\ b - 1 \in 0 .. n - 1
      BY <3>1
    <3> QED BY <3>2 DEF a, b
  <2> QED BY <2>1, <2>2 DEF Positions
<1>6. \A p \in PositionsOf(L) : ValuesAt(L, p) \subseteq Int
  <2> SUFFICES ASSUME NEW p, NEW x \in ValuesAt(L, p) PROVE x \in Int
    OBVIOUS
  <2>1. PICK k \in 1 .. l : x = file[k][3]
    BY <1>3
  <2> QED BY <1>2, <2>1
<1>7. /\ IsMatrix(M) /\ M.m = m /\ M.n = n /\ IntValues(M)
      /\ \A p \in Positions(m, n) :
           IF p \in PositionsOf(L) THEN \E x \in ValuesAt(L, p) : Dense(M).at[p] = x + 0
                                   ELSE Dense(M).at[p] = 0
  BY <1>4, <1>5, <1>6, MergedMatrix
<1> DEFINE y == Dense(M).at
           values == {0} \cup {file[k][3] : k \in DOMAIN file}
<1>8. /\ Dense(M) = [m |-> m, n |-> n, at |-> y]
      /\ y = [p \in Positions(m, n) |-> y[p]]
  BY <1>7 DEF Dense
<1> HIDE DEF y
<1>9. ASSUME NEW p \in Positions(m, n)
      PROVE  LET line == <<p[1] + 1, p[2] + 1>>
             IN  /\ IF line \in PositionsOf(file) THEN y[p] \in ValuesAt(file, line)
                                                  ELSE y[p] = 0
                 /\ y[p] \in values
  <2>1. PICK i \in 0 .. m - 1, j \in 0 .. n - 1 : p = <<i, j>>
    BY DEF Positions
  <2> DEFINE line == <<i + 1, j + 1>>
  <2>2. ASSUME NEW k \in 1 .. l
        PROVE  IsLineOf(file, k, p) <=> line = <<file[k][1], file[k][2]>>
    <3> DEFINE a == file[k][1]
               b == file[k][2]
    <3>1. a \in Int /\ b \in Int /\ i \in Int /\ j \in Int
      BY <1>2
    <3> HIDE DEF a, b
    <3>2. (i = a - 1 <=> i + 1 = a) /\ (j = b - 1 <=> j + 1 = b)
      BY <3>1
    <3>3. p = <<a - 1, b - 1>> <=> line = <<a, b>>
      BY <2>1, <3>2
    <3> QED BY <3>3 DEF a, b, IsLineOf
  <2>3. /\ line \in PositionsOf(file) <=> \E k \in 1 .. l : line = <<file[k][1], file[k][2]>>
        /\ \A x : x \in ValuesAt(file, line) <=>
                    \E k \in 1 .. l : line = <<file[k][1], file[k][2]>> /\ x = file[k][3]
    BY <1>1 DEF PositionsOf, ValuesAt
  <2>4. <<p[1] + 1, p[2] + 1>> = line
    BY <2>1
  <2> HIDE DEF line
  <2>5. /\ line \in PositionsOf(file) <=> p \in PositionsOf(L)
        /\ \A x : x \in ValuesAt(file, line) <=> x \in ValuesAt(L, p)
    <3>1. line \in PositionsOf(file) <=> p \in PositionsOf(L)
      BY <1>3, <2>2, <2>3
    <3>2. ASSUME NEW x PROVE x \in ValuesAt(file, line) <=> x \in ValuesAt(L, p)
      <4>1. x \in ValuesAt(L, p) <=>
              \E k \in 1 .. l : IsLineOf(file, k, p) /\ x = file[k][3]
        BY <1>3
      <4>2. x \in ValuesAt(file, line) <=>
              \E k \in 1 .. l : line = <<file[k][1], file[k][2]>> /\ x = file[k][3]
        BY <2>3
      <4> QED BY <2>2, <4>1, <4>2
    <3> QED BY <3>1, <3>2
  <2>6. CASE p \in PositionsOf(L)
    <3>1. PICK x \in ValuesAt(L, p) : y[p] = x + 0
      BY <1>7, <2>6 DEF y
    <3>2. x \in Int /\ y[p] = x
      BY <1>6, <2>6, <3>1
    <3>3. x \in values
      <4>1. PICK k \in 1 .. l : x = file[k][3]
        BY <1>3, <3>1
      <4> QED BY <1>1, <4>1
    <3> QED BY <2>4, <2>5, <2>6, <3>1, <3>2, <3>3
  <2>7. CASE p \notin PositionsOf(L)
    <3>1. y[p] = 0
      BY <1>7, <2>7 DEF y
    <3> QED BY <2>4, <2>5, <2>7, <3>1
  <2> QED BY <2>6, <2>7
<1>10. y \in [Positions(m, n) -> values]
  BY <1>8, <1>9
<1>11. \A p \in Positions(m, n) :
         LET line == <<p[1] + 1, p[2] + 1>>
         IN  IF line \in PositionsOf(file) THEN y[p] \in ValuesAt(file, line) ELSE y[p] = 0
  BY <1>9
<1> HIDE DEF values
<1>12. Dense(M) \in Denoted(m, n, file)
  BY <1>8, <1>10, <1>11 DEF Denoted, values
<1> QED BY <1>7, <1>12

-----------------------------------------------------------------------------
\* Saving a matrix and loading it again.

LEMMA RowOfSlot ==
  ASSUME NEW M, IsMatrix(M), NEW s \in 1 .. Len(M.ci)
  PROVE  /\ RowOf(M, s) \in 0 .. M.m - 1
         /\ \A i \in 0 .. M.m - 1 : s \in Slots(M, i) <=> RowOf(M, s) = i
<1> DEFINE m == M.m
           rp == M.rp
<1>1. /\ m \in Nat /\ Len(rp) = m + 1 /\ Len(M.ci) = rp[m + 1] /\ rp[1] = 0
      /\ \A r \in 1 .. m : rp[r] <= rp[r + 1]
      /\ \A i \in 0 .. m - 1 : Slots(M, i) = rp[i + 1] + 1 .. rp[i + 2]
      /\ RowOf(M, s) = CHOOSE i \in 0 .. m - 1 : s \in Slots(M, i)
  BY DEF IsMatrix, IsCompressed, Slots, RowOf
<1>2. \A r \in 1 .. m + 1 : rp[r] \in Nat
  BY <1>1, ElementOfSeq DEF IsMatrix
<1> HIDE DEF m, rp
<1>3. s \in 1 .. rp[m + 1] /\ s \in Int
  <2>1. Len(M.ci) \in Nat
    BY LenProperties DEF IsMatrix
  <2> QED BY <1>1, <2>1
<1>4. ASSUME NEW i \in 0 .. m - 1
      PROVE  /\ i + 1 \in 1 .. m
             /\ s \in Slots(M, i) <=> rp[i + 1] < s /\ s <= rp[(i + 1) + 1]
  <2>1. i + 1 \in 1 .. m /\ i + 1 \in 1 .. m + 1 /\ i + 2 \in 1 .. m + 1 /\ (i + 1) + 1 = i + 2
    BY <1>1
  <2> DEFINE b == rp[i + 1]
             e == rp[i + 2]
  <2>2. b \in Nat /\ e \in Nat /\ Slots(M, i) = b + 1 .. e
    BY <1>1, <1>2, <2>1
  <2> HIDE DEF b, e
  <2>3. s \in Slots(M, i) <=> b < s /\ s <= e
    BY <1>3, <2>2
  <2> QED BY <2>1, <2>3 DEF b, e
<1>5. /\ \E r \in 1 .. m : rp[r] < s /\ s <= rp[r + 1]
      /\ \A q, r \in 1 .. m :
           rp[q] < s /\ s <= rp[q + 1] /\ rp[r] < s /\ s <= rp[r + 1] => q = r
  BY <1>1, <1>2, <1>3, PieceAt
<1>6. \E i \in 0 .. m - 1 : s \in Slots(M, i)
  <2>1. PICK r \in 1 .. m : rp[r] < s /\ s <= rp[r + 1]
    BY <1>5
  <2>2. r - 1 \in 0 .. m - 1 /\ (r - 1) + 1 = r
    BY <1>1
  <2> QED BY <1>4, <2>1, <2>2
<1>7. ASSUME NEW i \in 0 .. m - 1, NEW j \in 0 .. m - 1, s \in Slots(M, i), s \in Slots(M, j)
      PROVE  i = j
  <2>1. i + 1 = j + 1
    BY <1>4, <1>5, <1>7
  <2> QED BY <1>1, <2>1
<1>8. RowOf(M, s) \in 0 .. m - 1 /\ s \in Slots(M, RowOf(M, s))
  BY <1>1, <1>6
<1> QED BY <1>7, <1>8 DEF m

\* A matrix with a nonzero, saved and loaded, is the matrix with the values printed.
LEMMA ReloadedMatrix ==
  ASSUME NEW X, IsMatrix(X), IntValues(X), X.ci /= <<>>,
         X = [m |-> X.m, n |-> X.n, rp |-> X.rp, ci |-> X.ci, v |-> X.v], NEW digits
  PROVE  LET printed == [X EXCEPT !.v = [s \in DOMAIN @ |-> Printed(@[s], digits)]]
         IN  {Dense(Y) : Y \in Loaded(X.m, X.n, ToLines(X, digits))} = {Dense(printed)}
<1> DEFINE m == X.m
           n == X.n
           l == Len(X.ci)
           v == [s \in 1 .. l |-> Printed(X.v[s], digits)]
           printed == [X EXCEPT !.v = [s \in DOMAIN @ |-> Printed(@[s], digits)]]
           lines == ToLines(X, digits)
           L == Read(lines)
<1>1. /\ m \in Nat /\ n \in Nat /\ l \in Nat /\ l > 0 /\ DOMAIN X.ci = 1 .. l
      /\ DOMAIN X.v = 1 .. l
  <2>1. /\ m \in Nat /\ n \in Nat /\ X.ci \in Seq(Nat) /\ X.v \in Seq(Int) /\ Len(X.v) = l
    BY DEF IsMatrix, IsCompressed, IntValues
  <2> QED BY <2>1, LenProperties, EmptySeq
<1>2. printed = [m |-> m, n |-> n, rp |-> X.rp, ci |-> X.ci, v |-> v]
  BY <1>1
<1>3. IsMatrix(printed) /\ \A i : Slots(printed, i) = Slots(X, i)
  <2>1. v \in Seq({v[s] : s \in 1 .. l})
    BY <1>1, IsASeq
  <2>2. Len(v) = l
    BY <1>1, <2>1, LenProperties
  <2>3. printed.m = X.m /\ printed.n = X.n /\ printed.rp = X.rp /\ printed.ci = X.ci
        /\ printed.v = v
    BY <1>2
  <2> HIDE DEF printed, v
  <2>4. \A i : Slots(printed, i) = Slots(X, i)
    BY <2>3 DEF Slots
  <2>5. Len(printed.v) = Len(printed.ci) /\ Len(X.v) = Len(X.ci)
    BY <2>2, <2>3 DEF IsMatrix, IsCompressed
  <2> QED BY <2>3, <2>4, <2>5 DEF IsMatrix, IsCompressed
<1>4. /\ lines = [s \in 1 .. l |-> <<RowOf(X, s) + 1, X.ci[s] + 1, v[s]>>]
      /\ DOMAIN lines = 1 .. l
  BY <1>1 DEF ToLines
<1>5. Len(lines) = l
  <2>1. lines \in Seq({lines[s] : s \in 1 .. l})
    <3> HIDE DEF lines, l
    <3> QED BY <1>1, <1>4, IsASeq
  <2> HIDE DEF lines, l
  <2> QED BY <1>1, <1>4, <2>1, LenProperties
<1> HIDE DEF lines, v, printed, l, L, m, n
<1>6. ASSUME NEW s \in 1 .. l
      PROVE  /\ RowOf(X, s) \in 0 .. m - 1 /\ X.ci[s] \in 0 .. n - 1
             /\ \A i \in 0 .. m - 1 : s \in Slots(X, i) <=> RowOf(X, s) = i
             /\ lines[s][3] = v[s]
             /\ \A p : IsLineOf(lines, s, p) <=> p = <<RowOf(X, s), X.ci[s]>>
  <2>1. /\ RowOf(X, s) \in 0 .. m - 1
        /\ \A i \in 0 .. m - 1 : s \in Slots(X, i) <=> RowOf(X, s) = i
    BY RowOfSlot DEF l, m
  <2>2. X.ci[s] \in 0 .. n - 1
    BY <2>1, SlotsOfRow DEF m, n
  <2> DEFINE i == RowOf(X, s)
             j == X.ci[s]
  <2>3. lines[s] = <<i + 1, j + 1, v[s]>>
    BY <1>4
  <2>4. i \in Int /\ j \in Int
    BY <2>1, <2>2
  <2> HIDE DEF i, j
  <2>5. lines[s][3] = v[s] /\ lines[s][1] - 1 = i /\ lines[s][2] - 1 = j
    BY <2>3, <2>4
  <2>6. \A p : IsLineOf(lines, s, p) <=> p = <<i, j>>
    BY <2>5 DEF IsLineOf
  <2> QED BY <2>1, <2>2, <2>5, <2>6 DEF i, j
<1>7. /\ \A p : p \in PositionsOf(L) <=> \E s \in 1 .. l : IsLineOf(lines, s, p)
      /\ \A p, x : x \in ValuesAt(L, p) <=>
                     \E s \in 1 .. l : IsLineOf(lines, s, p) /\ x = lines[s][3]
  <2>1. Len(lines) \in Nat /\ Len(lines) > 0 /\ DOMAIN lines = 1 .. Len(lines)
    BY <1>1, <1>4, <1>5
  <2> QED BY <1>5, <2>1, ReadLines DEF IsLineOf, L
<1>8. PositionsOf(L) \subseteq Positions(m, n)
  BY <1>6, <1>7 DEF Positions
<1>9. printed.m = m /\ printed.n = n /\ printed.ci = X.ci /\ printed.v = v
  BY <1>2
<1>10. ASSUME NEW T \in Merged(L) PROVE Dense(FromTriples(m, n, T)) = Dense(printed)
  <2> DEFINE Y == FromTriples(m, n, T)
  <2>1. /\ IsMatrix(Y) /\ Y.m = m /\ Y.n = n
        /\ \A p \in Positions(m, n) :
             IF p \in PositionsOf(L) THEN \E x \in ValuesAt(L, p) : Dense(Y).at[p] = x + 0
                                     ELSE Dense(Y).at[p] = 0
    BY <1>1, <1>8, MergedMatrix
  <2> HIDE DEF Y
  <2>2. ASSUME NEW i \in 0 .. m - 1, NEW j \in 0 .. n - 1
        PROVE  Dense(Y).at[<<i, j>>] = Dense(printed).at[<<i, j>>]
    <3> DEFINE p == <<i, j>>
    <3>1. p \in Positions(m, n) /\ i \in 0 .. printed.m - 1 /\ j \in 0 .. printed.n - 1
      BY <1>9 DEF Positions
    <3>2. CASE p \in PositionsOf(L)
      <4>1. PICK x \in ValuesAt(L, p) : Dense(Y).at[p] = x + 0
        BY <2>1, <3>1, <3>2
      <4>2. PICK s \in 1 .. l : IsLineOf(lines, s, p) /\ x = lines[s][3]
        BY <1>7
      <4>3. RowOf(X, s) = i /\ X.ci[s] = j /\ x = v[s]
        BY <1>6, <4>2
      <4>4. s \in Slots(printed, i) /\ printed.ci[s] = j /\ printed.v[s] = x
        BY <1>3, <1>6, <1>9, <4>3
      <4>5. Dense(printed).at[<<i, j>>] = printed.v[s] + 0
        BY <1>3, <3>1, <4>4, DenseAt
      <4> QED BY <4>1, <4>4, <4>5
    <3>3. CASE p \notin PositionsOf(L)
      <4>1. ASSUME NEW s \in Slots(printed, i) PROVE printed.ci[s] /= j
        <5>1. s \in 1 .. l /\ s \in Slots(X, i)
          BY <1>3, <3>1, SlotsOfRow, <1>9 DEF l
        <5>2. RowOf(X, s) = i
          BY <1>6, <5>1
        <5>3. X.ci[s] /= j
          BY <1>6, <1>7, <3>3, <5>1, <5>2
        <5> QED BY <1>9, <5>3
      <4>2. Dense(printed).at[<<i, j>>] = 0
        BY <1>3, <3>1, <4>1, DenseAt
      <4> QED BY <2>1, <3>1, <3>3, <4>2
    <3> QED BY <3>2, <3>3
  <2>3. /\ Dense(Y) = [m |-> m, n |-> n, at |-> Dense(Y).at]
        /\ Dense(Y).at = [p \in Positions(m, n) |-> Dense(Y).at[p]]
    BY <2>1 DEF Dense
  <2>4. /\ Dense(printed) = [m |-> m, n |-> n, at |-> Dense(printed).at]
        /\ Dense(printed).at = [p \in Positions(m, n) |-> Dense(printed).at[p]]
    BY <1>9 DEF Dense
  <2>5. \A p \in Positions(m, n) : Dense(Y).at[p] = Dense(printed).at[p]
    BY <2>2 DEF Positions
  <2>6. Dense(Y).at = Dense(printed).at
    BY <2>3, <2>4, <2>5
  <2> QED BY <2>3, <2>4, <2>6 DEF Y
<1>11. Loaded(m, n, lines) = {FromTriples(m, n, T) : T \in Merged(L)}
  BY DEF Loaded, L
<1>12. PICK T : T \in Merged(L)
  BY SomeMerged
<1>13. {Dense(Y) : Y \in Loaded(m, n, lines)} = {Dense(printed)}
  <2>1. \A Y \in Loaded(m, n, lines) : Dense(Y) = Dense(printed)
    BY <1>10, <1>11
  <2>2. FromTriples(m, n, T) \in Loaded(m, n, lines)
    BY <1>11, <1>12
  <2> QED BY <2>1, <2>2
<1> QED BY <1>13 DEF m, n, lines, printed

-----------------------------------------------------------------------------
\* GRS vectors.

VectorType == [mode : {0, 1}, size : Nat, cpu : Seq(Int), gpu : Seq(Int)]

\* The vectors neither of whose copies is smaller or larger than their size.
Vectors == {x \in VectorType : Len(x.cpu) = x.size /\ Len(x.gpu) = x.size}

\* What a vector holds: its valid copy.
Valid(x) == IF x.mode = 1 THEN x.gpu ELSE x.cpu

LEMMA FreshSequence ==
  ASSUME NEW size \in Nat
  PROVE  Fresh(size) \in Seq(Int) /\ Len(Fresh(size)) = size
<1>1. Garbage \in Int
  BY SpGEMMComponentAssumption
<1>2. Fresh(size) \in [1 .. size -> Int]
  BY <1>1 DEF Fresh
<1> HIDE DEF Fresh
<1>3. Fresh(size) \in Seq(Int)
  BY <1>2, IsASeq
<1> QED BY <1>2, <1>3, LenProperties

LEMMA NewVector ==
  ASSUME NEW data \in Seq(Int)
  PROVE  Vector(data) \in Vectors /\ Valid(Vector(data)) = data
<1>1. Len(data) \in Nat
  BY LenProperties
<1>2. Fresh(Len(data)) \in Seq(Int) /\ Len(Fresh(Len(data))) = Len(data)
  BY <1>1, FreshSequence
<1> QED BY <1>1, <1>2 DEF Vector, Vectors, VectorType, Valid

LEMMA VectorRead ==
  ASSUME NEW x \in Vectors
  PROVE  /\ ReadOnCpu(x) \in Vectors /\ ReadOnGpu(x) \in Vectors
         /\ Valid(ReadOnCpu(x)) = Valid(x) /\ Valid(ReadOnGpu(x)) = Valid(x)
         /\ ReadOnCpu(x).mode = 0 /\ ReadOnCpu(x).cpu = Valid(x)
         /\ ReadOnGpu(x).mode = 1 /\ ReadOnGpu(x).gpu = Valid(x)
         /\ x.mode = 0 => x.cpu = Valid(x)
<1>1. x \in VectorType /\ Len(x.cpu) = x.size /\ Len(x.gpu) = x.size
  BY DEF Vectors
<1>2. CASE x.mode = 0
  <2>1. ReadOnCpu(x) = x
    BY <1>2 DEF ReadOnCpu
  <2>2. ReadOnGpu(x) = [mode |-> 1, size |-> x.size, cpu |-> x.cpu, gpu |-> x.cpu]
    BY <1>1, <1>2 DEF ReadOnGpu, VectorType
  <2> QED BY <1>1, <1>2, <2>1, <2>2 DEF Vectors, VectorType, Valid
<1>3. CASE x.mode = 1
  <2>1. ReadOnGpu(x) = x
    BY <1>3 DEF ReadOnGpu
  <2>2. ReadOnCpu(x) = [mode |-> 0, size |-> x.size, cpu |-> x.gpu, gpu |-> x.gpu]
    BY <1>1, <1>3 DEF ReadOnCpu, VectorType
  <2> QED BY <1>1, <1>3, <2>1, <2>2 DEF Vectors, VectorType, Valid
<1> QED BY <1>1, <1>2, <1>3 DEF VectorType

LEMMA VectorReplaced ==
  ASSUME NEW x \in Vectors, NEW data \in Seq(Int)
  PROVE  /\ ReplaceOnCpu(x, data) \in Vectors /\ Valid(ReplaceOnCpu(x, data)) = data
         /\ ReplaceOnGpu(x, data) \in Vectors /\ Valid(ReplaceOnGpu(x, data)) = data
<1>1. Len(data) \in Nat
  BY LenProperties
<1>2. Fresh(Len(data)) \in Seq(Int) /\ Len(Fresh(Len(data))) = Len(data)
  BY <1>1, FreshSequence
<1>3. x \in VectorType /\ Len(x.cpu) = x.size /\ Len(x.gpu) = x.size
  BY DEF Vectors
<1>4. x.cpu \in Seq(Int) /\ x.gpu \in Seq(Int)
  BY <1>3 DEF VectorType
<1> DEFINE gpu == IF x.size /= Len(data) THEN Fresh(Len(data)) ELSE x.gpu
           cpu == IF x.size /= Len(data) THEN Fresh(Len(data)) ELSE x.cpu
<1>5. gpu \in Seq(Int) /\ Len(gpu) = Len(data) /\ cpu \in Seq(Int) /\ Len(cpu) = Len(data)
  BY <1>2, <1>3, <1>4
<1>6. /\ ReplaceOnCpu(x, data) = [mode |-> 0, size |-> Len(data), cpu |-> data, gpu |-> gpu]
      /\ ReplaceOnGpu(x, data) = [mode |-> 1, size |-> Len(data), gpu |-> data, cpu |-> cpu]
  BY DEF ReplaceOnCpu, ReplaceOnGpu
<1> HIDE DEF gpu, cpu
<1> QED BY <1>1, <1>5, <1>6 DEF Vectors, VectorType, Valid

-----------------------------------------------------------------------------
\* What the matrices of the component hold.

\* A matrix of dimensions d and the valid copies of the vectors x.
HeldIn(x, d) ==
  [m |-> d.m, n |-> d.n, rp |-> Valid(x.rp), ci |-> Valid(x.ci), v |-> Valid(x.v)]

Held(M) == HeldIn(vec[M], dims[M])

VecType == vec \in [Matrix -> [Field -> Vectors]]

LEMMA MatricesRead ==
  ASSUME VecType, NEW Ms, NEW side \in {"cpu", "gpu"}
  PROVE  LET read == ReadMatrices(Ms, side)
         IN  /\ read \in [Matrix -> [Field -> Vectors]]
             /\ \A M \in Matrix : \A d : HeldIn(read[M], d) = HeldIn(vec[M], d)
             /\ \A M \in Matrix : M \in Ms => Stored(read, M, side) = Held(M)
             /\ \A M \in Matrix, f \in Field :
                  M \in Ms => read[M][f].mode = IF side = "cpu" THEN 0 ELSE 1
<1> DEFINE read == ReadMatrices(Ms, side)
           Read1(x) == IF side = "cpu" THEN ReadOnCpu(x) ELSE ReadOnGpu(x)
<1>1. read = [M \in Matrix |-> IF M \in Ms THEN [f \in Field |-> Read1(vec[M][f])] ELSE vec[M]]
  BY DEF ReadMatrices
<1>2. ASSUME NEW x \in Vectors
      PROVE  /\ Read1(x) \in Vectors /\ Valid(Read1(x)) = Valid(x) /\ Read1(x)[side] = Valid(x)
             /\ Read1(x).mode = IF side = "cpu" THEN 0 ELSE 1
  <2>1. CASE side = "cpu"
    BY <2>1, VectorRead
  <2>2. CASE side = "gpu"
    BY <2>2, VectorRead
  <2> QED BY <2>1, <2>2
<1>3. \A M \in Matrix : vec[M] \in [Field -> Vectors]
  BY DEF VecType
<1> HIDE DEF read, Read1
<1>4. ASSUME NEW M \in Matrix
      PROVE  /\ read[M] \in [Field -> Vectors]
             /\ \A f \in Field : Valid(read[M][f]) = Valid(vec[M][f])
             /\ M \in Ms => \A f \in Field :
                  /\ read[M][f][side] = Valid(vec[M][f])
                  /\ read[M][f].mode = IF side = "cpu" THEN 0 ELSE 1
  <2>1. \A f \in Field : vec[M][f] \in Vectors
    BY <1>3
  <2>2. CASE M \in Ms
    <3>1. read[M] = [f \in Field |-> Read1(vec[M][f])]
      BY <1>1, <2>2
    <3> QED BY <1>2, <2>1, <3>1
  <2>3. CASE M \notin Ms
    <3>1. read[M] = vec[M]
      BY <1>1, <2>3
    <3> QED BY <1>3, <2>3, <3>1
  <2> QED BY <2>2, <2>3
<1>5. read \in [Matrix -> [Field -> Vectors]]
  BY <1>1, <1>4
<1>6. "rp" \in Field /\ "ci" \in Field /\ "v" \in Field
  BY DEF Field
<1>7. ASSUME NEW M \in Matrix, NEW d PROVE HeldIn(read[M], d) = HeldIn(vec[M], d)
  BY <1>4, <1>6 DEF HeldIn
<1>8. ASSUME NEW M \in Matrix, M \in Ms PROVE Stored(read, M, side) = Held(M)
  BY <1>4, <1>6, <1>8 DEF Held, HeldIn, Stored
<1>9. \A M \in Matrix, f \in Field :
        M \in Ms => read[M][f].mode = IF side = "cpu" THEN 0 ELSE 1
  BY <1>4
<1> QED BY <1>5, <1>7, <1>8, <1>9 DEF read

LEMMA SavedIsHeld ==
  ASSUME VecType, NEW M \in Matrix
  PROVE  Saved(M) = Held(M)
BY MatricesRead DEF Saved

LEMMA SavedAreHeld == VecType => \A M \in Matrix : Saved(M) = Held(M)
BY SavedIsHeld

LEMMA SavedAreHeldNext == VecType' => (\A M \in Matrix : Saved(M) = Held(M))'
BY SavedAreHeld, PTL

-----------------------------------------------------------------------------
\* The inductive invariant.

DimsType == dims \in [Matrix -> [m : Nat, n : Nat]]
CallType == call \in [a : Matrix, b : Matrix, c : Matrix] /\ pc \in {"idle", "row", "copy", "undefined"}

\* What was loaded or computed and not lost is a matrix, on the side of the
\* valid copies.
HasMatrices ==
  \A M \in Matrix \ lost : dims[M].m > 0 => IsMatrix(Held(M)) /\ IntValues(Held(M))

ProductOf(a, b) == Times(Dense(Held(a)), Dense(Held(b)))
Product == ProductOf(call.a, call.b)

\* A sequential call works on operands whose valid copies are those of the CPU.
OperandsRead ==
  pc \in {"row", "copy"} =>
    /\ Multiplicable(call.a, call.b)
    /\ \A M \in {call.a, call.b} : Stored(vec, M, "cpu") = Held(M)

\* The rows computed so far are the first rows of the product.
RowsComputed ==
  pc = "row" =>
    /\ Clean(SPA, dims[call.b].n)
    /\ Ci \in Seq(Seq(ProductType(Product.n))) /\ Len(Ci) <= Product.m
    /\ \A r \in 1 .. Len(Ci) : IsRowOf(Ci[r], Product, r - 1)

\* The rows not in Ci any more are in the result, at the row pointers of all.
RowsCopied ==
  pc = "copy" =>
    /\ C = [m |-> C.m, n |-> C.n, rp |-> C.rp, ci |-> C.ci, v |-> C.v] /\ C.n = Product.n
    /\ \E rows :
         /\ AreRowsOf(rows, Product)
         /\ Ci \in Seq(Seq(ProductType(Product.n))) /\ Len(Ci) <= Len(rows)
         /\ \A r \in 1 .. Len(Ci) : Ci[r] = rows[r]
         /\ HoldsRows(C, rows, Len(Ci) + 1)

IInv ==
  /\ VecType /\ DimsType /\ CallType /\ (pc = "idle" => Ci = <<>>)
  /\ HasMatrices /\ OperandsRead /\ RowsComputed /\ RowsCopied

LEMMA MatrixArrays ==
  ASSUME NEW M, IsMatrix(M), IntValues(M)
  PROVE  M.rp \in Seq(Int) /\ M.ci \in Seq(Int) /\ M.v \in Seq(Int)
<1>1. \A s : s \in Seq(Nat) => s \in Seq(Int)
  <2> TAKE s
  <2> HAVE s \in Seq(Nat)
  <2>1. Len(s) \in Nat /\ s \in [1 .. Len(s) -> Nat]
    BY LenProperties
  <2>2. s \in [1 .. Len(s) -> Int]
    BY <2>1
  <2> QED BY <2>1, <2>2, IsASeq
<1> QED BY <1>1 DEF IsMatrix, IntValues

LEMMA TypeOfProduct ==
  ASSUME DimsType, HasMatrices, NEW a \in Matrix, NEW b \in Matrix, Multiplicable(a, b)
  PROVE  /\ IsMatrix(Held(a)) /\ IntValues(Held(a)) /\ IsMatrix(Held(b)) /\ IntValues(Held(b))
         /\ Held(a).m = dims[a].m /\ Held(a).n = dims[a].n
         /\ Held(b).m = dims[b].m /\ Held(b).n = dims[b].n /\ Held(a).n = Held(b).m
         /\ ProductOf(a, b).m = dims[a].m /\ ProductOf(a, b).n = dims[b].n
         /\ ProductOf(a, b).m \in Nat \ {0} /\ ProductOf(a, b).n \in Nat
<1>1. /\ Held(a).m = dims[a].m /\ Held(a).n = dims[a].n
      /\ Held(b).m = dims[b].m /\ Held(b).n = dims[b].n
  BY DEF Held, HeldIn
<1>2. ProductOf(a, b).m = Held(a).m /\ ProductOf(a, b).n = Held(b).n
  BY DEF ProductOf, Times, Dense
<1>3. /\ IsMatrix(Held(a)) /\ IntValues(Held(a)) /\ IsMatrix(Held(b)) /\ IntValues(Held(b))
      /\ dims[a].n = dims[b].m /\ dims[a].m > 0
  BY DEF HasMatrices, Multiplicable
<1>4. dims[a].m \in Nat /\ dims[b].n \in Nat
  BY DEF DimsType
<1> QED BY <1>1, <1>2, <1>3, <1>4

\* The arrays of a matrix put in place of those of another, on either side.
LEMMA ArraysReplaced ==
  ASSUME NEW x \in [Field -> Vectors], NEW P, IsMatrix(P), IntValues(P)
  PROVE  LET cpu == [f \in Field |-> ReplaceOnCpu(x[f], P[f])]
             gpu == [f \in Field |-> ReplaceOnGpu(x[f], P[f])]
         IN  /\ cpu \in [Field -> Vectors] /\ \A f \in Field : Valid(cpu[f]) = P[f]
             /\ gpu \in [Field -> Vectors] /\ \A f \in Field : Valid(gpu[f]) = P[f]
<1>1. \A f \in Field : P[f] \in Seq(Int)
  BY MatrixArrays DEF Field
<1>2. \A f \in Field : x[f] \in Vectors
  OBVIOUS
<1> QED BY <1>1, <1>2, VectorReplaced

\* The step puts P in the output c, its arrays in the vectors x, once the vectors
\* are read; P is a matrix, unless entries are lost.
PutsIn(c, P, x, read) ==
  /\ \/ IsMatrix(P) /\ IntValues(P) /\ lost' = lost \ {c}
     \/ P.m \in Nat /\ P.n \in Nat /\ lost' = lost \cup {c}
  /\ read \in [Matrix -> [Field -> Vectors]]
  /\ \A M \in Matrix : \A d : HeldIn(read[M], d) = HeldIn(vec[M], d)
  /\ P = [m |-> P.m, n |-> P.n, rp |-> P.rp, ci |-> P.ci, v |-> P.v]
  /\ x \in [Field -> Vectors] /\ \A f \in Field : Valid(x[f]) = P[f]
  /\ vec' = [read EXCEPT ![c] = x]
  /\ dims' = [dims EXCEPT ![c] = [m |-> P.m, n |-> P.n]]

LEMMA OutputSet ==
  ASSUME DimsType, HasMatrices, NEW c \in Matrix, NEW P, NEW x, NEW read, PutsIn(c, P, x, read)
  PROVE  /\ VecType' /\ DimsType' /\ HasMatrices'
         /\ \A M \in Matrix : Held(M)' = IF M = c THEN P ELSE Held(M)
<1> USE DEF PutsIn
<1> DEFINE d == [m |-> P.m, n |-> P.n]
<1>1. x \in [Field -> Vectors] /\ HeldIn(x, d) = P
  <2>1. Valid(x.rp) = P.rp /\ Valid(x.ci) = P.ci /\ Valid(x.v) = P.v
    BY DEF Field
  <2> QED BY <2>1 DEF HeldIn
<1>2. VecType'
  BY <1>1 DEF VecType
<1>3. DimsType'
  <2>1. d \in [m : Nat, n : Nat]
    BY DEF IsMatrix
  <2> HIDE DEF d
  <2>2. dims' = [dims EXCEPT ![c] = d]
    BY DEF d
  <2> QED BY <2>1, <2>2 DEF DimsType
<1>4. ASSUME NEW M \in Matrix PROVE Held(M)' = IF M = c THEN P ELSE Held(M)
  <2>1. Held(M)' = HeldIn(vec'[M], dims'[M])
    BY DEF Held
  <2>2. CASE M = c
    <3>1. vec'[M] = x /\ dims'[M] = d
      BY <2>2 DEF DimsType
    <3> QED BY <1>1, <2>1, <2>2, <3>1
  <2>3. CASE M /= c
    <3>1. vec'[M] = read[M] /\ dims'[M] = dims[M]
      BY <2>3 DEF DimsType
    <3> QED BY <2>1, <2>3, <3>1 DEF Held
  <2> QED BY <2>2, <2>3
<1>5. HasMatrices'
  <2> SUFFICES ASSUME NEW M \in Matrix \ lost', dims'[M].m > 0
               PROVE  IsMatrix(Held(M)') /\ IntValues(Held(M)')
    BY DEF HasMatrices
  <2>1. CASE M = c
    BY <1>4, <2>1
  <2>2. CASE M /= c
    <3>1. dims'[M] = dims[M]
      BY <2>2 DEF DimsType
    <3> QED BY <1>4, <2>2, <3>1 DEF HasMatrices
  <2> QED BY <2>1, <2>2
<1> QED BY <1>2, <1>3, <1>4, <1>5

\* Reading matrices changes none.
LEMMA OnlyRead ==
  ASSUME VecType, DimsType, HasMatrices, NEW Ms, vec' = ReadMatrices(Ms, "cpu"), dims' = dims,
         lost' = lost
  PROVE  /\ VecType' /\ DimsType' /\ HasMatrices'
         /\ \A M \in Matrix : Held(M)' = Held(M)
         /\ \A M \in Matrix : M \in Ms => Stored(vec, M, "cpu")' = Held(M)
<1> DEFINE read == ReadMatrices(Ms, "cpu")
<1>1. /\ read \in [Matrix -> [Field -> Vectors]]
      /\ \A M \in Matrix : \A d : HeldIn(read[M], d) = HeldIn(vec[M], d)
      /\ \A M \in Matrix : M \in Ms => Stored(read, M, "cpu") = Held(M)
  BY MatricesRead
<1> HIDE DEF read
<1>2. VecType'
  BY <1>1 DEF VecType, read
<1>3. \A M \in Matrix : Held(M)' = Held(M)
  BY <1>1 DEF Held, read
<1>4. DimsType' /\ HasMatrices'
  BY <1>3 DEF DimsType, HasMatrices
<1>5. \A M \in Matrix : M \in Ms => Stored(vec, M, "cpu")' = Held(M)
  BY <1>1 DEF Stored, read
<1> QED BY <1>2, <1>3, <1>4, <1>5

\* The product that DSParallel's rows make.
LEMMA RowsMakeProduct ==
  ASSUME NEW A, IsMatrix(A), IntValues(A), NEW B, IsMatrix(B), IntValues(B), A.n = B.m,
         NEW rows, AreRowsOf(rows, Times(Dense(A), Dense(B))),
         NEW P, HoldsRows(P, rows, 1), P.n = B.n
  PROVE  IsMatrix(P) /\ IntValues(P) /\ Dense(P) = Times(Dense(A), Dense(B))
<1> DEFINE X == Times(Dense(A), Dense(B))
<1>1. X = [m |-> A.m, n |-> B.n, at |-> X.at] /\ X.at \in [Positions(A.m, B.n) -> Int]
  BY TimesOfIntegers
<1>2. A.m \in Nat /\ B.n \in Nat
  BY DEF IsMatrix
<1> HIDE DEF X
<1>3. X.m = A.m /\ X.n = B.n
  BY <1>1
<1>4. /\ X.m \in Nat /\ X.n \in Nat /\ X = [m |-> X.m, n |-> X.n, at |-> X.at]
      /\ X.at \in [Positions(X.m, X.n) -> Int] /\ P.n = X.n /\ AreRowsOf(rows, X)
  BY <1>1, <1>2, <1>3 DEF X
<1> QED BY <1>4, RowsDenote DEF X

LEMMA ParallelProduct ==
  ASSUME NEW A, IsMatrix(A), IntValues(A), NEW B, IsMatrix(B), IntValues(B), A.n = B.m,
         NEW rows, rows = [r \in 1 .. A.m |-> Nonzeros(AddAll(NewSPA(B.n, Garbage),
                                                            Products(A, B, r - 1)))]
  PROVE  LET P == FromRows(rows, B.n)
         IN  /\ IsMatrix(P) /\ IntValues(P) /\ Dense(P) = Times(Dense(A), Dense(B))
             /\ P = [m |-> P.m, n |-> P.n, rp |-> P.rp, ci |-> P.ci, v |-> P.v]
<1> DEFINE X == Times(Dense(A), Dense(B))
           P == FromRows(rows, B.n)
<1>1. A.m \in Nat /\ B.n \in Nat /\ X.m = A.m /\ X.n = B.n
  BY DEF IsMatrix, Times, Dense
<1>2. Clean(NewSPA(B.n, Garbage), B.n)
  BY <1>1, NewSPAClean, SpGEMMComponentAssumption
<1>3. ASSUME NEW r \in 1 .. A.m PROVE IsRowOf(rows[r], X, r - 1)
  <2>1. r - 1 \in 0 .. A.m - 1
    BY <1>1
  <2>2. rows[r] = Nonzeros(AddAll(NewSPA(B.n, Garbage), Products(A, B, r - 1)))
    OBVIOUS
  <2> QED BY <1>2, <2>1, <2>2, RowComputed
<1> HIDE DEF X
<1>4. rows \in Seq(Seq(ProductType(X.n))) /\ Len(rows) = X.m
  <2>1. \A r \in 1 .. A.m : rows[r] \in Seq(ProductType(X.n))
    BY <1>3 DEF IsRowOf
  <2>2. rows = [r \in 1 .. A.m |-> rows[r]]
    OBVIOUS
  <2> DEFINE row == rows
  <2> HIDE DEF row
  <2>3. row \in [1 .. A.m -> Seq(ProductType(X.n))]
    BY <2>1, <2>2 DEF row
  <2>4. row \in Seq(Seq(ProductType(X.n)))
    BY <1>1, <2>3, IsASeq
  <2>5. Len(row) = X.m
    BY <1>1, <2>3, <2>4, LenProperties
  <2> QED BY <2>4, <2>5 DEF row
<1>5. AreRowsOf(rows, X)
  BY <1>1, <1>3, <1>4 DEF AreRowsOf
<1>6. HoldsRows(P, rows, 1) /\ P.n = B.n
  BY <1>1, <1>4, FromRowsHoldsRows
<1>7. P = [m |-> P.m, n |-> P.n, rp |-> P.rp, ci |-> P.ci, v |-> P.v]
  BY DEF FromRows
<1> HIDE DEF P
<1>8. IsMatrix(P) /\ IntValues(P) /\ Dense(P) = X
  BY <1>5, <1>6, RowsMakeProduct DEF X
<1> QED BY <1>7, <1>8 DEF P, X

\* An array with some entries left unwritten.
LEMMA PartlyUnwritten ==
  ASSUME NEW slots, NEW a \in Seq(Int)
  PROVE  LET w == [s \in DOMAIN a |-> IF s \in slots THEN Garbage ELSE a[s]]
         IN  w \in Seq(Int) /\ (slots = {} => w = a)
<1> DEFINE w == [s \in DOMAIN a |-> IF s \in slots THEN Garbage ELSE a[s]]
           n == Len(a)
<1>1. n \in Nat /\ a \in [1 .. n -> Int]
  BY LenProperties
<1>2. slots = {} => w = a
  BY <1>1
<1>3. w \in [1 .. n -> Int]
  BY <1>1, SpGEMMComponentAssumption
<1> HIDE DEF w, n
<1>4. w \in Seq(Int)
  BY <1>1, <1>3, IsASeq
<1> QED BY <1>2, <1>4 DEF w

\* The product with some entries left unwritten.
LEMMA UnwrittenArrays ==
  ASSUME NEW P, NEW slots, P.ci \in Seq(Int), P.v \in Seq(Int),
         P = [m |-> P.m, n |-> P.n, rp |-> P.rp, ci |-> P.ci, v |-> P.v]
  PROVE  LET U == Unwritten(P, slots)
         IN  /\ U.m = P.m /\ U.n = P.n /\ U.rp = P.rp
             /\ U.ci \in Seq(Int) /\ U.v \in Seq(Int)
             /\ U = [m |-> U.m, n |-> U.n, rp |-> U.rp, ci |-> U.ci, v |-> U.v]
             /\ slots = {} => U = P
<1> DEFINE left(a) == [s \in DOMAIN a |-> IF s \in slots THEN Garbage ELSE a[s]]
           U == Unwritten(P, slots)
<1>1. \A a \in Seq(Int) : left(a) \in Seq(Int) /\ (slots = {} => left(a) = a)
  BY PartlyUnwritten
<1>2. U = [P EXCEPT !.ci = left(P.ci), !.v = left(P.v)]
  BY DEF Unwritten
<1>3. left(P.ci) \in Seq(Int) /\ left(P.v) \in Seq(Int)
      /\ (slots = {} => left(P.ci) = P.ci /\ left(P.v) = P.v)
  BY <1>1
<1> HIDE DEF left, U
<1>4. U = [m |-> P.m, n |-> P.n, rp |-> P.rp, ci |-> left(P.ci), v |-> left(P.v)]
  BY <1>2
<1> QED BY <1>3, <1>4 DEF U

\* What a step may do to the matrices: put a product in one, lose entries of it,
\* or change none.
Multiplies(a, b, c) ==
  /\ Multiplicable(a, b) /\ lost' = lost \ {c}
  /\ IsMatrix(Held(c)') /\ Dense(Held(c)') = ProductOf(a, b)
  /\ \A M \in Matrix : M /= c => Held(M)' = Held(M)

Loses(a, b, c) ==
  /\ Multiplicable(a, b) /\ lost' = lost \cup {c}
  /\ Held(c)'.m = Held(a).m /\ Held(c)'.n = Held(b).n
  /\ \A M \in Matrix : M /= c => Held(M)' = Held(M)

ChangesNone == (\A M \in Matrix : Held(M)' = Held(M)) /\ lost' = lost

LEMMA InitHolds ==
  ASSUME Init
  PROVE  /\ IInv
         /\ \E file \in Files : Dense(Held("A")) \in Denoted(Rows, Columns, file)
         /\ Dense(Held("Res")) = Abstract!Empty
<1>0. PICK file \in Files : \E A \in Loaded(Rows, Columns, file) :
        vec = [A   |-> [f \in Field |-> Vector(A[f])],
               Res |-> [f \in Field |-> Vector(IF f = "rp" THEN Fresh(1) ELSE <<>>)]]
  BY DEF Init
<1>1. PICK A \in Loaded(Rows, Columns, file) :
        vec = [A   |-> [f \in Field |-> Vector(A[f])],
               Res |-> [f \in Field |-> Vector(IF f = "rp" THEN Fresh(1) ELSE <<>>)]]
  BY <1>0
<1>2. /\ dims = [A |-> [m |-> Rows, n |-> Columns], Res |-> [m |-> 0, n |-> 0]]
      /\ call = [a |-> "A", b |-> "A", c |-> "Res"] /\ pc = "idle"
  BY DEF Init
<1>3. Rows \in Nat /\ Columns \in Nat /\ Len(file) > 0
      /\ file \in Seq((1 .. Rows) \X (1 .. Columns) \X Int)
  BY SpGEMMComponentAssumption
<1>4. /\ IsMatrix(A) /\ IntValues(A) /\ A.m = Rows /\ A.n = Columns
      /\ Dense(A) \in Denoted(Rows, Columns, file)
  BY <1>3, LoadedMatrix
<1>5. A = [m |-> A.m, n |-> A.n, rp |-> A.rp, ci |-> A.ci, v |-> A.v]
  BY DEF Loaded, FromTriples
<1>6. A.rp \in Seq(Int) /\ A.ci \in Seq(Int) /\ A.v \in Seq(Int)
  BY <1>4, MatrixArrays
<1>7. \A f \in Field : Vector(A[f]) \in Vectors /\ Valid(Vector(A[f])) = A[f]
  <2>1. \A f \in Field : A[f] \in Seq(Int)
    BY <1>6 DEF Field
  <2> QED BY <2>1, NewVector
<1>8. Fresh(1) \in Seq(Int) /\ <<>> \in Seq(Int)
  BY FreshSequence, EmptySeq
<1> DEFINE R(f) == IF f = "rp" THEN Fresh(1) ELSE <<>>
<1>9. \A f \in Field : Vector(R(f)) \in Vectors /\ Valid(Vector(R(f))) = R(f)
  BY <1>8, NewVector
<1>10. /\ vec["A"] = [f \in Field |-> Vector(A[f])] /\ vec["Res"] = [f \in Field |-> Vector(R(f))]
       /\ vec = [M \in Matrix |-> vec[M]]
  BY <1>1 DEF Matrix
<1> HIDE DEF R
<1>11. VecType
  <2>1. vec["A"] \in [Field -> Vectors] /\ vec["Res"] \in [Field -> Vectors]
    BY <1>7, <1>9, <1>10
  <2> QED BY <1>10, <2>1 DEF VecType, Matrix
<1>12. DimsType /\ CallType /\ dims["A"] = [m |-> Rows, n |-> Columns]
       /\ dims["Res"] = [m |-> 0, n |-> 0]
  BY <1>2, <1>3 DEF DimsType, CallType, Matrix
<1>13. Held("A") = A
  BY <1>4, <1>5, <1>7, <1>10, <1>12 DEF Held, HeldIn, Field
<1>14. Dense(Held("Res")) = Abstract!Empty
  <2>1. Held("Res").m = 0 /\ Held("Res").n = 0
    BY <1>12 DEF Held, HeldIn
  <2>2. Positions(0, 0) = {}
    BY DEF Positions
  <2> QED BY <2>1, <2>2 DEF Dense, Abstract!Empty
<1>15. HasMatrices
  BY <1>4, <1>12, <1>13 DEF HasMatrices, Matrix
<1>16. IInv
  BY <1>2, <1>11, <1>12, <1>15 DEF IInv, Init, OperandsRead, RowsComputed, RowsCopied
<1> QED BY <1>4, <1>13, <1>14, <1>16

LEMMA CallDSParallelStep ==
  ASSUME IInv, NEW a \in Matrix, NEW b \in Matrix, NEW c \in Matrix, CallDSParallel(a, b, c)
  PROVE  IInv' /\ (Multiplies(a, b, c) \/ Loses(a, b, c))
<1> DEFINE read == ReadMatrices({a, b}, "cpu")
           A == Stored(read, a, "cpu")
           B == Stored(read, b, "cpu")
           rows == [r \in 1 .. A.m |-> Nonzeros(AddAll(NewSPA(B.n, Garbage),
                                                       Products(A, B, r - 1)))]
           P == FromRows(rows, B.n)
<1>1. /\ VecType /\ DimsType /\ HasMatrices
      /\ Multiplicable(a, b) /\ pc = "idle"
  BY DEF IInv, CallDSParallel, CanCall
<1>2. /\ read \in [Matrix -> [Field -> Vectors]]
      /\ \A M \in Matrix : \A d : HeldIn(read[M], d) = HeldIn(vec[M], d)
      /\ A = Held(a) /\ B = Held(b)
  BY <1>1, MatricesRead
<1>3. PICK slots :
        /\ vec' = [read EXCEPT ![c] =
                     [f \in Field |-> ReplaceOnCpu(@[f], Unwritten(P, slots)[f])]]
        /\ lost' = IF slots = {} THEN lost \ {c} ELSE lost \cup {c}
        /\ dims' = [dims EXCEPT ![c] = [m |-> P.m, n |-> P.n]]
  BY DEF CallDSParallel
<1> DEFINE U == Unwritten(P, slots)
           x == [f \in Field |-> ReplaceOnCpu(read[c][f], U[f])]
<1>4. call' = [a |-> a, b |-> b, c |-> c] /\ pc' = "idle"
  BY <1>1 DEF CallDSParallel
<1>5. IsMatrix(A) /\ IntValues(A) /\ IsMatrix(B) /\ IntValues(B) /\ A.n = B.m
  <2> HIDE DEF A, B
  <2> QED BY <1>1, <1>2, TypeOfProduct
<1>6. vec' = [read EXCEPT ![c] = x]
  <2> HIDE DEF P
  <2> QED BY <1>2, <1>3
<1> HIDE DEF A, B
<1>7. /\ IsMatrix(P) /\ IntValues(P) /\ Dense(P) = Times(Dense(A), Dense(B))
      /\ P = [m |-> P.m, n |-> P.n, rp |-> P.rp, ci |-> P.ci, v |-> P.v]
  BY <1>5, ParallelProduct
<1>8. P.m = A.m /\ P.n = B.n /\ P.m \in Nat /\ P.n \in Nat
  <2> HIDE DEF P
  <2>1. Dense(P).m = P.m /\ Times(Dense(A), Dense(B)).m = A.m
        /\ Dense(P).n = P.n /\ Times(Dense(A), Dense(B)).n = B.n
    BY DEF Dense, Times
  <2> QED BY <1>7, <2>1 DEF IsMatrix
<1> HIDE DEF P, read, rows
<1>9. /\ U.m = P.m /\ U.n = P.n /\ U.rp = P.rp
      /\ U.ci \in Seq(Int) /\ U.v \in Seq(Int) /\ U.rp \in Seq(Int)
      /\ U = [m |-> U.m, n |-> U.n, rp |-> U.rp, ci |-> U.ci, v |-> U.v]
      /\ slots = {} => U = P
  <2>1. P.rp \in Seq(Int) /\ P.ci \in Seq(Int) /\ P.v \in Seq(Int)
    BY <1>7, MatrixArrays
  <2> QED BY <1>7, <2>1, UnwrittenArrays
<1> HIDE DEF U
<1>10. x \in [Field -> Vectors] /\ \A f \in Field : Valid(x[f]) = U[f]
  <2>1. \A f \in Field : U[f] \in Seq(Int)
    BY <1>9 DEF Field
  <2>2. \A f \in Field : read[c][f] \in Vectors
    BY <1>2
  <2> QED BY <2>1, <2>2, VectorReplaced
<1> HIDE DEF x
<1>11. /\ VecType' /\ DimsType' /\ HasMatrices'
       /\ \A M \in Matrix : Held(M)' = IF M = c THEN U ELSE Held(M)
  <2>1. \/ IsMatrix(U) /\ IntValues(U) /\ lost' = lost \ {c}
        \/ U.m \in Nat /\ U.n \in Nat /\ lost' = lost \cup {c}
    BY <1>3, <1>7, <1>8, <1>9
  <2>2. dims' = [dims EXCEPT ![c] = [m |-> U.m, n |-> U.n]]
    BY <1>3, <1>9
  <2>3. PutsIn(c, U, x, read)
    BY <1>2, <1>6, <1>9, <1>10, <2>1, <2>2 DEF PutsIn
  <2> QED BY <1>1, <2>3, OutputSet
<1>12. Multiplies(a, b, c) \/ Loses(a, b, c)
  <2>1. CASE slots = {}
    <3>1. Multiplies(a, b, c)
      BY <1>1, <1>2, <1>3, <1>7, <1>9, <1>11, <2>1 DEF Multiplies, ProductOf
    <3> QED BY <3>1
  <2>2. CASE slots /= {}
    <3>1. Loses(a, b, c)
      BY <1>1, <1>2, <1>3, <1>8, <1>9, <1>11, <2>2 DEF Loses
    <3> QED BY <3>1
  <2> QED BY <2>1, <2>2
<1>13. IInv'
  <2>1. Ci' = <<>>
    BY <1>1 DEF IInv, CallDSParallel, kernel
  <2> QED BY <1>4, <1>11, <2>1 DEF IInv, CallType, OperandsRead, RowsComputed, RowsCopied
<1> QED BY <1>12, <1>13

LEMMA CallGpuStep ==
  ASSUME IInv, NEW a \in Matrix, NEW b \in Matrix, NEW c \in Matrix, CallGpu(a, b, c)
  PROVE  IInv' /\ Multiplies(a, b, c)
<1> DEFINE read == ReadMatrices({a, b}, "gpu")
           A == Stored(read, a, "gpu")
           B == Stored(read, b, "gpu")
           P == GpuProduct(A, B)
           x == [f \in Field |-> ReplaceOnGpu(read[c][f], P[f])]
<1>1. /\ VecType /\ DimsType /\ HasMatrices
      /\ Multiplicable(a, b) /\ pc = "idle"
  BY DEF IInv, CallGpu, CanCall
<1>2. /\ read \in [Matrix -> [Field -> Vectors]]
      /\ \A M \in Matrix : \A d : HeldIn(read[M], d) = HeldIn(vec[M], d)
      /\ A = Held(a) /\ B = Held(b)
  BY <1>1, MatricesRead
<1>3. vec' = [read EXCEPT ![c] = x] /\ dims' = [dims EXCEPT ![c] = [m |-> P.m, n |-> P.n]]
  BY <1>2 DEF CallGpu, OutputGpu
<1>12. lost' = lost \ {c}
  BY DEF CallGpu
<1>4. call' = [a |-> a, b |-> b, c |-> c] /\ pc' = "idle"
  BY <1>1 DEF CallGpu
<1> HIDE DEF A, B
<1>5. IsMatrix(A) /\ IntValues(A) /\ IsMatrix(B) /\ IntValues(B) /\ A.n = B.m
  BY <1>1, <1>2, TypeOfProduct
<1>6. IsMatrix(P) /\ IntValues(P) /\ Dense(P) = Times(Dense(A), Dense(B))
  BY <1>5, GpuProductIsProduct
<1>7. P = [m |-> P.m, n |-> P.n, rp |-> P.rp, ci |-> P.ci, v |-> P.v]
  BY DEF GpuProduct, FromTriples
<1> HIDE DEF P, read
<1>11. x \in [Field -> Vectors] /\ \A f \in Field : Valid(x[f]) = P[f]
  BY <1>2, <1>6, ArraysReplaced
<1> HIDE DEF x
<1>8. /\ VecType' /\ DimsType' /\ HasMatrices'
      /\ \A M \in Matrix : Held(M)' = IF M = c THEN P ELSE Held(M)
  <2>1. PutsIn(c, P, x, read)
    BY <1>2, <1>3, <1>6, <1>7, <1>11, <1>12 DEF PutsIn
  <2> QED BY <1>1, <2>1, OutputSet
<1>9. Multiplies(a, b, c)
  BY <1>1, <1>2, <1>6, <1>8, <1>12 DEF Multiplies, ProductOf
<1>10. IInv'
  <2>1. Ci' = <<>>
    BY <1>1 DEF IInv, CallGpu, kernel
  <2> QED BY <1>4, <1>8, <2>1 DEF IInv, CallType, OperandsRead, RowsComputed, RowsCopied
<1> QED BY <1>9, <1>10

LEMMA SaveStep ==
  ASSUME IInv, NEW M \in Matrix, Save(M)
  PROVE  IInv' /\ ChangesNone
<1>1. /\ VecType /\ DimsType /\ HasMatrices /\ CallType
      /\ vec' = ReadMatrices({M}, "cpu") /\ dims' = dims /\ call' = call
      /\ pc = "idle" /\ pc' = pc /\ lost' = lost
  BY DEF IInv, Save
<1>2. VecType' /\ DimsType' /\ HasMatrices' /\ \A N \in Matrix : Held(N)' = Held(N)
  BY <1>1, OnlyRead
<1>3. IInv'
  <2>1. Ci' = <<>>
    BY <1>1 DEF IInv, Save, kernel
  <2> QED BY <1>1, <1>2, <2>1 DEF IInv, CallType, OperandsRead, RowsComputed, RowsCopied
<1> QED BY <1>1, <1>2, <1>3 DEF ChangesNone

LEMMA CallSequentialStep ==
  ASSUME IInv, NEW a \in Matrix, NEW b \in Matrix, NEW c \in Matrix, CallSequential(a, b, c)
  PROVE  IInv' /\ ChangesNone
<1>1. /\ VecType /\ DimsType /\ HasMatrices /\ Multiplicable(a, b)
      /\ vec' = ReadMatrices({a, b}, "cpu") /\ dims' = dims
      /\ call' = [a |-> a, b |-> b, c |-> c] /\ SPA' = NewSPA(dims[b].n, Garbage)
      /\ pc' = "row" /\ Ci' = Ci /\ lost' = lost
  BY DEF IInv, CallSequential, CanCall
<1>2. /\ VecType' /\ DimsType' /\ HasMatrices' /\ \A M \in Matrix : Held(M)' = Held(M)
      /\ \A M \in Matrix : M \in {a, b} => Stored(vec, M, "cpu")' = Held(M)
  BY <1>1, OnlyRead
<1>3. CallType'
  BY <1>1 DEF CallType
<1>4. OperandsRead'
  BY <1>1, <1>2 DEF OperandsRead, Multiplicable
<1>5. Product' = ProductOf(a, b)
  BY <1>1, <1>2 DEF Product, ProductOf
<1>6. Ci' = <<>>
  BY <1>1 DEF IInv, CallSequential, CanCall
<1>7. RowsComputed'
  <2>1. /\ ProductOf(a, b).n = dims[b].n /\ dims[b].n \in Nat /\ ProductOf(a, b).m \in Nat
    BY <1>1, TypeOfProduct DEF DimsType
  <2>2. Clean(SPA', dims[b].n)
    BY <1>1, <2>1, NewSPAClean, SpGEMMComponentAssumption
  <2>3. Ci' \in Seq(Seq(ProductType(ProductOf(a, b).n))) /\ Len(Ci') = 0
    BY <1>6, EmptySeq
  <2>4. Clean(SPA, dims[call.b].n)'
    BY <1>1, <2>2
  <2>5. \A r \in 1 .. Len(Ci') : IsRowOf(Ci'[r], ProductOf(a, b), r - 1)
    BY <2>3
  <2> QED BY <1>5, <2>1, <2>3, <2>4, <2>5 DEF RowsComputed
<1>8. RowsCopied'
  BY <1>1 DEF RowsCopied
<1> QED BY <1>1, <1>2, <1>3, <1>4, <1>7, <1>8 DEF IInv, ChangesNone

\* What a step of the sequential call that leaves the matrices alone keeps.
LEMMA SameMatrices ==
  ASSUME IInv, vec' = vec, dims' = dims, call' = call, lost' = lost,
         pc' \in {pc, "row", "copy", "undefined"}
  PROVE  /\ VecType' /\ DimsType' /\ CallType' /\ HasMatrices' /\ ChangesNone
         /\ Product' = Product
         /\ pc \in {"row", "copy"} \/ pc' = "undefined" => OperandsRead'
<1>1. VecType /\ DimsType /\ CallType /\ HasMatrices /\ OperandsRead
  BY DEF IInv
<1>2. VecType' /\ DimsType' /\ CallType'
  BY <1>1 DEF VecType, DimsType, CallType
<1>3. \A M : Held(M)' = Held(M) /\ Stored(vec, M, "cpu")' = Stored(vec, M, "cpu")
  BY DEF Held, Stored
<1>4. HasMatrices' /\ ChangesNone
  BY <1>1, <1>3 DEF HasMatrices, ChangesNone
<1>5. Product' = Product
  BY <1>3 DEF Product, ProductOf
<1>6. pc \in {"row", "copy"} \/ pc' = "undefined" => OperandsRead'
  BY <1>1, <1>3 DEF OperandsRead, Multiplicable
<1> QED BY <1>2, <1>4, <1>5, <1>6

\* The operands of a sequential call and their product.
LEMMA OperandsOfCall ==
  ASSUME IInv, pc \in {"row", "copy"}
  PROVE  LET A == Stored(vec, call.a, "cpu")
             B == Stored(vec, call.b, "cpu")
         IN  /\ IsMatrix(A) /\ IntValues(A) /\ IsMatrix(B) /\ IntValues(B) /\ A.n = B.m
             /\ Product = Times(Dense(A), Dense(B)) /\ Multiplicable(call.a, call.b)
             /\ Product.m = A.m /\ Product.n = B.n
             /\ dims[call.a].m = A.m /\ dims[call.b].n = B.n
             /\ call.a \in Matrix /\ call.b \in Matrix /\ call.c \in Matrix
<1> DEFINE a == call.a
           b == call.b
<1>1. /\ DimsType /\ HasMatrices /\ a \in Matrix /\ b \in Matrix /\ call.c \in Matrix
      /\ Multiplicable(a, b)
  BY DEF IInv, CallType, OperandsRead
<1>2. Stored(vec, a, "cpu") = Held(a) /\ Stored(vec, b, "cpu") = Held(b)
  BY DEF IInv, OperandsRead
<1>3. Product = ProductOf(a, b)
  BY DEF Product
<1> HIDE DEF a, b
<1>4. /\ IsMatrix(Held(a)) /\ IntValues(Held(a)) /\ IsMatrix(Held(b)) /\ IntValues(Held(b))
      /\ Held(a).m = dims[a].m /\ Held(a).n = dims[a].n
      /\ Held(b).m = dims[b].m /\ Held(b).n = dims[b].n /\ Held(a).n = Held(b).m
      /\ ProductOf(a, b).m = dims[a].m /\ ProductOf(a, b).n = dims[b].n
  BY <1>1, TypeOfProduct
<1>5. ProductOf(a, b) = Times(Dense(Held(a)), Dense(Held(b)))
  BY DEF ProductOf
<1> QED BY <1>1, <1>2, <1>3, <1>4, <1>5 DEF a, b

LEMMA ComputeRowStep ==
  ASSUME IInv, ComputeRow
  PROVE  IInv' /\ ChangesNone
<1> DEFINE A == Stored(vec, call.a, "cpu")
           B == Stored(vec, call.b, "cpu")
           spa == AddAll(SPA, Products(A, B, Len(Ci)))
           row == Nonzeros(spa)
<1>1. /\ pc = "row" /\ Len(Ci) < dims[call.a].m
      /\ Ci' = Append(Ci, row) /\ SPA' = Clear(spa)
      /\ vec' = vec /\ dims' = dims /\ call' = call /\ pc' = pc
      /\ lost' = lost
  BY DEF ComputeRow
<1>2. /\ IsMatrix(A) /\ IntValues(A) /\ IsMatrix(B) /\ IntValues(B) /\ A.n = B.m
      /\ Product = Times(Dense(A), Dense(B))
      /\ Product.m = A.m /\ Product.n = B.n
      /\ dims[call.a].m = A.m /\ dims[call.b].n = B.n
  BY <1>1, OperandsOfCall
<1>3. /\ Clean(SPA, B.n)
      /\ Ci \in Seq(Seq(ProductType(Product.n))) /\ Len(Ci) <= Product.m
      /\ \A r \in 1 .. Len(Ci) : IsRowOf(Ci[r], Product, r - 1)
  BY <1>1, <1>2 DEF IInv, RowsComputed
<1> HIDE DEF A, B
<1>4. A.m \in Nat /\ Len(Ci) \in 0 .. A.m - 1
  BY <1>1, <1>2, <1>3 DEF IsMatrix
<1>5. IsRowOf(row, Product, Len(Ci)) /\ Clean(Clear(spa), B.n)
  BY <1>2, <1>3, <1>4, RowComputed
<1> HIDE DEF row, spa
<1>6. RowsComputed'
  <2> DEFINE X == Product
             T == Seq(ProductType(X.n))
  <2>1. Product' = X
    BY <1>1, SameMatrices
  <2>2. Clean(SPA, dims[call.b].n)'
    BY <1>1, <1>2, <1>5
  <2>3. Ci \in Seq(T) /\ row \in T
    BY <1>3, <1>5 DEF IsRowOf
  <2>4. \A r \in 1 .. Len(Ci) : IsRowOf(Ci[r], X, r - 1)
    BY <1>3
  <2>5. Len(Ci) < X.m /\ X.m \in Nat /\ IsRowOf(row, X, Len(Ci))
    BY <1>2, <1>4, <1>5
  <2> HIDE DEF X, T
  <2>6. Ci' \in Seq(T) /\ Len(Ci') = Len(Ci) + 1 /\ Ci'[Len(Ci) + 1] = row
        /\ \A r \in 1 .. Len(Ci) : Ci'[r] = Ci[r]
    BY <1>1, <2>3
  <2>7. Ci' \in Seq(T) /\ Len(Ci') <= X.m
    BY <2>3, <2>5, <2>6
  <2>8. ASSUME NEW r \in 1 .. Len(Ci') PROVE IsRowOf(Ci'[r], X, r - 1)
    <3>1. CASE r \in 1 .. Len(Ci)
      BY <2>4, <2>6, <3>1
    <3>2. CASE r \notin 1 .. Len(Ci)
      <4>1. Len(Ci) \in Nat
        BY <2>3
      <4>2. r = Len(Ci) + 1
        BY <2>6, <3>2, <4>1
      <4>3. r - 1 = Len(Ci)
        BY <4>1, <4>2
      <4> QED BY <2>5, <2>6, <4>2, <4>3
    <3> QED BY <3>1, <3>2
  <2> QED BY <2>1, <2>2, <2>7, <2>8 DEF RowsComputed, T
<1>7. RowsCopied'
  BY <1>1 DEF RowsCopied
<1>8. /\ VecType' /\ DimsType' /\ CallType' /\ HasMatrices' /\ ChangesNone /\ OperandsRead'
  BY <1>1, SameMatrices
<1> QED BY <1>1, <1>6, <1>7, <1>8 DEF IInv

LEMMA LayOutStep ==
  ASSUME IInv, LayOut
  PROVE  IInv' /\ ChangesNone
<1> DEFINE rp == RowPointers(Ci)
           size == rp[Len(rp)]
           n == Product.n
<1>1. /\ pc = "row" /\ Len(Ci) = dims[call.a].m
      /\ C' = [m |-> Len(Ci), n |-> dims[call.b].n, rp |-> rp,
               ci |-> Fresh(size), v |-> Fresh(size)]
      /\ pc' = "copy" /\ vec' = vec /\ dims' = dims /\ call' = call /\ Ci' = Ci
      /\ lost' = lost
  BY DEF LayOut
<1>2. Product.m = dims[call.a].m /\ n = dims[call.b].n
  BY <1>1, OperandsOfCall
<1>3. /\ Ci \in Seq(Seq(ProductType(n)))
      /\ \A r \in 1 .. Len(Ci) : IsRowOf(Ci[r], Product, r - 1)
  BY <1>1 DEF IInv, RowsComputed
<1>4. AreRowsOf(Ci, Product)
  BY <1>1, <1>2, <1>3 DEF AreRowsOf
<1>5. HoldsRows(C', Ci, Len(Ci) + 1)
  <2>1. C'.m = Len(Ci) /\ C'.rp = rp
    BY <1>1
  <2>2. /\ C'.ci = [s \in 1 .. size |-> Garbage] /\ C'.v = [s \in 1 .. size |-> Garbage]
    BY <1>1 DEF Fresh
  <2> HIDE DEF n
  <2> QED BY <1>3, <2>1, <2>2, NothingCopied
<1>6. RowsCopied'
  <2>1. /\ C' = [m |-> C'.m, n |-> C'.n, rp |-> C'.rp, ci |-> C'.ci, v |-> C'.v]
        /\ C'.n = n
    BY <1>1, <1>2
  <2>2. Product' = Product
    BY <1>1, SameMatrices
  <2>3. Len(Ci) \in Nat
    BY <1>3
  <2>4. /\ AreRowsOf(Ci, Product) /\ Ci' \in Seq(Seq(ProductType(n))) /\ Len(Ci') <= Len(Ci)
        /\ \A r \in 1 .. Len(Ci') : Ci'[r] = Ci[r]
        /\ HoldsRows(C', Ci, Len(Ci') + 1)
    BY <1>1, <1>3, <1>4, <1>5, <2>3
  <2> QED BY <2>1, <2>2, <2>4 DEF RowsCopied
<1>7. RowsComputed'
  BY <1>1 DEF RowsComputed
<1>8. /\ VecType' /\ DimsType' /\ CallType' /\ HasMatrices' /\ ChangesNone /\ OperandsRead'
  BY <1>1, SameMatrices
<1> QED BY <1>1, <1>6, <1>7, <1>8 DEF IInv

LEMMA CopyRowStep ==
  ASSUME IInv, CopyRow
  PROVE  IInv' /\ ChangesNone
<1> DEFINE n == Product.n
           j == Len(Ci)
<1>1. /\ pc = "copy" /\ Ci /= <<>> /\ Ci' = SubSeq(Ci, 1, Len(Ci) - 1)
      /\ vec' = vec /\ dims' = dims /\ call' = call /\ pc' = pc /\ lost' = lost
      /\ C' = [C EXCEPT
           !.ci = [s \in DOMAIN C.ci |-> IF s - C.rp[j] \in DOMAIN Ci[j]
                                         THEN Ci[j][s - C.rp[j]].k ELSE C.ci[s]],
           !.v  = [s \in DOMAIN C.v |-> IF s - C.rp[j] \in DOMAIN Ci[j]
                                        THEN Ci[j][s - C.rp[j]].x ELSE C.v[s]]]
  BY DEF CopyRow, Last, Front
<1>2. C = [m |-> C.m, n |-> C.n, rp |-> C.rp, ci |-> C.ci, v |-> C.v] /\ C.n = n
  BY <1>1 DEF IInv, RowsCopied
<1>3. PICK rows : /\ AreRowsOf(rows, Product)
                  /\ Ci \in Seq(Seq(ProductType(n))) /\ Len(Ci) <= Len(rows)
                  /\ \A r \in 1 .. Len(Ci) : Ci[r] = rows[r]
                  /\ HoldsRows(C, rows, Len(Ci) + 1)
  BY <1>1 DEF IInv, RowsCopied
<1>4. rows \in Seq(Seq(ProductType(n))) /\ Len(rows) \in Nat
  BY <1>3 DEF AreRowsOf
<1> DEFINE T == Seq(ProductType(n))
<1>5. /\ j \in Nat \ {0} /\ j \in 1 .. Len(rows) /\ Ci[j] = rows[j]
  <2>1. Ci \in Seq(T) /\ Len(Ci) <= Len(rows)
    BY <1>3
  <2> HIDE DEF T
  <2>2. j \in Nat \ {0}
    BY <1>1, <2>1
  <2> QED BY <1>3, <1>4, <2>1, <2>2
<1>6. /\ C'.m = C.m /\ C'.n = n /\ C'.rp = C.rp
      /\ C'.ci = [s \in DOMAIN C.ci |-> IF s - C.rp[j] \in DOMAIN rows[j]
                                        THEN rows[j][s - C.rp[j]].k ELSE C.ci[s]]
      /\ C'.v = [s \in DOMAIN C.v |-> IF s - C.rp[j] \in DOMAIN rows[j]
                                      THEN rows[j][s - C.rp[j]].x ELSE C.v[s]]
      /\ C' = [m |-> C'.m, n |-> C'.n, rp |-> C'.rp, ci |-> C'.ci, v |-> C'.v]
  <2> DEFINE ci == [s \in DOMAIN C.ci |-> IF s - C.rp[j] \in DOMAIN rows[j]
                                          THEN rows[j][s - C.rp[j]].k ELSE C.ci[s]]
             v == [s \in DOMAIN C.v |-> IF s - C.rp[j] \in DOMAIN rows[j]
                                        THEN rows[j][s - C.rp[j]].x ELSE C.v[s]]
  <2>1. C' = [C EXCEPT !.ci = ci, !.v = v]
    BY <1>1, <1>5
  <2> HIDE DEF ci, v
  <2>2. C' = [m |-> C.m, n |-> C.n, rp |-> C.rp, ci |-> ci, v |-> v]
    BY <1>2, <2>1
  <2>3. C'.m = C.m /\ C'.n = n /\ C'.rp = C.rp /\ C'.ci = ci /\ C'.v = v
    BY <1>2, <2>2
  <2> QED BY <2>2, <2>3 DEF ci, v
<1> HIDE DEF T, n, j
<1>7. HoldsRows(C, rows, j + 1)
  BY <1>3 DEF j
<1>8. HoldsRows(C', rows, j)
  BY <1>4, <1>5, <1>6, <1>7, RowCopied
<1>9. Ci' \in Seq(T) /\ Len(Ci') = j - 1 /\ \A r \in 1 .. j - 1 : Ci'[r] = rows[r]
  <2>1. Ci \in Seq(T) /\ Len(Ci) = j /\ Ci' = SubSeq(Ci, 1, j - 1)
    BY <1>1, <1>3 DEF j, T
  <2>2. \A r \in 1 .. j : Ci[r] = rows[r]
    BY <1>3 DEF j
  <2>3. Ci' \in Seq(T) /\ Len(Ci') = j - 1 /\ \A r \in 1 .. j - 1 : Ci'[r] = Ci[r]
    BY <1>5, <2>1
  <2> QED BY <1>5, <2>2, <2>3
<1>10. RowsCopied'
  <2>1. Product' = Product
    BY <1>1, SameMatrices
  <2>2. Len(Ci') + 1 = j /\ Len(Ci') <= Len(rows)
    BY <1>4, <1>5, <1>9
  <2>3. HoldsRows(C', rows, Len(Ci') + 1)
    BY <1>8, <2>2
  <2>4. \A r \in 1 .. Len(Ci') : Ci'[r] = rows[r]
    BY <1>9
  <2> QED BY <1>3, <1>6, <1>9, <2>1, <2>2, <2>3, <2>4 DEF RowsCopied, T, n
<1>11. RowsComputed'
  BY <1>1 DEF RowsComputed
<1>12. /\ VecType' /\ DimsType' /\ CallType' /\ HasMatrices' /\ ChangesNone /\ OperandsRead'
  BY <1>1, SameMatrices
<1> QED BY <1>1, <1>10, <1>11, <1>12 DEF IInv

LEMMA OutputCpuStep ==
  ASSUME IInv, OutputCpu, NEW a \in Matrix, NEW b \in Matrix, NEW c \in Matrix,
         call.a = a, call.b = b, call.c = c
  PROVE  IInv' /\ Multiplies(a, b, c)
<1> DEFINE A == Stored(vec, a, "cpu")
           B == Stored(vec, b, "cpu")
           x == [f \in Field |-> ReplaceOnCpu(vec[c][f], C[f])]
<1>1. /\ pc = "copy" /\ Ci = <<>> /\ Ci' = <<>> /\ pc' = "idle" /\ call' = call
      /\ dims' = [dims EXCEPT ![c] = [m |-> C.m, n |-> C.n]] /\ lost' = lost \ {c}
  BY DEF OutputCpu, NoKernel
<1>2. VecType /\ DimsType /\ HasMatrices /\ CallType
  BY DEF IInv
<1>3. vec' = [vec EXCEPT ![c] = x]
  BY DEF OutputCpu
<1>4. /\ IsMatrix(A) /\ IntValues(A) /\ IsMatrix(B) /\ IntValues(B) /\ A.n = B.m
      /\ Product = Times(Dense(A), Dense(B)) /\ Product.n = B.n
      /\ Multiplicable(a, b) /\ Product = ProductOf(a, b)
  BY <1>1, OperandsOfCall DEF Product
<1>5. C = [m |-> C.m, n |-> C.n, rp |-> C.rp, ci |-> C.ci, v |-> C.v] /\ C.n = B.n
  BY <1>1, <1>4 DEF IInv, RowsCopied
<1>6. PICK rows : AreRowsOf(rows, Product) /\ HoldsRows(C, rows, 1)
  <2>1. PICK rows : AreRowsOf(rows, Product) /\ HoldsRows(C, rows, Len(Ci) + 1)
    BY <1>1 DEF IInv, RowsCopied
  <2>2. Len(Ci) + 1 = 1
    BY <1>1
  <2> QED BY <2>1, <2>2
<1> HIDE DEF A, B
<1>7. IsMatrix(C) /\ IntValues(C) /\ Dense(C) = Product
  BY <1>4, <1>5, <1>6, RowsMakeProduct
<1>8. /\ vec \in [Matrix -> [Field -> Vectors]] /\ vec[c] \in [Field -> Vectors]
  BY <1>2, <1>4 DEF VecType
<1>9. x \in [Field -> Vectors] /\ \A f \in Field : Valid(x[f]) = C[f]
  BY <1>7, <1>8, ArraysReplaced
<1> HIDE DEF x
<1>10. /\ VecType' /\ DimsType' /\ HasMatrices'
       /\ \A M \in Matrix : Held(M)' = IF M = c THEN C ELSE Held(M)
  <2>1. PutsIn(c, C, x, vec)
    BY <1>1, <1>3, <1>5, <1>7, <1>8, <1>9 DEF PutsIn
  <2> QED BY <1>2, <1>4, <2>1, OutputSet
<1>11. Multiplies(a, b, c)
  BY <1>1, <1>4, <1>7, <1>10 DEF Multiplies
<1>12. IInv'
  BY <1>1, <1>2, <1>10 DEF IInv, CallType, OperandsRead, RowsComputed, RowsCopied
<1> QED BY <1>11, <1>12

\* A call that ends the program.
LEMMA CallUndefinedStep ==
  ASSUME IInv, CallUndefined
  PROVE  IInv' /\ ChangesNone
<1>1. pc' = "undefined" /\ vec' = vec /\ dims' = dims /\ call' = call /\ lost' = lost
  BY DEF CallUndefined
<1>2. VecType' /\ DimsType' /\ CallType' /\ HasMatrices' /\ ChangesNone /\ OperandsRead'
  BY <1>1, SameMatrices
<1> QED BY <1>1, <1>2 DEF IInv, RowsComputed, RowsCopied

\* A step that changes no variable.
LEMMA StutteringStep ==
  ASSUME IInv, UNCHANGED vars
  PROVE  IInv' /\ ChangesNone
<1>1. /\ vec' = vec /\ dims' = dims /\ call' = call /\ pc' = pc /\ SPA' = SPA /\ Ci' = Ci /\ C' = C
      /\ lost' = lost
  BY DEF vars, kernel
<1>2. /\ VecType' /\ DimsType' /\ CallType' /\ HasMatrices' /\ ChangesNone /\ Product' = Product
      /\ pc \in {"row", "copy"} => OperandsRead'
  BY <1>1, SameMatrices
<1>3. OperandsRead'
  BY <1>1, <1>2 DEF OperandsRead
<1>4. RowsComputed' /\ RowsCopied'
  <2>1. RowsComputed /\ RowsCopied
    BY DEF IInv
  <2> QED BY <1>1, <1>2, <2>1 DEF RowsComputed, RowsCopied
<1> QED BY <1>1, <1>2, <1>3, <1>4 DEF IInv

\* What any step does.
LEMMA Step ==
  ASSUME IInv, [Next]_vars
  PROVE  /\ IInv'
         /\ ChangesNone \/ \E a, b, c \in Matrix : Multiplies(a, b, c) \/ Loses(a, b, c)
<1>1. CASE Next
  <2>1. ASSUME NEW a \in Matrix, NEW b \in Matrix, NEW c \in Matrix, CallDSParallel(a, b, c)
        PROVE  IInv' /\ (Multiplies(a, b, c) \/ Loses(a, b, c))
    BY <2>1, CallDSParallelStep
  <2>2. ASSUME NEW a \in Matrix, NEW b \in Matrix, NEW c \in Matrix, CallSequential(a, b, c)
        PROVE  IInv' /\ ChangesNone
    BY <2>2, CallSequentialStep
  <2>3. ASSUME NEW a \in Matrix, NEW b \in Matrix, NEW c \in Matrix, CallGpu(a, b, c)
        PROVE  IInv' /\ Multiplies(a, b, c)
    BY <2>3, CallGpuStep
  <2>4. CASE ComputeRow
    BY <2>4, ComputeRowStep
  <2>5. CASE LayOut
    BY <2>5, LayOutStep
  <2>6. CASE CopyRow
    BY <2>6, CopyRowStep
  <2>7. CASE OutputCpu
    <3>1. PICK a \in Matrix, b \in Matrix, c \in Matrix :
            call.a = a /\ call.b = b /\ call.c = c
      BY DEF IInv, CallType
    <3> QED BY <2>7, <3>1, OutputCpuStep
  <2>8. ASSUME NEW M \in Matrix, Save(M) PROVE IInv' /\ ChangesNone
    BY <2>8, SaveStep
  <2>9. CASE CallUndefined
    BY <2>9, CallUndefinedStep
  <2> QED BY <1>1, <2>1, <2>2, <2>3, <2>4, <2>5, <2>6, <2>7, <2>8, <2>9 DEF Next
<1>2. CASE UNCHANGED vars
  BY <1>2, StutteringStep
<1> QED BY <1>1, <1>2

-----------------------------------------------------------------------------
\* The theorems.

\* At every moment the vectors, the dimensions and the variables of a running
\* call have their types, what was loaded or computed is a matrix, the operands
\* of a sequential call are in the memory of the CPU, and the rows it computed
\* and copied are those of the product.
THEOREM ComponentInvariant == Spec => []IInv
<1>1. Init => IInv
  BY InitHolds
<1>2. IInv /\ [Next]_vars => IInv'
  BY Step
<1> QED BY <1>1, <1>2, PTL DEF Spec

\* The copy of a vector in either memory has the size of the vector, wherever
\* its arrays were put last (SpGEMM_component.cpp:306-360).
THEOREM BothCopiesFit == Spec => []BuffersFit
<1>1. IInv => BuffersFit
  BY DEF IInv, VecType, Vectors, BuffersFit
<1> QED BY <1>1, ComponentInvariant, PTL

\* Whatever file was loaded and whatever variants computed it, a matrix of the
\* component is a well-formed compressed matrix, unless the parallel variant lost
\* entries of it.
THEOREM MatricesWellFormed == Spec => []WellFormed
<1>1. IInv => WellFormed
  <2>1. ASSUME IInv PROVE \A M \in Matrix \ lost : dims[M].m > 0 => IsCompressed(Saved(M))
    BY <2>1, SavedAreHeld DEF IInv, HasMatrices, IsMatrix
  <2> QED BY <2>1 DEF WellFormed
<1> QED BY <1>1, ComponentInvariant, PTL

\* A matrix that has a nonzero and lost none is the same matrix, with the digits that were
\* printed, when it is saved and loaded again, although the rows of a product
\* are saved in the order their columns were first added to and the last line
\* of a file is read twice (SpMatrix.cpp:103-177).
THEOREM SavedMatricesReload == Spec => []SavedReloads
<1>1. IInv => SavedReloads
  <2> SUFFICES ASSUME IInv, NEW M \in Matrix \ lost, dims[M].m > 0, Saved(M).ci /= <<>>
               PROVE  LET X == Saved(M)
                          printed == [X EXCEPT !.v = [s \in DOMAIN @ |-> Printed(@[s], Digits)]]
                      IN  {Dense(Y) : Y \in Loaded(X.m, X.n, ToLines(X, Digits))}
                            = {Dense(printed)}
    BY DEF SavedReloads
  <2>1. IsMatrix(Held(M)) /\ IntValues(Held(M)) /\ Saved(M) = Held(M)
    BY SavedAreHeld DEF IInv, HasMatrices
  <2>2. Saved(M) = [m |-> Saved(M).m, n |-> Saved(M).n, rp |-> Saved(M).rp,
                    ci |-> Saved(M).ci, v |-> Saved(M).v]
    BY DEF Saved, Stored
  <2> QED BY <2>1, <2>2, ReloadedMatrix
<1> QED BY <1>1, ComponentInvariant, PTL

-----------------------------------------------------------------------------
\* The component implements Matrices.

LEMMA AbstractSumOf == \A S, f : Abstract!SumOf(S, f) = SumOf(S, f)
BY DEF Abstract!SumOf, SumOf, Abstract!MapThenSumSet, MapThenSumSet,
       Abstract!MapThenFoldSet, MapThenFoldSet

LEMMA AbstractTimes == \A X, Y : Abstract!Times(X, Y) = Times(X, Y)
BY AbstractSumOf DEF Abstract!Times, Times, Abstract!Positions, Positions

LEMMA AbstractDenoted ==
  \A m, n, file : Abstract!Denoted(m, n, file) = Denoted(m, n, file)
BY DEF Abstract!Denoted, Denoted, Abstract!Positions, Positions,
       Abstract!PositionsOf, PositionsOf, Abstract!ValuesAt, ValuesAt

\* What the matrices stand for.
Value == [M \in Matrix |-> Dense(Saved(M))]

\* Every sequence of calls, whatever variants they are given, puts in each
\* output the product of the matrices its inputs stood for, or a matrix of its
\* shape when the parallel variant lost entries, and changes no other matrix: the
\* component implements Matrices.
THEOREM ComponentMultiplies == Spec => MultipliesMatrices
<1>1. ASSUME Init PROVE Abstract!Init
  <2>1. /\ \E file \in Files : Dense(Held("A")) \in Denoted(Rows, Columns, file)
        /\ Dense(Held("Res")) = Abstract!Empty /\ VecType /\ lost = {}
    BY <1>1, InitHolds DEF IInv, Init
  <2>2. Value = [A |-> Dense(Held("A")), Res |-> Dense(Held("Res"))]
    BY <2>1, SavedAreHeld DEF Value, Matrix
  <2> QED BY <2>1, <2>2, AbstractDenoted DEF Abstract!Init, Value
<1>2. ASSUME IInv, [Next]_vars PROVE [Abstract!Next]_<<Value, lost>>
  <2>1. /\ IInv' /\ VecType /\ VecType'
        /\ ChangesNone \/ \E a, b, c \in Matrix : Multiplies(a, b, c) \/ Loses(a, b, c)
    BY <1>2, Step DEF IInv
  <2>2. Value = [M \in Matrix |-> Dense(Held(M))]
    BY <2>1, SavedAreHeld DEF Value
  <2>3. Value' = [M \in Matrix |-> Dense(Held(M)')]
    <3>1. \A M \in Matrix : Saved(M)' = Held(M)'
      BY <2>1, SavedAreHeldNext
    <3> QED BY <3>1 DEF Value, Dense
  <2>4. CASE ChangesNone
    <3>1. Value' = Value /\ lost' = lost
      BY <2>2, <2>3, <2>4 DEF ChangesNone
    <3> QED BY <3>1
  <2>5. ASSUME NEW a \in Matrix, NEW b \in Matrix, Multiplicable(a, b)
        PROVE  Abstract!CanMultiply(a, b)
    <3>1. Held(a).n = dims[a].n /\ Held(b).m = dims[b].m
      BY DEF Held, HeldIn
    <3>2. Dense(Held(a)).n = Held(a).n /\ Dense(Held(b)).m = Held(b).m
      BY DEF Dense
    <3>3. Value[a].n = Value[b].m /\ {a, b} \cap lost = {}
      BY <2>2, <2>5, <3>1, <3>2 DEF Multiplicable
    <3> QED BY <3>3 DEF Abstract!CanMultiply, Value
  <2>6. ASSUME NEW a \in Matrix, NEW b \in Matrix, NEW c \in Matrix, Multiplies(a, b, c)
        PROVE  Abstract!Next
    <3>1. Abstract!CanMultiply(a, b) /\ lost' = lost \ {c}
      BY <2>5, <2>6 DEF Multiplies
    <3>2. Value' = [Value EXCEPT ![c] = Times(Value[a], Value[b])]
      <4>1. Dense(Held(c)') = Times(Dense(Held(a)), Dense(Held(b)))
            /\ \A M \in Matrix : M /= c => Held(M)' = Held(M)
        BY <2>6 DEF Multiplies, ProductOf
      <4> QED BY <2>2, <2>3, <4>1
    <3>3. Abstract!Multiply(a, b, c)
      BY <3>1, <3>2, AbstractTimes DEF Abstract!Multiply, Value
    <3> QED BY <3>3 DEF Abstract!Next, Matrix
  <2>7. ASSUME NEW a \in Matrix, NEW b \in Matrix, NEW c \in Matrix, Loses(a, b, c)
        PROVE  Abstract!Next
    <3>1. Abstract!CanMultiply(a, b) /\ lost' = lost \cup {c}
      BY <2>5, <2>7 DEF Loses
    <3>2. Value' = [Value EXCEPT ![c] = Value'[c]]
      <4>1. \A M \in Matrix : M /= c => Held(M)' = Held(M)
        BY <2>7 DEF Loses
      <4> QED BY <2>2, <2>3, <4>1
    <3>3. Value'[c].m = Value[a].m /\ Value'[c].n = Value[b].n
      <4>1. Held(c)'.m = Held(a).m /\ Held(c)'.n = Held(b).n
        BY <2>7 DEF Loses
      <4>2. /\ Dense(Held(c)').m = Held(c)'.m /\ Dense(Held(c)').n = Held(c)'.n
            /\ Dense(Held(a)).m = Held(a).m /\ Dense(Held(b)).n = Held(b).n
        BY DEF Dense
      <4> QED BY <2>2, <2>3, <4>1, <4>2
    <3>4. Abstract!Lose(a, b, c)
      BY <3>1, <3>2, <3>3 DEF Abstract!Lose, Value
    <3> QED BY <3>4 DEF Abstract!Next, Matrix
  <2> QED BY <2>1, <2>4, <2>6, <2>7
<1> QED BY <1>1, <1>2, ComponentInvariant, PTL
    DEF Spec, MultipliesMatrices, Abstract!Spec, Value
=============================================================================
