---------------------------- MODULE SparseMatrix ----------------------------
(***************************************************************************)
(* Sparse matrices in compressed rows (SpMatrix), the matrices they        *)
(* denote, how one is read from a file, and the sparse accumulator with    *)
(* which the rows of a product are computed.                               *)
(*                                                                         *)
(* A compressed matrix has m rows and n columns numbered from 0; its       *)
(* arrays rp, ci and v are sequences, so rp[i + 1] is the code's rp[i].    *)
(***************************************************************************)
EXTENDS Integers, Sequences, FiniteSetsExt, SequencesExt

\* The sum of f[x] for x in S.
SumOf(S, f) == MapThenSumSet(LAMBDA x : f[x], S)

Positions(m, n) == (0 .. m - 1) \X (0 .. n - 1)

\* The indices in ci and v of the nonzeros of row i.
Slots(M, i) == M.rp[i + 1] + 1 .. M.rp[i + 2]

\* The matrix a compressed matrix stands for.
Dense(M) ==
  [m |-> M.m, n |-> M.n,
   at |-> [p \in Positions(M.m, M.n) |->
             SumOf({s \in Slots(M, p[1]) : M.ci[s] = p[2]}, M.v)]]

Times(X, Y) ==
  [m |-> X.m, n |-> Y.n,
   at |-> [p \in Positions(X.m, Y.n) |->
             SumOf(0 .. X.n - 1,
                   [j \in 0 .. X.n - 1 |-> X.at[<<p[1], j>>] * Y.at[<<j, p[2]>>]])]]

IsCompressed(M) ==
  /\ Len(M.rp) = M.m + 1 /\ M.rp[1] = 0
  /\ \A i \in 1 .. M.m : M.rp[i] <= M.rp[i + 1]
  /\ Len(M.ci) = M.rp[M.m + 1] /\ Len(M.v) = M.rp[M.m + 1]
  /\ \A i \in 0 .. M.m - 1 : \A s, u \in Slots(M, i) :
       M.ci[s] \in 0 .. M.n - 1 /\ (M.ci[s] = M.ci[u] => s = u)

-----------------------------------------------------------------------------
\* Reading a matrix.  A line <<i, j, x>> of a file counts rows and columns
\* from 1, a triple of the matrix from 0.

\* Mij[k]'s row pointer: the triples before the first one of row r or later.
RowPointer(Mij, r) ==
  Min({k - 1 : k \in {l \in DOMAIN Mij : Mij[l][1] >= r}} \cup {Len(Mij)})

FromTriples(m, n, Mij) ==
  [m |-> m, n |-> n,
   rp |-> [i \in 1 .. m + 1 |-> RowPointer(Mij, i - 1)],
   ci |-> [k \in DOMAIN Mij |-> Mij[k][2]],
   v  |-> [k \in DOMAIN Mij |-> Mij[k][3]]]

RowMajorLessThan(a, b) == a[1] < b[1] \/ (a[1] = b[1] /\ a[2] < b[2])

\* The pairs of S in row-major order: element i has i - 1 before it.
RowMajor(S) ==
  [i \in 1 .. Cardinality(S) |->
     CHOOSE x \in S : Cardinality({y \in S : RowMajorLessThan(y, x)}) = i - 1]

\* The triples of the positions in S, in row-major order, with the values x.
Triples(S, x) ==
  LET order == RowMajor(S)
  IN  [k \in DOMAIN order |-> <<order[k][1], order[k][2], x[order[k]]>>]

PositionsOf(Mij) == {<<Mij[k][1], Mij[k][2]>> : k \in DOMAIN Mij}
ValuesAt(Mij, p) ==
  {Mij[k][3] : k \in {l \in DOMAIN Mij : <<Mij[l][1], Mij[l][2]>> = p}}

\* Mutant: duplicates are sorted next to each other and not merged.
Merged_Unmerged(Mij) == {SortSeq(Mij, RowMajorLessThan)}

\* Sorted in row-major order, one triple kept of those of one position.  The
\* sort is not stable, so that any of them may be the last.
Merged(Mij) ==
  LET kept == {x \in [PositionsOf(Mij) -> UNION {ValuesAt(Mij, p) : p \in PositionsOf(Mij)}] :
                 \A p \in PositionsOf(Mij) : x[p] \in ValuesAt(Mij, p)}
  IN  {Triples(PositionsOf(Mij), x) : x \in kept}

\* The loop reads once more after the last line of the file and finds it empty.
\* Its locals i, j and v are then never set, as they are declared in the loop;
\* built as usual they still are those of the line before, and that is assumed.
Read(file) ==
  LET Triple(line) == <<line[1] - 1, line[2] - 1, line[3]>>
  IN  [k \in 1 .. Len(file) + 1 |-> Triple(file[Min({k, Len(file)})])]

Loaded(m, n, file) == {FromTriples(m, n, Mij) : Mij \in Merged(Read(file))}

\* The matrices a file may denote, whatever LoadFromFile does.
Denoted(m, n, file) ==
  {[m |-> m, n |-> n, at |-> x] :
     x \in {y \in [Positions(m, n) -> {0} \cup {file[k][3] : k \in DOMAIN file}] :
              \A p \in Positions(m, n) :
                LET line == <<p[1] + 1, p[2] + 1>>
                IN  IF line \in PositionsOf(file) THEN y[p] \in ValuesAt(file, line)
                                                  ELSE y[p] = 0}}

-----------------------------------------------------------------------------
\* Saving a matrix.  A value is printed with as many significant digits as an
\* output stream prints by default and is rounded to them, a tie to even.  The
\* values TLC computes with have at most nine digits.
Printed(x, digits) ==
  LET fits(e) == x \in -(10^(e + digits)) .. 10^(e + digits)
      unit == Min({10^e : e \in {d \in 0 .. 9 - digits : fits(d)}})
      q    == x \div unit
      up   == 2 * (x % unit) > unit \/ (2 * (x % unit) = unit /\ q % 2 = 1)
  IN  (IF up THEN q + 1 ELSE q) * unit

\* The row a slot of the arrays belongs to.
RowOf(M, s) == CHOOSE i \in 0 .. M.m - 1 : s \in Slots(M, i)

\* Mutant: the column is written as it is stored.
ToLines_ZeroBased(M, digits) ==
  [s \in DOMAIN M.ci |-> <<RowOf(M, s) + 1, M.ci[s], Printed(M.v[s], digits)>>]

\* SaveToFile, row by row
ToLines(M, digits) ==
  [s \in DOMAIN M.ci |-> <<RowOf(M, s) + 1, M.ci[s] + 1, Printed(M.v[s], digits)>>]

-----------------------------------------------------------------------------
\* SparseAccumulator: a row of n sums, those of the columns in nzs; the
\* entries of earlier rows stay in v and used, with an older version.
NewSPA(n, garbage) ==
  [version |-> 1, used |-> [k \in 0 .. n - 1 |-> 0],
   v |-> [k \in 0 .. n - 1 |-> garbage], nzs |-> <<>>]

\* Mutant: the first value of a row is added to what v held before.
AddTo_NoReset(spa, p) ==
  IF spa.used[p.k] /= spa.version
  THEN [spa EXCEPT !.used[p.k] = spa.version, !.v[p.k] = @ + p.x,
                   !.nzs = Append(@, p.k)]
  ELSE [spa EXCEPT !.v[p.k] = @ + p.x]

AddTo(spa, p) ==
  IF spa.used[p.k] /= spa.version
  THEN [spa EXCEPT !.used[p.k] = spa.version, !.v[p.k] = p.x,
                   !.nzs = Append(@, p.k)]
  ELSE [spa EXCEPT !.v[p.k] = @ + p.x]

Clear(spa) == [spa EXCEPT !.nzs = <<>>, !.version = @ + 1]

\* The products that make up row i of A*B, in the order they are added: of
\* each nonzero of row i of A with the nonzeros of a row of B.
Products(A, B, i) ==
  LET order == RowMajor(UNION {{s} \X Slots(B, A.ci[s]) : s \in Slots(A, i)})
  IN  [q \in DOMAIN order |-> [k |-> B.ci[order[q][2]],
                              x |-> A.v[order[q][1]] * B.v[order[q][2]]]]

AddAll(spa, products) == FoldLeft(AddTo, spa, products)

\* The nonzeros of the row in the accumulator, in the order first added to.
Nonzeros(spa) ==
  LET kept  == {c \in DOMAIN spa.nzs : spa.v[spa.nzs[c]] /= 0}
      order == RowMajor({<<c, spa.nzs[c]>> : c \in kept})
  IN  [c \in DOMAIN order |-> [k |-> order[c][2], x |-> spa.v[order[c][2]]]]

-----------------------------------------------------------------------------
\* The matrix whose row r - 1 has the nonzeros rows[r].
RowPointers(rows) ==
  [i \in 1 .. Len(rows) + 1 |->
     SumOf(1 .. i - 1, [r \in DOMAIN rows |-> Len(rows[r])])]

FromRows(rows, n) ==
  LET rp     == RowPointers(rows)
      row(s) == CHOOSE r \in DOMAIN rows : rp[r] < s /\ s <= rp[r + 1]
      at(s)  == rows[row(s)][s - rp[row(s)]]
  IN  [m |-> Len(rows), n |-> n, rp |-> rp,
       ci |-> [s \in 1 .. rp[Len(rp)] |-> at(s).k],
       v  |-> [s \in 1 .. rp[Len(rp)] |-> at(s).x]]
=============================================================================
