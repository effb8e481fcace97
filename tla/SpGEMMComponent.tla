-------------------------- MODULE SpGEMMComponent --------------------------
(***************************************************************************)
(* The GRS component SpGEMM_component_csr and its matrices.                *)
(*                                                                         *)
(* The arrays rp, ci and v of a matrix_csr are GRS vectors, each with a    *)
(* copy in the memory of the CPU and one in that of the GPU, of which mode *)
(* says which is valid (0: CPU, 1: GPU).  A call reads its inputs on the   *)
(* side of the variant that runs, which refreshes the copy there, and      *)
(* replaces the arrays of its output on that side.  There are three        *)
(* variants: the parallel one of DSParallelSpGEMM, here with its outcomes,  *)
(* also those of a sequential phase that was run twice; the sequential     *)
(* one, Gustavson's algorithm, here row by row; and that of the bhSPARSE   *)
(* library on the GPU.                                                     *)
(*                                                                         *)
(* The vector m_n_nzmax always has mode 0 and is kept as dims.  A call is  *)
(* a step of an execution graph; MaxCalls bounds how many there are.       *)
(***************************************************************************)
EXTENDS SparseMatrix

CONSTANTS
  Rows, Columns,  \* of the matrix that is loaded
  Files,          \* the files it may be loaded from, sequences of lines
  Digits,         \* the significant digits a stream prints of a value
  MaxCalls,
  Garbage         \* what storage holds before it is written

ASSUME SpGEMMComponentAssumption ==
  /\ Rows \in Nat \ {0} /\ Columns \in Nat \ {0} /\ MaxCalls \in Nat
  /\ Digits \in 1 .. 9 /\ Garbage \in Int
  /\ \A file \in Files :
       /\ Len(file) > 0
       /\ file \in Seq((1 .. Rows) \X (1 .. Columns) \X Int)

Matrix == {"A", "Res"}
Field  == {"rp", "ci", "v"}

VARIABLES
  vec,    \* vec[M][f]: the GRS vector of array f
  dims,   \* dims[M]: rows and columns, as in m_n_nzmax
  call,   \* the operands of the call that runs
  calls,  \* the number of calls so far
  lost,   \* the matrices in which the parallel variant left entries unwritten
  SPA,    \* the accumulator
  Ci,     \* the rows computed, Ci[i + 1] the nonzeros of row i
  C,      \* the result
  pc

kernel == <<SPA, Ci, C>>
vars == <<vec, dims, call, calls, lost, kernel, pc>>

-----------------------------------------------------------------------------
Fresh(size) == [i \in 1 .. size |-> Garbage]

\* grs_vector_init, of external code: both copies have the size given.
Vector(data) ==
  [mode |-> 0, size |-> Len(data), cpu |-> data, gpu |-> Fresh(Len(data))]

ReadOnCpu(x) ==
  IF x.mode = 1 THEN [x EXCEPT !.cpu = x.gpu, !.mode = 0] ELSE x

ReadOnGpu(x) ==
  IF x.mode = 0 THEN [x EXCEPT !.gpu = x.cpu, !.mode = 1] ELSE x

ReplaceOnCpu(x, data) ==
  [mode |-> 0, size |-> Len(data), cpu |-> data,
   gpu |-> IF x.size /= Len(data) THEN Fresh(Len(data)) ELSE x.gpu]

\* Mutant: the CPU side keeps its old size.
ReplaceOnGpu_NoResize(x, data) ==
  [mode |-> 1, size |-> Len(data), gpu |-> data, cpu |-> x.cpu]

ReplaceOnGpu(x, data) ==
  [mode |-> 1, size |-> Len(data), gpu |-> data,
   cpu |-> IF x.size /= Len(data) THEN Fresh(Len(data)) ELSE x.cpu]

\* The vectors once the matrices in Ms are read on side.
ReadMatrices(Ms, side) ==
  LET ReadOn(x) == IF side = "cpu" THEN ReadOnCpu(x) ELSE ReadOnGpu(x)
  IN  [M \in Matrix |-> IF M \in Ms THEN [f \in Field |-> ReadOn(vec[M][f])]
                                    ELSE vec[M]]

\* The compressed matrix in the copies of its vectors on side.
Stored(vectors, M, side) ==
  [m |-> dims[M].m, n |-> dims[M].n, rp |-> vectors[M].rp[side],
   ci |-> vectors[M].ci[side], v |-> vectors[M].v[side]]

\* What M would be saved as.
Saved(M) == Stored(ReadMatrices({M}, "cpu"), M, "cpu")

NoKernel ==
  /\ SPA' = NewSPA(0, Garbage)
  /\ Ci' = <<>>
  /\ C' = FromTriples(0, 0, <<>>)

-----------------------------------------------------------------------------
\* A is loaded, Res is matrix_csr(0, 0), whose one row pointer is not set.
Init ==
  /\ \E file \in Files : \E A \in Loaded(Rows, Columns, file) :
       vec = [A   |-> [f \in Field |-> Vector(A[f])],
              Res |-> [f \in Field |-> Vector(IF f = "rp" THEN Fresh(1)
                                                         ELSE <<>>)]]
  /\ dims = [A |-> [m |-> Rows, n |-> Columns], Res |-> [m |-> 0, n |-> 0]]
  /\ call = [a |-> "A", b |-> "A", c |-> "Res"]
  /\ calls = 0
  /\ lost = {}
  /\ SPA = NewSPA(0, Garbage)
  /\ Ci = <<>>
  /\ C = FromTriples(0, 0, <<>>)
  /\ pc = "idle"

\* setup_call sets any operands.  Those of which something is known: their
\* sizes agree, they hold a matrix, and none of its entries is lost.
Multiplicable(a, b) ==
  /\ dims[a].m > 0 /\ dims[b].m > 0 /\ dims[a].n = dims[b].m
  /\ {a, b} \cap lost = {}

CanCall(a, b) == pc = "idle" /\ calls < MaxCalls /\ Multiplicable(a, b)

\* A call may also end the program: by assert(A.n == B.m), by a column number
\* that was never set or, whatever the operands, when two workers of the
\* parallel variant both free the old arrays of C.
CallUndefined ==
  /\ pc = "idle" /\ calls < MaxCalls
  /\ pc' = "undefined"
  /\ UNCHANGED <<vec, dims, call, calls, lost, kernel>>

\* The product when the entries in slots were not copied to the last arrays that
\* a worker made.  Its row pointers are right (RowPointersRight in
\* DSParallelSpGEMM); Garbage stands for any value in these slots.
Unwritten(product, slots) ==
  LET left(s, x) == IF s \in slots THEN Garbage ELSE x
  IN  [product EXCEPT !.ci = [s \in DOMAIN @ |-> left(s, @[s])],
                      !.v  = [s \in DOMAIN @ |-> left(s, @[s])]]

\* perform_op of the parallel variant.  No entry is lost if one worker has the
\* sequential phase.
CallDSParallel(a, b, c) ==
  LET read    == ReadMatrices({a, b}, "cpu")
      A       == Stored(read, a, "cpu")
      B       == Stored(read, b, "cpu")
      row(r)  == Nonzeros(AddAll(NewSPA(B.n, Garbage), Products(A, B, r - 1)))
      product == FromRows([r \in 1 .. A.m |-> row(r)], B.n)
  IN
  /\ CanCall(a, b)
  /\ \E slots \in SUBSET DOMAIN product.ci :
       /\ vec' = [read EXCEPT ![c] =
                    [f \in Field |-> ReplaceOnCpu(@[f], Unwritten(product, slots)[f])]]
       /\ lost' = IF slots = {} THEN lost \ {c} ELSE lost \cup {c}
  /\ dims' = [dims EXCEPT ![c] = [m |-> product.m, n |-> product.n]]
  /\ call' = [a |-> a, b |-> b, c |-> c]
  /\ calls' = calls + 1
  /\ UNCHANGED <<kernel, pc>>

\* perform_op of the sequential variant, as far as the product.
CallSequential(a, b, c) ==
  /\ CanCall(a, b)
  /\ vec' = ReadMatrices({a, b}, "cpu")
  /\ call' = [a |-> a, b |-> b, c |-> c]
  /\ calls' = calls + 1
  /\ SPA' = NewSPA(dims[b].n, Garbage)
  /\ pc' = "row"
  /\ UNCHANGED <<dims, lost, Ci, C>>

ComputeRow ==
  LET spa == AddAll(SPA, Products(Stored(vec, call.a, "cpu"),
                                  Stored(vec, call.b, "cpu"), Len(Ci)))
  IN
  /\ pc = "row" /\ Len(Ci) < dims[call.a].m
  /\ Ci' = Append(Ci, Nonzeros(spa))
  /\ SPA' = Clear(spa)
  /\ UNCHANGED <<vec, dims, call, calls, lost, C, pc>>

LayOut ==
  /\ pc = "row" /\ Len(Ci) = dims[call.a].m
  /\ LET rp == RowPointers(Ci)
     IN C' = [m |-> Len(Ci), n |-> dims[call.b].n, rp |-> rp,
              ci |-> Fresh(rp[Len(rp)]), v |-> Fresh(rp[Len(rp)])]
  /\ pc' = "copy"
  /\ UNCHANGED <<vec, dims, call, calls, lost, SPA, Ci>>

\* The rows are taken from the back of the vector.
CopyRow ==
  /\ pc = "copy" /\ Ci /= <<>>
  /\ LET row   == Last(Ci)
         begin == C.rp[Len(Ci)]
     IN C' = [C EXCEPT
          !.ci = [s \in DOMAIN @ |-> IF s - begin \in DOMAIN row
                                     THEN row[s - begin].k ELSE @[s]],
          !.v  = [s \in DOMAIN @ |-> IF s - begin \in DOMAIN row
                                     THEN row[s - begin].x ELSE @[s]]]
  /\ Ci' = Front(Ci)
  /\ UNCHANGED <<vec, dims, call, calls, lost, SPA, pc>>

\* convert_to_grs_output.  The output may be one of the inputs.
OutputCpu ==
  /\ pc = "copy" /\ Ci = <<>>
  /\ vec' = [vec EXCEPT ![call.c] =
               [f \in Field |-> ReplaceOnCpu(@[f], C[f])]]
  /\ dims' = [dims EXCEPT ![call.c] = [m |-> C.m, n |-> C.n]]
  /\ lost' = lost \ {call.c}
  /\ NoKernel
  /\ pc' = "idle"
  /\ UNCHANGED <<call, calls>>

\* convert_to_grs_gpu_output
OutputGpu(vectors, product) ==
  [f \in Field |-> ReplaceOnGpu(vectors[f], product[f])]

\* The product bhSPARSE, external code, leaves on the GPU.
GpuProduct(A, B) ==
  LET X   == Times(Dense(A), Dense(B))
      nzs == {p \in Positions(X.m, X.n) : X.at[p] /= 0}
  IN  FromTriples(X.m, X.n, Triples(nzs, X.at))

\* perform_op of the GPU variant, built with MODIFIED_BHSPARSE.
CallGpu(a, b, c) ==
  LET read    == ReadMatrices({a, b}, "gpu")
      product == GpuProduct(Stored(read, a, "gpu"), Stored(read, b, "gpu"))
  IN
  /\ CanCall(a, b)
  /\ vec' = [read EXCEPT ![c] = OutputGpu(@, product)]
  /\ dims' = [dims EXCEPT ![c] = [m |-> product.m, n |-> product.n]]
  /\ lost' = lost \ {c}
  /\ call' = [a |-> a, b |-> b, c |-> c]
  /\ calls' = calls + 1
  /\ UNCHANGED <<kernel, pc>>

\* convert_to_SpMatrix, which save_to_file uses.
Save(M) ==
  /\ pc = "idle"
  /\ vec' = ReadMatrices({M}, "cpu")
  /\ UNCHANGED <<dims, call, calls, lost, kernel, pc>>

Next ==
  \/ \E a, b, c \in Matrix :
       CallDSParallel(a, b, c) \/ CallSequential(a, b, c) \/ CallGpu(a, b, c)
  \/ CallUndefined
  \/ ComputeRow \/ LayOut \/ CopyRow \/ OutputCpu
  \/ \E M \in Matrix : Save(M)

Spec == Init /\ [][Next]_vars

-----------------------------------------------------------------------------
\* Neither copy of a vector is smaller or larger than its size, so that a
\* refresh never writes past the end of the other copy: the size is changed in
\* four places, and the storage of the other side with it
\* (SpGEMM_component.cpp:306-360).
BuffersFit ==
  \A M \in Matrix, f \in Field :
    LET x == vec[M][f] IN Len(x.cpu) = x.size /\ Len(x.gpu) = x.size

\* Every matrix that was loaded or computed is a well-formed compressed matrix,
\* unless entries of it were lost to a second sequential phase: row pointers
\* ascend from 0 to the number of nonzeros and a row has no column twice,
\* although a file may repeat an entry and its last line is read twice
\* (SpMatrix.cpp:138-177, SpGEMM_Gustavson.h:80-117).
WellFormed ==
  \A M \in Matrix \ lost : dims[M].m > 0 => IsCompressed(Saved(M))

\* A matrix with a nonzero that is saved and loaded again is the same matrix
\* but for the digits its values lose, whatever order the variant left a row's
\* columns in and although the last line is read twice (SpMatrix.cpp:103-177),
\* unless entries of it were never written.
SavedReloads ==
  \A M \in Matrix \ lost :
    dims[M].m > 0 /\ Saved(M).ci /= <<>> =>
      LET X == Saved(M)
          printed == [X EXCEPT !.v = [s \in DOMAIN @ |-> Printed(@[s], Digits)]]
      IN  {Dense(Y) : Y \in Loaded(X.m, X.n, ToLines(X, Digits))} = {Dense(printed)}

Abstract == INSTANCE Matrices WITH
  value <- [M \in Matrix |-> Dense(Saved(M))]

\* Whatever variants a sequence of calls is given, wherever the valid copies
\* are, and also when an input is the output, a call puts the product of its
\* inputs in its output, unless the parallel variant let two workers into its
\* sequential phase and lost entries (SpGEMM_DSParallel.h:187-189); no other
\* step changes what a matrix stands for.
MultipliesMatrices == Abstract!Spec
=============================================================================
