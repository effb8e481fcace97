------------------------------ MODULE RowStore ------------------------------
(***************************************************************************)
(* The row-by-row sparse product C = A*B that both SpGEMM drivers run:     *)
(* workers claim work units of rows and put the result rows in a bag (1P), *)
(* one worker lays C out from the row sizes (2S), and workers take the     *)
(* rows from the bag and copy them to their place in C (3P).               *)
(*                                                                         *)
(* The drivers, DSParallelSpGEMM and SpGEMMExperiment, add the control     *)
(* between the phases.  The bag is linearizable, as AtomicQueue promises.  *)
(***************************************************************************)
EXTENDS Counting, FiniteSetsExt

CONSTANTS
  Workers,   \* the threads
  M,         \* the number of rows of A and C
  WUSize,    \* the number of rows in a work unit
  Nnz        \* Nnz[i]: the number of nonzeros in row i of the product

Rows == 0 .. M - 1

ASSUME RowStoreAssumption ==
  /\ IsFiniteSet(Workers)
  /\ M \in Nat
  /\ WUSize \in Nat \ {0}
  /\ Nnz \in [Rows -> Nat]

VARIABLES
  nextci,        \* the first row not yet claimed
  element_count, \* element_count[i]: the size of row i, 0 until computed
  bag,           \* the work units stored, each by its first row
  rp,            \* C.rp
  C,             \* C.ci and C.v: C[s] = <<i, k>> when slot s holds nonzero k
                 \*   of row i, <<>> when it was not written
  unit,          \* unit[t]: the rows of the work unit t has, yet to be done
  phase1, phase2, phase3,   \* the counters by which the phases are told apart
  pc

rowVars == <<nextci, element_count, bag, rp, C, unit>>
phases == <<phase1, phase2, phase3>>

\* The rows of the unit that starts at row i.
UnitRows(i) == [first |-> i, next |-> i, end |-> Min({i + WUSize, M})]
NoUnit == [first |-> 0, next |-> 0, end |-> 0]

Goto(t, there) == pc' = [pc EXCEPT ![t] = there]

-----------------------------------------------------------------------------
\* SpMM_DSParallel_RowStore_1P.

\* Mutant: the last row of a unit is taken for the end of the unit.
ClaimUnit_Short(t) ==
  /\ pc[t] = "claim_unit"
  /\ nextci < M
  /\ nextci' = nextci + WUSize
  /\ unit' = [unit EXCEPT ![t] =
       [UnitRows(nextci) EXCEPT !.end = Max({nextci + 1, @ - 1})]]
  /\ Goto(t, "compute")
  /\ UNCHANGED <<element_count, bag, rp, C>>

\* ci = FAA32(nextci, WUSize), and there are rows left
ClaimUnit(t) ==
  /\ pc[t] = "claim_unit"
  /\ nextci < M
  /\ nextci' = nextci + WUSize
  /\ unit' = [unit EXCEPT ![t] = UnitRows(nextci)]
  /\ Goto(t, "compute")
  /\ UNCHANGED <<element_count, bag, rp, C>>

\* The same when there are none.
NoUnitLeft(t, there) ==
  /\ pc[t] = "claim_unit"
  /\ nextci >= M
  /\ nextci' = nextci + WUSize
  /\ Goto(t, there)
  /\ UNCHANGED <<element_count, bag, rp, C, unit>>

\* Compute one row into the unit and save its size.
ComputeRow(t) ==
  LET i == unit[t].next
  IN  /\ pc[t] = "compute"
      /\ element_count' = [element_count EXCEPT ![i] = Nnz[i]]
      /\ unit' = [unit EXCEPT ![t].next = i + 1]
      /\ Goto(t, IF i + 1 < unit[t].end THEN "compute" ELSE "insert")
      /\ UNCHANGED <<nextci, bag, rp, C>>

\* Ci->insert(row)
InsertUnit(t) ==
  /\ pc[t] = "insert"
  /\ bag' = bag \cup {unit[t].first}
  /\ unit' = [unit EXCEPT ![t] = NoUnit]
  /\ Goto(t, "claim_unit")
  /\ UNCHANGED <<nextci, element_count, rp, C>>

-----------------------------------------------------------------------------
\* SpMM_DSParallel_RowStore_2S: prefix sums, and new ci and v vectors.

\* How many entries the rows before row i have when row r has size[r].
Before(size, i) == SumOver(0 .. i - 1, size)

\* Mutant: a row starts where it should end.
SizeBefore_Inclusive(i) == Before(element_count, Min({i + 1, M}))

SizeBefore(i) == Before(element_count, i)

LayOut ==
  /\ rp' = [i \in 0 .. M |-> SizeBefore(i)]
  /\ C' = [s \in 0 .. SizeBefore(M) - 1 |-> <<>>]

-----------------------------------------------------------------------------
\* SpMM_DSParallel_RowStore_3P.
RemoveUnit(t) ==
  /\ pc[t] = "remove"
  /\ \E i \in bag :
       /\ bag' = bag \ {i}
       /\ unit' = [unit EXCEPT ![t] = UnitRows(i)]
  /\ Goto(t, "copy")
  /\ UNCHANGED <<nextci, element_count, rp, C>>

NothingToRemove(t) ==
  /\ pc[t] = "remove"
  /\ bag = {}
  /\ Goto(t, "done")
  /\ UNCHANGED rowVars

\* Copy one row to C, without a check that it fits.
CopyRow(t) ==
  LET i == unit[t].next
  IN  /\ pc[t] = "copy"
      /\ C' = [s \in DOMAIN C |->
                 IF s - rp[i] \in 0 .. element_count[i] - 1
                 THEN <<i, s - rp[i]>> ELSE C[s]]
      /\ unit' = [unit EXCEPT ![t] = IF i + 1 < @.end
                                     THEN [@ EXCEPT !.next = i + 1]
                                     ELSE NoUnit]
      /\ Goto(t, IF i + 1 < unit[t].end THEN "copy" ELSE "remove")
      /\ UNCHANGED <<nextci, element_count, bag, rp>>

-----------------------------------------------------------------------------
RowStoreInit ==
  /\ nextci = 0
  /\ element_count = [i \in Rows |-> 0]
  /\ bag = {}
  /\ unit = [t \in Workers |-> NoUnit]

\* A new bag and counters for another product into the same C.
RowStoreReset ==
  /\ nextci' = 0
  /\ element_count' = [i \in Rows |-> 0]
  /\ bag' = {}
  /\ unit' = [t \in Workers |-> NoUnit]
  /\ UNCHANGED <<rp, C>>

RowStep(t, afterPhase1) ==
  \/ ClaimUnit(t) \/ NoUnitLeft(t, afterPhase1) \/ ComputeRow(t) \/ InsertUnit(t)
  \/ RemoveUnit(t) \/ NothingToRemove(t) \/ CopyRow(t)

Computing(t) == pc[t] \in {"claim_unit", "compute", "insert"}
Copying(t) == pc[t] \in {"remove", "copy"}
AllDone == \A t \in Workers : pc[t] = "done"

\* Every row has been computed, and nothing of it is yet to be stored.
RowsStored ==
  /\ nextci >= M
  /\ \A t \in Workers : pc[t] \notin {"compute", "insert"}

\* C holds the product in compressed sparse row form.
IsProduct ==
  /\ rp = [i \in 0 .. M |-> Before(Nnz, i)]
  /\ \A i \in Rows : \A k \in 0 .. Nnz[i] - 1 : C[Before(Nnz, i) + k] = <<i, k>>
=============================================================================
