---------------------------- MODULE TripletStore ----------------------------
(***************************************************************************)
(* SpGEMM_DSParallel_TripletStore of the SpBLAS library: the workers of a  *)
(* first parallel region put every single nonzero of C in a bag, one       *)
(* thread lays C out, and the workers of a second region take nonzeros     *)
(* from the bag and fill each row from its end, in whatever order they     *)
(* come.  The claiming of rows and the variables are those of RowStore,    *)
(* except that the bag holds nonzeros <<i, k>>, not work units.            *)
(***************************************************************************)
EXTENDS RowStore

VARIABLES
  nnz,       \* nnz[t]: how many nonzeros of its row t has put in the bag
  triple,    \* triple[t]: the nonzero t has taken from the bag
  idx        \* idx[t]: the slot of C t has claimed for it

tripletVars == <<nnz, triple, idx>>

TripletInit ==
  /\ nnz = [t \in Workers |-> 0]
  /\ triple = [t \in Workers |-> <<>>]
  /\ idx = [t \in Workers |-> 0]

-----------------------------------------------------------------------------
\* Cik->insert(new SpMatrix::MatrixTriple_t(...))
InsertTriple(t) ==
  LET i == unit[t].next
  IN  /\ pc[t] = "compute"
      /\ nnz[t] < Nnz[i]
      /\ bag' = bag \cup {<<i, nnz[t]>>}
      /\ nnz' = [nnz EXCEPT ![t] = @ + 1]
      /\ UNCHANGED <<nextci, element_count, rp, C, unit, pc, triple, idx>>

\* element_count[ci] = nnz
FinishRow(t) ==
  LET i == unit[t].next
  IN  /\ pc[t] = "compute"
      /\ nnz[t] = Nnz[i]
      /\ element_count' = [element_count EXCEPT ![i] = nnz[t]]
      /\ nnz' = [nnz EXCEPT ![t] = 0]
      /\ unit' = [unit EXCEPT ![t] = IF i + 1 < @.end
                                     THEN [@ EXCEPT !.next = i + 1]
                                     ELSE NoUnit]
      /\ Goto(t, IF i + 1 < unit[t].end THEN "compute" ELSE "claim_unit")
      /\ UNCHANGED <<nextci, bag, rp, C, triple, idx>>

\* Mutant: each row pointer is set before its row is added.
EndParallel_Exclusive ==
  /\ \A t \in Workers : pc[t] = "end_parallel"
  /\ rp' = [i \in 0 .. M |-> SizeBefore(i)]
  /\ C' = [s \in 0 .. SizeBefore(M) - 1 |-> <<>>]
  /\ pc' = [t \in Workers |-> "remove"]
  /\ UNCHANGED <<nextci, element_count, bag, unit, tripletVars>>

\* The end of the first region, a barrier; rp[i] becomes the end of row i, and
\* the second region begins.
EndParallel ==
  /\ \A t \in Workers : pc[t] = "end_parallel"
  /\ rp' = [i \in 0 .. M |-> SizeBefore(Min({i + 1, M}))]
  /\ C' = [s \in 0 .. SizeBefore(M) - 1 |-> <<>>]
  /\ pc' = [t \in Workers |-> "remove"]
  /\ UNCHANGED <<nextci, element_count, bag, unit, tripletVars>>

\* while (Cik->try_remove_any(cik))
RemoveTriple(t) ==
  /\ pc[t] = "remove"
  /\ \E cik \in bag :
       /\ bag' = bag \ {cik}
       /\ triple' = [triple EXCEPT ![t] = cik]
  /\ Goto(t, "claim_slot")
  /\ UNCHANGED <<nextci, element_count, rp, C, unit, nnz, idx>>

\* Mutant: the slot is the value before the decrement.
ClaimSlot_OffByOne(t) ==
  LET i == triple[t][1]
  IN  /\ pc[t] = "claim_slot"
      /\ rp' = [rp EXCEPT ![i] = @ - 1]
      /\ idx' = [idx EXCEPT ![t] = rp[i]]
      /\ Goto(t, "fill")
      /\ UNCHANGED <<nextci, element_count, bag, C, unit, nnz, triple>>

\* int idx = FAA32(&C.rp[i], -1) - 1
ClaimSlot(t) ==
  LET i == triple[t][1]
  IN  /\ pc[t] = "claim_slot"
      /\ rp' = [rp EXCEPT ![i] = @ - 1]
      /\ idx' = [idx EXCEPT ![t] = rp[i] - 1]
      /\ Goto(t, "fill")
      /\ UNCHANGED <<nextci, element_count, bag, C, unit, nnz, triple>>

\* C.ci[idx] = k; C.v[idx] = v, without a check that it is in C
Fill(t) ==
  /\ pc[t] = "fill"
  /\ C' = IF idx[t] \in DOMAIN C THEN [C EXCEPT ![idx[t]] = triple[t]] ELSE C
  /\ triple' = [triple EXCEPT ![t] = <<>>]
  /\ Goto(t, "remove")
  /\ UNCHANGED <<nextci, element_count, bag, rp, unit, nnz, idx>>

-----------------------------------------------------------------------------
TripletStep(t) ==
  \/ (ClaimUnit(t) \/ NoUnitLeft(t, "end_parallel") \/ NothingToRemove(t))
       /\ UNCHANGED tripletVars
  \/ InsertTriple(t) \/ FinishRow(t)
  \/ RemoveTriple(t) \/ ClaimSlot(t) \/ Fill(t)

\* C holds the nonzeros of the product row by row, those of a row in any order,
\* and the row pointers that the fill has counted down are where the rows
\* start.
IsProductUnordered ==
  /\ rp = [i \in 0 .. M |-> Before(Nnz, i)]
  /\ \A i \in Rows :
       {C[s] : s \in Before(Nnz, i) .. Before(Nnz, i + 1) - 1} =
         {<<i, k>> : k \in 0 .. Nnz[i] - 1}
=============================================================================
