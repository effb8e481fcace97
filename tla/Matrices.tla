------------------------------ MODULE Matrices ------------------------------
(***************************************************************************)
(* What the SpGEMM component promises: a call puts the product of its two  *)
(* input matrices in its output matrix, whatever variant computes it and   *)
(* wherever the data was, or loses some of the product (the parallel       *)
(* variant may), and nothing else changes a matrix.  What has been lost    *)
(* comes back only with another product, and is in none until then.        *)
(***************************************************************************)
EXTENDS SparseMatrix

CONSTANTS Rows, Columns, Files

VARIABLES
  value,   \* value[M]: the matrix M stands for
  lost     \* those of which entries have been lost

Empty == [m |-> 0, n |-> 0, at |-> [p \in {} |-> 0]]

Init ==
  /\ \E file \in Files : \E X \in Denoted(Rows, Columns, file) :
       value = [A |-> X, Res |-> Empty]
  /\ lost = {}

CanMultiply(a, b) == {a, b} \cap lost = {} /\ value[a].n = value[b].m

Multiply(a, b, c) ==
  /\ lost' = lost \ {c}
  /\ CanMultiply(a, b)
  /\ value' = [value EXCEPT ![c] = Times(value[a], value[b])]

Lose(a, b, c) ==
  /\ lost' = lost \cup {c}
  /\ CanMultiply(a, b)
  /\ value'[c].m = value[a].m /\ value'[c].n = value[b].n
  /\ value' = [value EXCEPT ![c] = value'[c]]

Next == \E a, b, c \in {"A", "Res"} : Multiply(a, b, c) \/ Lose(a, b, c)

Spec == Init /\ [][Next]_<<value, lost>>
=============================================================================
