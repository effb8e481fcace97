------------------------- MODULE MCSpGEMMExperiment -------------------------
(***************************************************************************)
(* Instances of SpGEMMExperiment for TLC: three threads, five rows (one   *)
(* of them empty) in work units of two rows, the last unit incomplete, and *)
(* a second iteration on what the first one left.                          *)
(***************************************************************************)
EXTENDS SpGEMMExperiment

MCNnz == [i \in Rows |-> <<2, 0, 1, 1, 2>>[i + 1]]
=============================================================================
