------------------------------- MODULE MCGEMM -------------------------------
(***************************************************************************)
(* Instances of GEMM for TLC: a single thread, or two threads that share   *)
(* the block rows, with two implementations of the bag one after the       *)
(* other.  The bag may miss an item once for each thread.                  *)
(***************************************************************************)
EXTENDS GEMM

MCBlocks == (0 .. NB - 1) \X (0 .. NB - 1)
=============================================================================
