---------------------------- MODULE MCMSTLBQueue ----------------------------
(***************************************************************************)
(* An instance of MSTLBQueue for TLC.  Nodes bounds the heap, hence the    *)
(* length of the queue, and makes addresses be reused; calls are not       *)
(* bounded.  There is no symmetry, as liveness is checked.                 *)
(***************************************************************************)
EXTENDS MSTLBQueue
=============================================================================
