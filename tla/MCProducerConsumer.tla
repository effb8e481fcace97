------------------------- MODULE MCProducerConsumer -------------------------
(***************************************************************************)
(* Instances of ProducerConsumer for TLC: three threads, one kind of item, *)
(* phases of two inserts, and a second implementation that finds active as *)
(* the first one left it.  OpsBound bounds the length of a run; a ring of  *)
(* three phase starts wraps around within it.                              *)
(***************************************************************************)
EXTENDS ProducerConsumer
=============================================================================
