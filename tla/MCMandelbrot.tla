---------------------------- MODULE MCMandelbrot ----------------------------
(***************************************************************************)
(* Instances of Mandelbrot for TLC: one or two producers and consumers, an *)
(* image of four pixels by four in regions of four pixels or in one of     *)
(* sixteen, and two implementations.  The bag may miss an item once for    *)
(* each consumer.                                                          *)
(***************************************************************************)
EXTENDS Mandelbrot

MCRegions == 0 .. 3
=============================================================================
