-------------------------- MODULE MCSpGEMMComponent --------------------------
(***************************************************************************)
(* An instance of SpGEMMComponent for TLC: a matrix of two rows and two    *)
(* columns, loaded from files whose lines are out of order, repeat a       *)
(* position, leave the first or the last row empty, have values that       *)
(* cancel in the product or make the product empty; with the value 3       *)
(* products have more digits than the one that is printed.                 *)
(***************************************************************************)
EXTENDS SpGEMMComponent

MCFiles ==
  {<< <<2, 2, 3>> >>,
   << <<1, 1, 1>>, <<1, 2, -1>> >>,
   << <<2, 1, 1>>, <<1, 2, 1>> >>,
   << <<1, 2, 1>>, <<1, 2, -1>> >>,
   << <<2, 2, -1>>, <<1, 1, 1>>, <<1, 2, 1>> >>}
=============================================================================
