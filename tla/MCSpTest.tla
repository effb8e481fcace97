------------------------------ MODULE MCSpTest ------------------------------
(***************************************************************************)
(* Instances of SpTest for TLC: three threads and three rows, one of them  *)
(* empty.                                                                  *)
(***************************************************************************)
EXTENDS SpTest

\* The last -a counts, and -o needs a file besides the matrix file.
MCCommandLines ==
  {<<"matrix">>, <<"-a", "1", "matrix">>, <<"-a", "1", "-a", "2", "matrix">>,
   <<"-a", "3", "-o", "result", "matrix">>, <<"-a", "4", "matrix">>,
   <<"-o", "matrix">>, <<"-a", "2">>}

MCNnz == [i \in Rows |-> <<2, 0, 1>>[i + 1]]
=============================================================================
