------------------------------- MODULE Counting -------------------------------
(***************************************************************************)
(* The sum of a function over a set as the size of a set, which can be     *)
(* reasoned about without induction: f[x] tokens for each x.               *)
(***************************************************************************)
EXTENDS Integers, FiniteSets

Tokens(S, f) == UNION {{x} \X (1 .. f[x]) : x \in S}

SumOver(S, f) == Cardinality(Tokens(S, f))
===============================================================================
