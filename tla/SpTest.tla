------------------------------- MODULE SpTest -------------------------------
(***************************************************************************)
(* The SpTest program: it squares the matrix it loads with the algorithm   *)
(* of its command line and saves the result.  Here are its two parallel    *)
(* algorithms, the row store of DSParallelSpGEMM and the triplet store of  *)
(* TripletStore, and the sequential algorithm of Gustavson, which one      *)
(* thread runs.  The libraries librsb and CombBLAS are not built in.       *)
(***************************************************************************)
EXTENDS DSParallelSpGEMM, TripletStore, Sequences, TLC

CONSTANT CommandLines   \* sequences of words, as in argv from argv[1]

VARIABLE algorithm   \* algorithm_t

testVars == <<regionVars, tripletVars, algorithm>>

\* algorithm_t, as far as no_algorithms allows.
Algorithms ==
  "0" :> "OWN_RS" @@ "1" :> "OWN_TS" @@ "2" :> "GUSTAVSON" @@ "3" :> "LIBRSB"

\* From word i on: the algorithm that is set, "" for none.  The last word is
\* the matrix file, whatever it is.
process_arguments(argv) ==
  LET bad == [exits |-> TRUE, algorithm |-> "", result |-> ""]
      from[i \in 1 .. Len(argv) + 2] ==
        CASE i > Len(argv) -> bad
          [] i = Len(argv) -> [bad EXCEPT !.exits = FALSE]
          [] i < Len(argv) /\ argv[i] = "-a" /\ argv[i + 1] \in DOMAIN Algorithms ->
               LET rest == from[i + 2]
               IN  IF rest.algorithm /= "" THEN rest
                   ELSE [rest EXCEPT !.algorithm = Algorithms[argv[i + 1]]]
          [] i + 1 < Len(argv) /\ argv[i] = "-o" ->
               LET rest == from[i + 2]
               IN  IF rest.result /= "" THEN rest
                   ELSE [rest EXCEPT !.result = argv[i + 1]]
          [] OTHER -> bad
  IN  from[1]

\* test_SpMM_DSParallelRS
InitRS == algorithm = "OWN_RS" /\ RegionInit

\* test_SpMM_DSParallelTS
InitTS ==
  /\ algorithm = "OWN_TS"
  /\ RowStoreInit
  /\ rp = [i \in 0 .. M |-> 0]   \* SpMatrix C(A.m, B.n, 0)
  /\ C = [s \in {} |-> <<>>]
  /\ phase1 = 0 /\ phase2 = 0 /\ phase3 = 0
  /\ pc = [t \in Workers |-> "claim_unit"]

\* test_SpMM_sequential: the main thread has all rows to compute, and there is
\* no team of workers.
Main == CHOOSE t \in Workers : TRUE

InitSequential ==
  /\ algorithm = "GUSTAVSON"
  /\ M > 0
  /\ nextci = M
  /\ element_count = [i \in Rows |-> 0]
  /\ bag = {}
  /\ rp = [i \in 0 .. M |-> 0]
  /\ C = [s \in {} |-> <<>>]
  /\ unit = [t \in Workers |-> IF t = Main THEN [first |-> 0, next |-> 0, end |-> M]
                                          ELSE NoUnit]
  /\ phase1 = 0 /\ phase2 = 0 /\ phase3 = 0
  /\ pc = [t \in Workers |-> IF t = Main THEN "compute" ELSE "no_thread"]

TestInit ==
  /\ TripletInit
  /\ \E argv \in CommandLines :
       LET settings == process_arguments(argv)
       IN  /\ ~settings.exits
           /\ algorithm = IF settings.algorithm = "" THEN "OWN_RS"
                                                     ELSE settings.algorithm
  /\ InitRS \/ InitTS \/ InitSequential   \* LIBRSB is not built in

-----------------------------------------------------------------------------
\* SpGEMM_Gustavson_RowStore, once all rows are computed: the row pointers,
\* and the ci and v vectors.
SequentialLayOut(t) ==
  /\ pc[t] = "insert"
  /\ LayOut
  /\ Goto(t, "copy_back")
  /\ UNCHANGED <<nextci, element_count, bag, unit>>

\* Ci.back() and Ci.pop_back(): the rows are copied from the last one on.
CopyBack(t) ==
  LET i == unit[t].end - 1
  IN  /\ pc[t] = "copy_back"
      /\ C' = [s \in DOMAIN C |->
                 IF s - rp[i] \in 0 .. element_count[i] - 1
                 THEN <<i, s - rp[i]>> ELSE C[s]]
      /\ unit' = [unit EXCEPT ![t] = IF i > 0 THEN [@ EXCEPT !.end = i] ELSE NoUnit]
      /\ IF i > 0 THEN Goto(t, "copy_back") ELSE pc' = [u \in Workers |-> "done"]
      /\ UNCHANGED <<nextci, element_count, bag, rp>>

StepSequential(t) ==
  /\ algorithm = "GUSTAVSON"
  /\ ComputeRow(t) \/ SequentialLayOut(t) \/ CopyBack(t)
  /\ UNCHANGED <<phases, tripletVars, algorithm>>

StepRS(t) ==
  /\ algorithm = "OWN_RS"
  /\ RegionStep(t)
  /\ UNCHANGED <<tripletVars, algorithm>>

StepTS(t) ==
  /\ algorithm = "OWN_TS"
  /\ TripletStep(t)
  /\ UNCHANGED <<phases, algorithm>>

Barrier ==
  /\ algorithm = "OWN_TS"
  /\ EndParallel
  /\ UNCHANGED <<phases, algorithm>>

TestNext == Barrier \/ \E t \in Workers : StepRS(t) \/ StepTS(t) \/ StepSequential(t)

TestSpec == TestInit /\ [][TestNext]_testVars

\* The OpenMP runtime runs every thread of the team.
FairTestSpec ==
  /\ TestSpec
  /\ \A t \in Workers : WF_testVars(StepRS(t) \/ StepTS(t) \/ StepSequential(t))
  /\ WF_testVars(Barrier)

-----------------------------------------------------------------------------
\* The result of the algorithms that do not race is the product.  In the
\* triplet store each nonzero that some worker found is in a slot of its row,
\* none is lost or overwritten, and the row pointers, which all workers
\* decrement, end up right; the sequential algorithm stores the rows in order.
AlgorithmsMultiply ==
  AllDone =>
    /\ algorithm = "OWN_TS" => IsProductUnordered /\ bag = {}
    /\ algorithm = "GUSTAVSON" => IsProduct

\* While the second region fills C, every row pointer stays within its row,
\* above the slots that are filled or claimed and not below the row's start:
\* the triples that are left are as many as the slots that are left
\* ("Bad idx", SpGEMM_DSParallel.h:318, never comes).
SlotsLeft ==
  LET unplaced(i) == {x \in bag : x[1] = i}
      deciding(i) == {t \in Workers : pc[t] = "claim_slot" /\ triple[t][1] = i}
  IN  algorithm = "OWN_TS" /\ (\E t \in Workers : pc[t] \in {"remove", "claim_slot", "fill"})
      => \A i \in Rows :
           rp[i] - Before(Nnz, i) = Cardinality(unplaced(i)) + Cardinality(deciding(i))
=============================================================================
