-------------------------- MODULE ProducerConsumer --------------------------
(***************************************************************************)
(* NBLExpProducerConsumer in the test bench: threads that produce and      *)
(* consume until the bench stops them, either all the time or, when the    *)
(* size of the collection is restricted, in active phases, whose           *)
(* operations are counted, with passive phases between them in which the   *)
(* collection is emptied (or filled, in the pattern without producers).    *)
(* One of the threads, the leader, switches the phases through the shared  *)
(* flag active, which the others read before each of their operations.     *)
(***************************************************************************)
EXTENDS ProducerConsumerBase

CONSTANTS
  Patterns,        \* the communication patterns a user may choose
  Restrictions,    \* the MAX_INSERTS a user may choose, 0 for no phases
  EmptyChecks,     \* the empty bags in a row that end a passive phase: 20
  MAX_PHASES,      \* the number of phase starts that are kept: 16
  OpsBound         \* bound: the counted operations of all threads

ASSUME ProducerConsumerAssumption ==
  /\ Patterns \subseteq 0 .. 43
  /\ Restrictions \subseteq Nat
  /\ EmptyChecks \in Nat \ {0}
  /\ MAX_PHASES \in Nat \ {0, 1}

VARIABLES
  COMM_NR, MAX_INSERTS,
  active,
  phases,          \* phases[k]: when the phase with number k mod MAX_PHASES
                   \*   began, in phases since the start
  active_duration, \* the same unit
  no_phases,
  ins_by_me,       \* ins_by_me[t]; for threads that are not the leader only up
                   \*   to MAX_INSERTS + 1
  phase,           \* these two are locals of the leader
  time_active,
  late             \* auxiliary: counted operations that took effect after
                   \*   active was last reset, up to nrThreads

leaderVars == <<active, phases, active_duration, no_phases, phase, time_active>>
vars == <<baseVars, pc, COMM_NR, MAX_INSERTS, leaderVars, ins_by_me, late>>

-----------------------------------------------------------------------------
COMPAT2PMOD == COMM_NR - 4
COMPAT2CMOD == COMM_NR - 23

\* do_enq and leader.  (Pattern 0 has neither.)
do_enq(t) ==
  CASE COMM_NR = 1 -> t % 2 = 0
    [] COMM_NR = 2 -> t = 0
    [] COMM_NR = 3 -> t >= 1
    [] COMM_NR = 4 -> FALSE
    [] COMM_NR = 5 -> TRUE
    [] COMM_NR > 5 /\ COMPAT2CMOD > 1 -> t % COMPAT2CMOD = 0
    [] COMM_NR > 5 /\ COMPAT2CMOD <= 1 -> t % COMPAT2PMOD /= 0

Leader == IF COMM_NR = 3 \/ (COMM_NR > 5 /\ COMPAT2CMOD <= 1) THEN 1 ELSE 0

Phased == MAX_INSERTS /= 0 /\ COMM_NR /= 0

Init ==
  /\ BaseInit
  /\ COMM_NR \in Patterns
  /\ MAX_INSERTS \in Restrictions
  /\ active = 0
  /\ phases = [k \in 0 .. MAX_PHASES - 1 |-> 0]
  /\ active_duration = 0 /\ no_phases = 0
  /\ ins_by_me = [t \in Threads |-> 0]
  /\ phase = 0 /\ time_active = 0
  /\ late = 0

\* InitImplementationNr, and the locals of the threads to come.
Prepare ==
  /\ BasePrepare
  /\ ins_by_me' = [t \in Threads |-> 0]
  /\ phase' = 0 /\ time_active' = 0 /\ late' = 0
  /\ UNCHANGED <<COMM_NR, MAX_INSERTS, active, phases, active_duration,
                 no_phases>>

-----------------------------------------------------------------------------
\* RunImplementationNr: the leader sets the phases up.
Begin(t) ==
  /\ SeeGo(t, "loop")
  /\ IF Phased /\ t = Leader
     THEN /\ phases' = [phases EXCEPT ![0] = 0]
          /\ active' = IF COMM_NR = 4 THEN 0 ELSE 1
          /\ late' = 0
     ELSE UNCHANGED <<phases, active, late>>
  /\ UNCHANGED <<bagVars, COMM_NR, MAX_INSERTS, active_duration, no_phases,
                 phase, time_active, ins_by_me>>

Counted ==
  MapThenSumSet(LAMBDA t : count[t].insert + count[t].remove, Threads)

\* for (;mainCounter;), and the choice of the operation without phases
Loop(t) ==
  /\ pc[t] = "loop"
  /\ \/ /\ mainCounter = 0
        /\ Goto(t, IF Phased /\ t = Leader THEN "end_phases" ELSE "save_inserts")
     \/ /\ mainCounter /= 0
        /\ Counted < OpsBound
        /\ \/ Phased /\ Goto(t, "read_active")
           \/ ~Phased /\ Goto(t, IF COMM_NR /= 0 /\ do_enq(t) THEN "insert"
                                                              ELSE "take")
           \/ COMM_NR = 0 /\ Goto(t, "insert")
  /\ UNCHANGED <<baseVars, COMM_NR, MAX_INSERTS, leaderVars, ins_by_me,
                 late>>

\* if (active)
ReadActive(t) ==
  /\ pc[t] = "read_active"
  /\ Goto(t, CASE active /= 0 -> IF do_enq(t) THEN "insert" ELSE "take"
               [] active = 0 /\ COMM_NR /= 4 -> "drain"
               [] active = 0 /\ COMM_NR = 4 ->
                    IF t = Leader THEN "prefill" ELSE "loop")
  /\ UNCHANGED <<baseVars, COMM_NR, MAX_INSERTS, leaderVars, ins_by_me,
                 late>>

CountLate ==
  late' = IF Phased /\ active = 0 THEN Min({late + 1, nrThreads}) ELSE late

OneMore(t) == [ins_by_me EXCEPT ![t] = Min({@ + 1, MAX_INSERTS + 1})]

Produce(t) ==
  /\ pc[t] = "insert"
  /\ \E i \in Items : Insert(t, i, TRUE)
  /\ CountLate
  /\ IF Phased
     THEN /\ ins_by_me' = OneMore(t)
          /\ Goto(t, IF t = Leader /\ ins_by_me'[t] = MAX_INSERTS
                     THEN "deactivate" ELSE "loop")
     ELSE UNCHANGED ins_by_me /\ Goto(t, "loop")
  /\ UNCHANGED <<COMM_NR, MAX_INSERTS, leaderVars>>

Consume(t) ==
  /\ pc[t] = "take"
  /\ \/ /\ \E i \in Items : TryRemove(t, i, TRUE)
        /\ CountLate
        /\ Goto(t, "loop")
     \/ /\ TryRemoveFails(t)
        /\ UNCHANGED late
        /\ Goto(t, IF Phased /\ t = Leader THEN "deactivate" ELSE "loop")
  /\ UNCHANGED <<COMM_NR, MAX_INSERTS, leaderVars, ins_by_me>>

\* Mutant: the leader makes one attempt and does not look at the result.
Drain_Once(t) ==
  /\ pc[t] = "drain"
  /\ (\E i \in Items : TryRemove(t, i, FALSE)) \/ TryRemoveFails(t)
  /\ ins_by_me' = [ins_by_me EXCEPT ![t] = 0]
  /\ Goto(t, IF t = Leader THEN "activate" ELSE "loop")
  /\ UNCHANGED <<COMM_NR, MAX_INSERTS, leaderVars, late>>

\* Mutant: what is drained is counted.
Drain_Counted(t) ==
  /\ pc[t] = "drain"
  /\ \/ (\E i \in Items : TryRemove(t, i, TRUE)) /\ CountLate
     \/ TryRemoveFails(t) /\ UNCHANGED late
  /\ ins_by_me' = [ins_by_me EXCEPT ![t] = 0]
  /\ Goto(t, "loop")
  /\ UNCHANGED <<COMM_NR, MAX_INSERTS, leaderVars>>

\* Empty the collection, uncounted.  (ins_by_me of a consumer stays 0.)
Drain(t) ==
  /\ pc[t] = "drain"
  /\ \/ /\ \E i \in Items : TryRemove(t, i, FALSE)
        /\ ins_by_me' = [ins_by_me EXCEPT ![t] = 0]
     \/ /\ TryRemoveFails(t)
        /\ ins_by_me' = [ins_by_me EXCEPT ![t] = IF t = Leader THEN @ + 1 ELSE 0]
  /\ Goto(t, IF t = Leader /\ ins_by_me'[t] = EmptyChecks
             THEN "activate" ELSE "loop")
  /\ UNCHANGED <<COMM_NR, MAX_INSERTS, leaderVars, late>>

\* Mutant: one insert too many.
Prefill_OffByOne(t) ==
  /\ pc[t] = "prefill"
  /\ \E i \in Items : Insert(t, i, FALSE)
  /\ ins_by_me' = OneMore(t)
  /\ Goto(t, IF ins_by_me'[t] > MAX_INSERTS THEN "activate" ELSE "loop")
  /\ UNCHANGED <<COMM_NR, MAX_INSERTS, leaderVars, late>>

\* Fill the collection, uncounted, for consumers only.
Prefill(t) ==
  /\ pc[t] = "prefill"
  /\ \E i \in Items : Insert(t, i, FALSE)
  /\ ins_by_me' = OneMore(t)
  /\ Goto(t, IF ins_by_me'[t] = MAX_INSERTS THEN "activate" ELSE "loop")
  /\ UNCHANGED <<COMM_NR, MAX_INSERTS, leaderVars, late>>

-----------------------------------------------------------------------------
\* The leader's switches between phases.
Deactivate(t) ==
  /\ pc[t] = "deactivate"
  /\ active' = 0
  /\ late' = 0
  /\ ins_by_me' = [ins_by_me EXCEPT ![t] = 0]
  /\ Goto(t, "shift")
  /\ UNCHANGED <<baseVars, COMM_NR, MAX_INSERTS, phases,
                 active_duration, no_phases, phase, time_active>>

Activate(t) ==
  /\ pc[t] = "activate"
  /\ active' = 1
  /\ ins_by_me' = IF COMM_NR = 4 THEN ins_by_me
                                 ELSE [ins_by_me EXCEPT ![t] = 0]
  /\ Goto(t, "shift")
  /\ UNCHANGED <<baseVars, COMM_NR, MAX_INSERTS, phases,
                 active_duration, no_phases, phase, time_active, late>>

\* Now is as many phases after the start as have ended.
Stamp ==
  /\ phase' = phase + 1
  /\ phases' = [phases EXCEPT ![(phase + 1) % MAX_PHASES] = phase + 1]

Elapsed == phases'[(phase + 1) % MAX_PHASES] - phases[phase % MAX_PHASES]

\* if (phase_shift)
Shift(t) ==
  /\ pc[t] = "shift"
  /\ Stamp
  /\ time_active' = IF active = 0 THEN time_active + Elapsed ELSE time_active
  /\ Goto(t, "loop")
  /\ UNCHANGED <<baseVars, COMM_NR, MAX_INSERTS, active,
                 active_duration, no_phases, ins_by_me, late>>

\* Mutant: the unfinished phase is counted whatever it is.
EndPhases_Always(t) ==
  /\ pc[t] = "end_phases"
  /\ Stamp
  /\ time_active' = time_active + Elapsed
  /\ active_duration' = time_active'
  /\ no_phases' = phase'
  /\ Goto(t, "save_inserts")
  /\ UNCHANGED <<baseVars, COMM_NR, MAX_INSERTS, active, ins_by_me, late>>

\* "Count the final unfinished phase IFF it is an active phase."
EndPhases(t) ==
  /\ pc[t] = "end_phases"
  /\ IF active = 1 THEN Stamp /\ time_active' = time_active + Elapsed
                   ELSE UNCHANGED <<phase, phases, time_active>>
  /\ active_duration' = time_active'
  /\ no_phases' = phase'
  /\ Goto(t, "save_inserts")
  /\ UNCHANGED <<baseVars, COMM_NR, MAX_INSERTS, active, ins_by_me, late>>

SaveStatistics(t) ==
  /\ \/ SaveInserts(t, "save_inserts", "save_removes")
     \/ SaveRemoves(t, "save_removes", "finish")
  /\ UNCHANGED <<COMM_NR, MAX_INSERTS, leaderVars, ins_by_me, late>>

-----------------------------------------------------------------------------
Step(t) ==
  \/ /\ BenchThreadStep(t)
     /\ UNCHANGED <<bagVars, COMM_NR, MAX_INSERTS, leaderVars, ins_by_me, late>>
  \/ Begin(t) \/ Loop(t) \/ ReadActive(t)
  \/ Produce(t) \/ Consume(t) \/ Drain(t) \/ Prefill(t)
  \/ Deactivate(t) \/ Activate(t) \/ Shift(t) \/ EndPhases(t)
  \/ SaveStatistics(t)

HarnessStep ==
  \/ Prepare
  \/ /\ BenchHarnessStep
     /\ UNCHANGED <<bagVars, COMM_NR, MAX_INSERTS, leaderVars, ins_by_me, late>>

Next == HarnessStep \/ \E t \in Threads : Step(t)

Spec == Init /\ [][Next]_vars

\* The operating system runs every thread, and the sleep of the bench ends.
FairSpec ==
  Spec /\ WF_vars(HarnessStep) /\ \A t \in Threads : WF_vars(Step(t))

-----------------------------------------------------------------------------
BagSize == SumOver(Items, bag)

Producers == {t \in Started : do_enq(t)}

\* When the leader ends a passive phase the collection is empty but for the
\* late inserts, at most one each, of other producers that had read active
\* before it was reset.
DrainedBeforeActive ==
  \A t \in Threads :
    pc[t] = "activate" /\ COMM_NR /= 4 =>
      BagSize <= Cardinality(Producers \ {t})

\* Without producers, it holds what the leader filled it with but for at most
\* one late removal by each other consumer.
PrefilledBeforeActive ==
  \A t \in Threads :
    pc[t] = "activate" /\ COMM_NR = 4 =>
      BagSize \in MAX_INSERTS - (nrThreads - 1) .. MAX_INSERTS

\* "Count only active phases": in each passive phase at most one operation of
\* each thread but the leader is counted, namely one that it decided on when
\* the phase was still active.
CountsOnlyActive == late < nrThreads

Printed ==
  (IF no_phases < MAX_PHASES THEN 0 ELSE no_phases - (MAX_PHASES - 1)) .. no_phases

IsActivePhase(k) == (k % 2 = 0) = (COMM_NR /= 4)

\* What GetStatistics reports: the time in the active phases only, and the
\* starts of the last phases, each where it looks for it.
PhasesReported ==
  harness = "report" /\ Phased =>
    /\ active_duration = Cardinality({k \in 0 .. no_phases - 1 : IsActivePhase(k)})
    /\ \A k \in Printed : phases[k % MAX_PHASES] = k

\* "#inserts per producer and active phase" (NBLExpProducerConsumer.cpp:175):
\* no producer inserts more than that in the first phase.
RestrictsInserts ==
  \A t \in Producers :
    Phased /\ active = 1 /\ phase = 0 => ins_by_me[t] <= MAX_INSERTS

\* The bench runs all implementations and ends: each thread sees the stop.
Terminates == <>(harness = "end")
=============================================================================
