-------------------------- MODULE DictionaryBench --------------------------
(***************************************************************************)
(* The main program of the test bench: process_arguments, and what         *)
(* perform_experiment then does if a dictionary experiment is selected,    *)
(* with as many threads as Threads has.  Other experiments are modules of  *)
(* their own, and here they do not start.                                  *)
(***************************************************************************)
EXTENDS DictionaryExperiment, CommandLine

CONSTANT CommandLines   \* sequences of options

ASSUME CommandLinesAssumption ==
  CommandLines \subseteq Seq([flag : STRING, values : Seq(Int)])

VARIABLES
  line,      \* the command line
  settings   \* what it has set

benchVars == <<vars, line, settings>>

MainInit ==
  /\ line \in CommandLines
  /\ settings = process_arguments(line)
  /\ ~settings.exits
  /\ Init
  /\ session = settings.implementations
  /\ weak = (settings.experiment = WeakDictionary)

Starts ==
  /\ settings.experiment \in {Dictionary, WeakDictionary}
  /\ settings.nrThreads = Cardinality(Threads)

MainNext == Starts /\ Next /\ UNCHANGED <<line, settings>>

MainSpec == MainInit /\ [][MainNext]_benchVars

-----------------------------------------------------------------------------
\* The last option of line that satisfies P, 0 if none does.
LastOption(P(_)) == Max({0} \cup {k \in DOMAIN line : P(line[k])})

Selects(option) ==
  option.flag = "-e" /\ option.values /= <<>> /\ option.values[1] /= 0

\* "For the selected experiment <impl#> can be one of the following"
\* (TestBenchCLI.cpp:393): no implementation is run that the experiment does
\* not have, provided that the options select the experiment before they name
\* implementations, which are checked against the experiment of the moment.
ImplementationsExist ==
  (\A k \in DOMAIN line : line[k].flag = "-i" => k > LastOption(Selects))
  => \A k \in DOMAIN session : session[k] \in 0 .. NrImplementations(settings.experiment) - 1

Sets(p, option) == option.flag = "-s" /\ option.values[1] = p

\* The experiment that runs has in parameter p the value of the last -s for it
\* that came after the last change of experiment, and otherwise the value of a
\* new object.  "n for key space size 2^n" (NBLExpDictionary.cpp:94), where an
\* int can hold it.
AsSet(p) ==
  LET e == settings.experiment
      k == LastOption(LAMBDA option : Sets(p, option))
      v == line[k].values[2]
  IN  IF k <= LastOption(Selects)
      THEN settings.parameters[p + 1] = NewParameters(e)[p + 1]
      ELSE IF e \in {Dictionary, WeakDictionary} /\ p = 0
      THEN v < 31 => settings.parameters[p + 1] = 2 ^ v
      ELSE settings.parameters[p + 1] = v

ParameterNumbers == 0 .. Len(settings.parameters) - 1

\* "-s <p#> <value>   Set experiment parameter <p#> to <value>."
\* (TestBenchCLI.cpp:401).
ParametersAsSet == \A p \in ParameterNumbers : AsSet(p)

\* The work unit size of NBLExpSpGEMM when an option for the algorithm, whose
\* case has no break, came after the last for it and the last change.
WorkUnitOverwritten(p) ==
  /\ settings.experiment = SpGEMM /\ p = 2
  /\ LastOption(LAMBDA option : Sets(1, option)) >
       LastOption(LAMBDA option : Sets(2, option) \/ Selects(option))

\* All other parameters are as set, whatever the order of the options, and the
\* experiment lasts for the seconds of the last -d (TestBenchCLI.cpp:383),
\* provided that useconds_t can hold them.
OtherParametersAsSet ==
  LET duration == LastOption(LAMBDA option : option.flag = "-d")
      seconds == IF duration = 0 THEN 0 ELSE line[duration].values[1]
  IN  /\ \A p \in ParameterNumbers : WorkUnitOverwritten(p) \/ AsSet(p)
      /\ seconds * Second < UsecondsRange => settings.expDuration = seconds * Second

\* As long as there are enough PUs no two threads are pinned to the same one,
\* whatever the strategy (pin_thread, TestBenchCLI.cpp:529-543).
PinnedApart ==
  LET tids == 0 .. settings.nrThreads - 1
  IN  settings.pinning /= NONE /\ settings.nrThreads <= TotalPUs =>
        Cardinality({pin_thread(tid, settings.pinning) : tid \in tids}) =
          settings.nrThreads
=============================================================================
