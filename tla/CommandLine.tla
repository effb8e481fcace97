---------------------------- MODULE CommandLine ----------------------------
(***************************************************************************)
(* The command line of the test bench (process_arguments), what it sets in *)
(* the bench and in the experiment object that it selects, and where       *)
(* pin_thread puts the threads.  An option is a record of its flag and of  *)
(* the numbers that follow it as far as they can be parsed.                *)
(***************************************************************************)
EXTENDS Integers, Sequences, SequencesExt

CONSTANTS
  Sockets, CoresPerSocket, PUsPerSocket   \* the machine configuration

ASSUME MachineAssumption ==
  /\ {Sockets, CoresPerSocket, PUsPerSocket} \subseteq Nat \ {0}
  /\ PUsPerSocket % CoresPerSocket = 0

ProducerConsumer == 0
Mandelbrot == 1
GEMM == 2         \* with USE_BLAS
SpGEMM == 3
Dictionary == 4
WeakDictionary == 5

Experiments == 0 .. 5

\* GetImplementations().size()
NrImplementations(e) == IF e \in {Dictionary, WeakDictionary} THEN 8 ELSE 13

\* The parameters that a new object has, and how many values it offers for each
\* (GetParameterValues); where that is 1 any number that is not negative will do.
NBLExpProducerConsumer == [parameters |-> <<1, 1, 1, 0>>, values |-> <<44, 1, 1, 1>>]
NBLExpApplicationMandelbrot == [parameters |-> <<0, 0>>, values |-> <<1, 10>>]
NBLExpGEMM == [parameters |-> <<8192, 1024>>, values |-> <<1, 1>>]
NBLExpSpGEMM == [parameters |-> <<0, 1, 4>>, values |-> <<1, 1, 1>>]
NBLExpDictionary == [parameters |-> <<1024, 512, 20, 1>>, values |-> <<1, 1, 1, 1>>]
NBLExpWeakDictionary == [parameters |-> <<1024, 512, 20, 1>>, values |-> <<1, 1, 1, 1>>]

NewObject(e) ==
  CASE e = ProducerConsumer -> NBLExpProducerConsumer
    [] e = Mandelbrot       -> NBLExpApplicationMandelbrot
    [] e = GEMM             -> NBLExpGEMM
    [] e = SpGEMM           -> NBLExpSpGEMM
    [] e = Dictionary       -> NBLExpDictionary
    [] e = WeakDictionary   -> NBLExpWeakDictionary

NewParameters(e) == NewObject(e).parameters

\* The size of the key space, an int: 1 << n, of which the processor takes
\* n modulo 32.
KeySpace(n) ==
  IF n % 32 = 31 THEN -2147483647 - 1 ELSE 2 ^ (n % 32)

\* Mutant: a break is missing before the last case.
SetParameter_FallsThrough(e, parameters, p, value) ==
  [q \in DOMAIN parameters |-> IF q \in {p + 1, p + 2} THEN value ELSE parameters[q]]

\* SetParameter of each class: the key space is given as a power of 2, and in
\* NBLExpSpGEMM case 1 falls through to 2, the work unit size.
SetParameter(e, parameters, p, value) ==
  IF e = SpGEMM /\ p = 1
  THEN [parameters EXCEPT ![2] = value, ![3] = value]
  ELSE [parameters EXCEPT ![p + 1] =
          IF e \in {Dictionary, WeakDictionary} /\ p = 0 THEN KeySpace(value)
                                                          ELSE value]

-----------------------------------------------------------------------------
NONE == -1
FILL_PU == 0
FILL_CORE == 1
JUMP_SOCKET == 2

\* main's experiment and the bench's globals.
NewSettings ==
  [experiment |-> ProducerConsumer, parameters |-> NewParameters(ProducerConsumer),
   experimentNr |-> 0, implementations |-> <<>>, nrThreads |-> 1,
   expDuration |-> 0, pinning |-> NONE, useMF |-> FALSE, exits |-> FALSE]

\* useconds_t has 32 bits.  Here a duration is in units of 64 microseconds,
\* which divide both a second and the 2^32 that the type can hold.
Second == 15625
UsecondsRange == 67108864

\* (useconds_t)seconds * 1000000
Microseconds(seconds) == (seconds * Second) % UsecondsRange

Exit(s) == [s EXCEPT !.exits = TRUE]

\* Without a number -e does nothing, and 0 keeps the object there is.
SelectExperiment(s, e) ==
  IF e = 0 THEN [s EXCEPT !.experimentNr = 0]
  ELSE IF e \in Experiments
       THEN [s EXCEPT !.experimentNr = e, !.experiment = e,
                      !.parameters = NewParameters(e)]
       ELSE Exit(s)

\* Mutant: the number of implementations is accepted too.
AddImplementation_OffByOne(s, t) ==
  IF t \in 0 .. NrImplementations(s.experiment)
  THEN [s EXCEPT !.implementations = Append(@, t)] ELSE Exit(s)

AddImplementation(s, t) ==
  IF t \in 0 .. NrImplementations(s.experiment) - 1
  THEN [s EXCEPT !.implementations = Append(@, t)] ELSE Exit(s)

SetAParameter(s, p, value) ==
  LET nr == NewObject(s.experiment).values
  IN  IF /\ p \in 0 .. Len(nr) - 1
         /\ value >= 0 /\ (nr[p + 1] <= 1 \/ value < nr[p + 1])
      THEN [s EXCEPT !.parameters = SetParameter(s.experiment, @, p, value)]
      ELSE Exit(s)

\* One option.  -h and -l print something and exit like one that is bad.
Process(s, option) ==
  LET v == option.values
  IN  IF s.exits THEN s
      ELSE IF option.flag = "-e" THEN IF v = <<>> THEN s ELSE SelectExperiment(s, v[1])
      ELSE IF option.flag = "-i" /\ Len(v) = 1 THEN AddImplementation(s, v[1])
      ELSE IF option.flag = "-s" /\ Len(v) = 2 THEN SetAParameter(s, v[1], v[2])
      ELSE IF option.flag = "-t" /\ Len(v) = 1 /\ v[1] > 0
           THEN [s EXCEPT !.nrThreads = v[1]]
      ELSE IF option.flag = "-p" /\ Len(v) = 1 /\ v[1] \in NONE .. JUMP_SOCKET
           THEN [s EXCEPT !.pinning = v[1]]
      ELSE IF option.flag = "-d" /\ Len(v) = 1 /\ v[1] > 0
           THEN [s EXCEPT !.expDuration = Microseconds(v[1])]
      ELSE IF option.flag = "-mf" THEN [s EXCEPT !.useMF = TRUE]
      ELSE Exit(s)

process_arguments(line) == FoldLeft(Process, NewSettings, line)

-----------------------------------------------------------------------------
TotalCores == Sockets * CoresPerSocket
TotalPUs == Sockets * PUsPerSocket
PUsPerCore == PUsPerSocket \div CoresPerSocket

\* Mutant: the socket number is the quotient.
pin_thread_Swapped(tid, strategy) ==
  CASE strategy = FILL_PU ->
         (tid \div PUsPerCore + (tid % PUsPerCore) * TotalCores) % TotalPUs
    [] strategy = FILL_CORE -> tid % TotalPUs
    [] strategy = JUMP_SOCKET ->
         (tid \div Sockets + (tid \div Sockets) * CoresPerSocket
            + (tid \div TotalCores) * CoresPerSocket) % TotalPUs

\* The PU of thread tid, if it is pinned.
pin_thread(tid, strategy) ==
  CASE strategy = FILL_PU ->
         (tid \div PUsPerCore + (tid % PUsPerCore) * TotalCores) % TotalPUs
    [] strategy = FILL_CORE -> tid % TotalPUs
    [] strategy = JUMP_SOCKET ->
         (tid \div Sockets + (tid % Sockets) * CoresPerSocket
            + (tid \div TotalCores) * CoresPerSocket) % TotalPUs
=============================================================================
