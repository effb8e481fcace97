----------------------------- MODULE Mandelbrot -----------------------------
(***************************************************************************)
(* NBLExpApplicationMandelbrot in the test bench: threads with an even id  *)
(* compute the regions of the image and put them in the bag, those with an *)
(* odd id take regions from the bag and colour them, and all wait for all. *)
(* The bench does so once with each implementation of the bag, into the    *)
(* same image.                                                             *)
(***************************************************************************)
EXTENDS ProducerConsumerBase

CONSTANTS
  RESOLUTION_X, RESOLUTION_Y,   \* both 8192
  ContentionNrs,  \* the contention levels a user may choose: 0 to 9
  MaxChecks       \* how many further empty bags a consumer wants to see: 2

RegionSize(contention) == 2 ^ (contention + 1)

ASSUME MandelbrotAssumption ==
  /\ RESOLUTION_X \in Nat /\ RESOLUTION_Y \in Nat
  /\ ContentionNrs \subseteq Nat
  /\ \A c \in ContentionNrs :
       RESOLUTION_X % RegionSize(c) = 0 /\ RESOLUTION_Y % RegionSize(c) = 0
  /\ Items = 0 .. (RESOLUTION_X \div 2) * (RESOLUTION_Y \div 2) - 1
  /\ MaxChecks \in Nat
  /\ MaxMisses <= MaxChecks
  /\ NrThreads \subseteq 2 .. MaxCPUS  \* a single producer would never get on

\* A fact on powers that the proofs need.
ASSUME RegionSizes == \A c \in ContentionNrs : RegionSize(c) \in Nat \ {0, 1}

VARIABLES
  CONTENTION_NR,
  nrAdders, nrSums,   \* how many producers and consumers have finished
  regionBufferGlobal, \* regionBufferGlobal[i]: region i, or NoGrid
  next,     \* next[t]: the producer's i
  region,   \* region[t]: the region the consumer has, or NoRegion
  checks,   \* checks[t]: the consumer's checks
  image     \* image[y, x]: what the pixel shows, or NoGrid

NoRegion == -1
NoGrid == <<>>

locals == <<next, region, checks>>
regionVars == <<CONTENTION_NR, regionBufferGlobal, image>>
vars == <<baseVars, pc, nrAdders, nrSums, locals, regionVars>>

\* InitImplementationNr computes these anew each time.
REGION_SIZE == RegionSize(CONTENTION_NR)
NR_REGIONS_X == RESOLUTION_X \div REGION_SIZE
NR_REGIONS_Y == RESOLUTION_Y \div REGION_SIZE

Regions == 0 .. NR_REGIONS_X * NR_REGIONS_Y - 1

Pixels == (0 .. RESOLUTION_Y - 1) \X (0 .. RESOLUTION_X - 1)

Produces(t) == t % 2 = 0

\* SetParameter and SetNrThreads; image is a global.
Init ==
  /\ BaseInit
  /\ CONTENTION_NR \in ContentionNrs
  /\ nrAdders = 0
  /\ nrSums = 0
  /\ regionBufferGlobal = [i \in Regions |-> NoGrid]
  /\ next = [t \in Threads |-> t \div 2]
  /\ region = [t \in Threads |-> NoRegion]
  /\ checks = [t \in Threads |-> 0]
  /\ image = [p \in Pixels |-> NoGrid]

\* InitImplementationNr, and the locals of the threads to come.
Prepare ==
  /\ BasePrepare
  /\ nrAdders' = 0
  /\ nrSums' = 0
  /\ regionBufferGlobal' = [i \in Regions |-> NoGrid]
  /\ next' = [t \in Threads |-> t \div 2]
  /\ region' = [t \in Threads |-> NoRegion]
  /\ checks' = [t \in Threads |-> 0]
  /\ UNCHANGED <<CONTENTION_NR, image>>

-----------------------------------------------------------------------------
\* CalcZ: what is to be seen at a point, here only which point it is and for
\* which implementation it was computed.
CalcZ(x, y) == [x |-> x, y |-> y, impl |-> impl]

\* The place of a point of a region in its values.
Get(dx, dy) == dx + dy * REGION_SIZE

\* GenerateGrid: the region with its upper left point at x and y.
GenerateGrid(x, y) ==
  [X |-> x, Y |-> y,
   values |-> [k \in 0 .. REGION_SIZE * REGION_SIZE - 1 |->
                 CalcZ(x + (k % REGION_SIZE), y + k \div REGION_SIZE)]]

\* RunImplementationNr
Begin(t) ==
  /\ SeeGo(t, IF Produces(t) THEN "produce" ELSE "remove")
  /\ UNCHANGED <<bagVars, nrAdders, nrSums, locals, regionVars>>

\* Produce(region, i)
Produce(t) ==
  LET x == next[t] % NR_REGIONS_X
      y == next[t] \div NR_REGIONS_X
  IN  /\ pc[t] = "produce"
      /\ next[t] \in Regions
      /\ regionBufferGlobal' = [regionBufferGlobal EXCEPT ![next[t]] =
                                  GenerateGrid(x * REGION_SIZE, y * REGION_SIZE)]
      /\ Goto(t, "insert")
      /\ UNCHANGED <<baseVars, nrAdders, nrSums, locals, CONTENTION_NR, image>>

\* Insert(handle, region, countInsert), and i += NR_CPUS/2
InsertRegion(t) ==
  /\ pc[t] = "insert"
  /\ Insert(t, next[t], TRUE)
  /\ next' = [next EXCEPT ![t] = @ + NR_CPUS \div 2]
  /\ Goto(t, "produce")
  /\ UNCHANGED <<nrAdders, nrSums, region, checks, regionVars>>

\* FAA32(&nrAdders, 1)
Added(t) ==
  /\ pc[t] = "produce"
  /\ next[t] \notin Regions
  /\ nrAdders' = nrAdders + 1
  /\ Goto(t, "wait")
  /\ UNCHANGED <<baseVars, nrSums, locals, regionVars>>

TakeRegion(t) ==
  /\ pc[t] = "remove"
  /\ \E i \in Regions :
       /\ TryRemove(t, i, TRUE)
       /\ region' = [region EXCEPT ![t] = i]
  /\ Goto(t, "consume")
  /\ UNCHANGED <<nrAdders, nrSums, next, checks, regionVars>>

FindNoRegion(t) ==
  /\ pc[t] = "remove"
  /\ TryRemoveFails(t)
  /\ Goto(t, "check")
  /\ UNCHANGED <<nrAdders, nrSums, locals, regionVars>>

\* The pixels of a region: image[y+dy][x+dx]
Covers(grid) ==
  {p \in Pixels : p[1] - grid.Y \in 0 .. REGION_SIZE - 1
                /\ p[2] - grid.X \in 0 .. REGION_SIZE - 1}

\* Consume(region).  (No other consumer has the region.)
Consume(t) ==
  LET grid == regionBufferGlobal[region[t]]
  IN  /\ pc[t] = "consume"
      /\ image' = [p \in Pixels |->
                     IF p \in Covers(grid)
                     THEN grid.values[Get(p[2] - grid.X, p[1] - grid.Y)]
                     ELSE image[p]]
      /\ region' = [region EXCEPT ![t] = NoRegion]
      /\ Goto(t, "remove")
      /\ UNCHANGED <<baseVars, nrAdders, nrSums, next, checks, CONTENTION_NR,
                     regionBufferGlobal>>

\* Mutant: the checks are not counted.
Check_Once(t) ==
  /\ pc[t] = "check"
  /\ Goto(t, IF nrAdders = NR_CPUS \div 2 THEN "sum" ELSE "remove")
  /\ UNCHANGED <<baseVars, nrAdders, nrSums, locals, regionVars>>

\* Mutant: an odd number of threads is rounded the other way.
Check_RoundedUp(t) ==
  /\ pc[t] = "check"
  /\ IF nrAdders = (NR_CPUS + 2) \div 2
     THEN /\ Goto(t, IF checks[t] > MaxChecks THEN "sum" ELSE "remove")
          /\ checks' = [checks EXCEPT ![t] = @ + 1]
     ELSE Goto(t, "remove") /\ UNCHANGED checks
  /\ UNCHANGED <<baseVars, nrAdders, nrSums, next, region, regionVars>>

\* (nrAdders == NR_CPUS/2) && (checks++ > 2)
Check(t) ==
  /\ pc[t] = "check"
  /\ IF nrAdders = NR_CPUS \div 2
     THEN /\ Goto(t, IF checks[t] > MaxChecks THEN "sum" ELSE "remove")
          /\ checks' = [checks EXCEPT ![t] = @ + 1]
     ELSE Goto(t, "remove") /\ UNCHANGED checks
  /\ UNCHANGED <<baseVars, nrAdders, nrSums, next, region, regionVars>>

\* FAA32(&nrSums, 1)
Summed(t) ==
  /\ pc[t] = "sum"
  /\ nrSums' = nrSums + 1
  /\ Goto(t, "wait")
  /\ UNCHANGED <<baseVars, nrAdders, locals, regionVars>>

\* while (nrAdders != NR_CPUS/2 || nrSums != (NR_CPUS+1)/2)
WaitAll(t) ==
  /\ pc[t] = "wait"
  /\ nrAdders = NR_CPUS \div 2
  /\ nrSums = (NR_CPUS + 1) \div 2
  /\ Goto(t, "save_inserts")
  /\ UNCHANGED <<baseVars, nrAdders, nrSums, locals, regionVars>>

SaveStatistics(t) ==
  /\ \/ SaveInserts(t, "save_inserts", "save_removes")
     \/ SaveRemoves(t, "save_removes", "finish")
  /\ UNCHANGED <<nrAdders, nrSums, locals, regionVars>>

-----------------------------------------------------------------------------
Step(t) ==
  \/ /\ BenchThreadStep(t)
     /\ UNCHANGED <<bagVars, nrAdders, nrSums, locals, regionVars>>
  \/ Begin(t) \/ Produce(t) \/ InsertRegion(t) \/ Added(t)
  \/ TakeRegion(t) \/ FindNoRegion(t) \/ Consume(t) \/ Check(t) \/ Summed(t)
  \/ WaitAll(t) \/ SaveStatistics(t)

HarnessStep ==
  \/ Prepare
  \/ /\ BenchHarnessStep
     /\ UNCHANGED <<bagVars, nrAdders, nrSums, locals, regionVars>>

Next == HarnessStep \/ \E t \in Threads : Step(t)

Spec == Init /\ [][Next]_vars

\* The operating system runs every thread, and the sleep of the bench ends.
FairSpec ==
  Spec /\ WF_vars(HarnessStep) /\ \A t \in Threads : WF_vars(Step(t))

-----------------------------------------------------------------------------
PastWait == {"save_inserts", "save_removes", "finish", "end_time", "exit"}

\* A thread is past the final wait when the bag is empty and all producers have
\* put their regions there.
LeavesWhenDrained ==
  \A t \in Threads :
    pc[t] \in PastWait =>
      /\ BagIsEmpty
      /\ \A u \in Started :
           Produces(u) => pc[u] \notin {"start", "spin", "produce", "insert"}

\* A thread that is past the final wait finds that every pixel shows its own
\* point, as computed for this implementation, and that no region is left or to
\* come, although no consumer saw both at one instant that all producers had
\* finished and that the bag was empty.
ImageComplete ==
  /\ LeavesWhenDrained
  /\ \A t \in Threads :
       pc[t] \in PastWait => \A p \in Pixels : image[p] = CalcZ(p[2], p[1])

\* The bench gets through all implementations, although Mandelbrot does not
\* look at its stop signal: every thread comes to the end, if the number of
\* threads is even.
Terminates == <>(harness = "end")
=============================================================================
