# TLA+ for the EXCESS data-structures framework

These modules specify the concurrent programs of this repository: a lock-based
queue, the parallel sparse-matrix products built on bags, the benchmark
experiments and the bench that runs them, and a component that keeps data
coherent between CPU and GPU. TLC checks them on small instances. TLAPS
proves, for all instances, that the queue is linearizable, that the bench times
the work of all threads and experiments implement it, that the parallel products
are complete, that each experiment does all its work, once, and reports it, that
the dictionary experiments keep their keys, that the options of the bench but one do
what they say, and that the GRS component multiplies matrices unless a race in
its parallel variant loses entries: every safety property of the passing runs.
Paths below are relative to `src/src/`.

## 1. The system

| part | state | operations | interacts with |
|---|---|---|---|
| `include/EXCESS/impl/spinlock_TTAS_CAS` | `flag` | `lock`, `unlock` | used twice by the queue |
| `include/EXCESS/impl/concurrent_queue_MSTLB`, `concurrent_bag_MSTLB` | linked nodes, `head`, `tail`, two locks | `enqueue`, `try_dequeue`, `empty`, destructor | the bags of the products and experiments |
| `SpBLAS/SpGEMM_DSParallel.h` | `nextci`, `element_count`, a bag, `phase1..3`, `C` | the phases of a product, run by all workers of an OpenMP region | SpTest, the GRS variant, and (in a copy of its own) NBLExpSpGEMM |
| `SpBLAS/SpMatrix`, `SparseAccumulator`, `SpGEMM_Gustavson.h` | compressed rows; a row being summed | load, save, multiply | all products |
| `SpBLAS/SpTest.cpp` | the algorithm | squares a matrix | the products above |
| `testbench/TestBenchCLI.cpp` | options, `go`, `mainCounter`, `runningCounter`, times | parses options; prepares, starts, stops, joins and reports each implementation | every experiment, through `NBLExperiment` |
| `testbench/NBLExpProducerConsumerBase` | a bag, counters, `NR_CPUS` | insert, try-remove, statistics | the three experiments below |
| `testbench/NBLExpProducerConsumer` | `active`, phases and their lengths | threads insert and remove, by communication pattern | bench, bag |
| `testbench/NBLExpGEMM`, `NBLExpMandelbrot` | work in the bag, counters of producers | threads produce and do work | bench, bag |
| `testbench/NBLExpSpGEMM` | the row store, a mutex and condition | three-phase product | bench, bag |
| `testbench/NBLExp(Weak)Dictionary(Base)` | one of seven tables, `initialState`, schedules | threads look up and update keys | bench, external libraries |
| `GRS/SpGEMM_component`, variants, `SpMMTest.cpp` | vectors of three matrices with their CPU and GPU copies | a call of one of three variants | SpBLAS, bhSPARSE |
| `utils`, `PBS`, makefiles | none | scripts | read what the bench prints |

**What is hard.** Threads share plain counters and flags, and decide on values
they read some steps before: "the bag was empty and all have added", "phase2 is
still 0", "the phase is active". Nodes are freed while others may hold pointers
to them. Phase changes rest on counting the right number of threads. Sessions
reuse objects of the runs before, so that what is not reset stays. A vector has
two copies, and each variant uses its own. Nothing is persisted and nothing is
sent over a network: there is no crash recovery and no message loss to model.
`PROJECT.json` lists each hazard at its line.

**What makes each part correct.** Queue: linearizable, no use after free, no
leak. Products: one thread between the phases, every row stored once, the
result is the product. GEMM and Mandelbrot: all work is done, once, when a
thread leaves, and all leave. Producer-consumer: what is reported belongs to
the active phases. Dictionaries: the keys are conserved. Bench: the time
reported covers the work of all threads, and the options do what they say.
Component: the product of matrices, whatever sequence of variants computes it,
as far as the parallel variant's sequential phase is run once.

## 2. The modules

```
AtomicQueue  <-- refined by --  MSTLBQueue --- MSTLBQueueProofs
Counting
RowStore -+- SpGEMMExperiment ------------\
          +- DSParallelSpGEMM -+- SpTest --+- RowStoreProofs
          \- TripletStore -----/
TestBench --- TestBenchProofs ----------------------------\
         \-- ProducerConsumerBase --- GEMM ---------------+- GEMMProofs
                                  \-- ProducerConsumer ---+- ProducerConsumerProofs
                                  \-- Mandelbrot ---------+- MandelbrotProofs
Dictionaries --- DictionaryExperiment --- DictionaryBench --- DictionaryProofs
                          CommandLine --/
SparseMatrix --- SpGEMMComponent --- SpGEMMComponentProofs
          \-- Matrices  <-- refined by --  SpGEMMComponent
```

An `MC...` module gives a module's constants their values for the `.cfg` files
of the same name. A definition named `X_Y` is `X` with a slip a programmer
might make, kept to show that a property would notice; it is in no
specification.

**AtomicQueue, MSTLBQueue.** `AtomicQueue` is what `concurrent_queue` promises:
each call takes effect at one instant between its invocation and its return.
`MSTLBQueue` has one action for each access to shared memory of `enqueue`,
`try_dequeue`, `empty` and the destructor; `flag` is the two locks, `next`,
`value`, `allocated` the heap, `node`, `newHead`, `item` each thread's
registers. A new node may get any free address, also one that another thread
still has in a register. The initialising store of `new node_t` may be seen
late (`buffered`); it is seen no later than the atomic operation that takes the
lock. `chain` is a history variable: the nodes linked and not yet passed by
`head`. `Abstract` is the refinement mapping.

**Counting** has one operator, `SumOver(S, f)`, for numbers of nonzeros, of items
and of operations: the sum of `f` over `S` is the number of pairs `<<x, n>>` with `n` in
`1 .. f[x]`, so that what is known of finite sets is known of sums.

**RowStore** is the part that `SpGEMM_DSParallel.h` and `NBLExpSpGEMM.cpp`
share: claim rows by fetch-and-add, store them in a bag, lay out the result,
copy; `phase1` to `phase3` are declared here as both have them. A row is its number of nonzeros `Nnz[i]`, and `C[s]` says which nonzero
of which row slot `s` holds, so a lost, double or misplaced row shows.
**SpGEMMExperiment** adds the phase changes of `RunImplementationNr` in both
builds (`useMutex`), the static algorithm (`mmalg = 0`), and the reset
between iterations. **DSParallelSpGEMM** adds those of the OpenMP version:
`Join`, `Leave`, and a first-one-in rule for the sequential phase. Its names
begin with `Region`, for the parallel region it is, where the experiment has one
like it, so that one module can prove what both have in common.
**TripletStore** is the variant that stores single nonzeros and counts row
pointers down. **SpTest** parses a command line, in which
the last of several options of a kind counts, and runs the algorithm it selects: one of these two, or the
sequential algorithm of `SpGEMM_Gustavson.h` in a single thread, which lays the
rows out as the row store does and copies them from the last one back.

**TestBench** is `perform_experiment` (`BenchPrepare` to `Report`, once for each
implementation) and `experiment_thread`. An experiment adds what lies between
`SeeGo` and `CountOut`; `pc` names the point in its `RunImplementationNr`.
`BenchSpec` is the bench with an arbitrary experiment: `Run` may do anything
but touch the bench. It is the abstract specification that the experiments
implement. **ProducerConsumerBase** adds the bag and the counters, and
`BasePrepare`, what `InitImplementationNr` resets. `TryRemoveFails` may fail at
most `MaxMisses` times in a thread's life when the bag is not empty, for bags
that are not linearizable. **GEMM**, **Mandelbrot** and **ProducerConsumer**
follow their `RunImplementationNr`. In `GEMM` the matrix `C` is not reset
between implementations, as in the code, so `C[b]` counts multiplications.
In `Mandelbrot` a region is a square of pixels whose size the contention level
gives, and a pixel shows which point it was computed for and for which
implementation.

**Dictionaries** is what each wrapped library returns; **DictionaryExperiment**
the loops of both experiments and the tables of a session; **CommandLine**
`process_arguments` as a fold over the options, with the parameters that an
object of each experiment has, and `pin_thread`;
**DictionaryBench** the main program: options first, then the session.

**SparseMatrix** has loading (sort, merge), saving (1-based, rounded to the
digits printed), compressed rows and the accumulator as operators; **SpGEMMComponent** the three variants with every read and
replacement of a vector copy; **Matrices** the abstract component: a call
multiplies two matrices, or loses some of the product. The parallel variant is one step,
with the outcomes that `DSParallelSpGEMM` shows. If its
sequential phase is run once, the product is stored. If it is run twice, as
`sptest_sequential` shows it may be, some entries are not there (`Unwritten`) and the matrix is in `lost` until
another product replaces it. A call that multiplies such a matrix, one that was
never computed, or matrices whose sizes do not agree (`~Multiplicable`) is not followed, and any
call may end the program (`CallUndefined`): by the assertion on sizes, by a
column number that was never set, or by two workers freeing the same arrays.

## 3. The runs

| run | module, instance | what it shows |
|---|---|---|
| `queue` | MCMSTLBQueue, 2 threads, 3 addresses, 2 items | locks, memory, list, destructor, `Linearizable`; `LockProgress`, `HolderReturns` |
| `spgemm_experiment` | MCSpGEMMExperiment, 3 workers, 5 rows in units of 2, 2 iterations, both builds | phase 2 is run by one and alone; the product is complete; the iterations end |
| `spgemm_overcommitted` | more workers than `MaxCPUS` | **fails** `WaitsForAll` |
| `sptest` | MCSpTest, 3 workers, 3 rows, 7 command lines | late workers are harmless; the product is right unless phase 2 was raced for; the triplet store's slots; the sequential algorithm; all end (`RegionEnds`) |
| `sptest_sequential` | the same | **fails** `OneSequentialWorker` |
| `gemm` | MCGEMM, 1 and 2 threads, 2 x 2 blocks, 2 implementations | every block once by each implementation; nobody leaves early; the bench ends |
| `mandelbrot` | MCMandelbrot, 2 and 4 threads, 4 x 4 pixels, 2 contention levels, 2 implementations | the image is complete and new when a thread leaves, with no region left or to come; the bench ends |
| `producer_consumer` | MCProducerConsumer, 3 threads, 3 patterns, 2 implementations | times, phases and counters are those of the work done; the bench ends |
| `producer_consumer_inserts` | pattern 5, limit 1 | **fails** `RestrictsInserts` |
| `dictionary` | MCDictionaryBench, 3 threads, 2 keys, sessions of up to 3 implementations | tables live, keys conserved, statistics, options (`OtherParametersAsSet`), key spaces, durations, pinning |
| `dictionary_parameters` | the same | **fails** `ParametersAsSet` |
| `spgemm_component` | MCSpGEMMComponent, 2 x 2 matrices, 5 files, 3 calls | buffers; of matrices with no lost entries, well-formed rows, saved files reload; refinement of `Matrices` |

The four runs that fail are disagreements of the code with its own words:

* `NBLExpSpGEMM.cpp:245` "Wait for all." waits for `NR_CPUS`, at most 16 threads
  (`NBLExpProducerConsumerBase.cpp:66-69`), of any number started. With more
  threads the sequential phase may begin while rows are still computed.
* `SpGEMM_DSParallel.h:185` "Allow exactly one worker to perfrom the sequential
  phase" lets in every worker that read `phase2` before the first incremented
  it. `ProductUnlessRaced` states what is left, and `RowPointersRight`, which is proved
  but not in a run, that even then the row pointers are the product's.
* `NBLExpProducerConsumer.cpp:175` "#inserts per producer and active phase" is
  counted by the thread that leads the phases only.
* `TestBenchCLI.cpp:401` "Set experiment parameter <p#> to <value>" sets the work unit
  size of the SpGEMM experiment too when it sets the algorithm: the case has no
  `break` (`NBLExpSpGEMM.cpp:169-172`). `OtherParametersAsSet` states what is left: all
  parameters but a work unit size that a later option for the algorithm has overwritten.

### Bounds, and why they are enough

* Queue: two threads are an enqueuer and a dequeuer that meet in the dummy node,
  or two that want the same lock; 3 addresses hold the dummy and a queue of two, or a
  node being linked and one being deleted, and are few enough to be reused all the
  time. Two items tell orders apart. What a third thread could add, waiting while both
  locks are held, the proofs cover: every safety property of this run is a theorem
  for any threads, addresses and items.
* Bench: two implementations, so that what the second finds is what the first
  left: counters, `active`, the product `C`, the image.
* GEMM: with two threads one may have put its blocks while the other still
  does; a third thread without a block row of its own adds no case (the proofs
  are for any number).
* Mandelbrot: a 4 x 4 image is four regions or one, so that with two producers
  one may have nothing to do.
* Products: three workers are one in the sequential phase, one waiting and one
  late; 5 rows in units of 2 leave an incomplete unit; two iterations show
  what is not reset; a row without nonzeros is among them.
* `MaxExiting` (GEMM) is 10 in the code and 1 here, `EmptyChecks`
  (ProducerConsumer) 20 and 2, `MAX_PHASES` 16 and 3. The code treats all
  values up to them alike: what matters is the first look after a miss, one more, and the
  ring wrapping around. `MaxMisses` is at most
  `MaxExiting` and `MaxChecks`: with a bag that misses items more often than
  that the give-up rules are wrong.
* `OpsBound` ends the loops that only the stop signal ends: it is a guard on
  starting one more operation, long enough for several phases or updates.
* Dictionaries: two keys, as operations touch one key each; three threads on
  two keys have to meet. Sessions put the tables whose deletion is entangled (3 and
  4) in either order, and a table that tells what it removed after one that does
  not.
* Command lines: all sequences of up to three of the options `-e`, `-i`, `-s`
  with values on either side of what is accepted, `-t` and `-p` around the
  machine's numbers of cores, `-d` on either side of 2^32 microseconds in both
  orders, and key spaces on either side of what an `int` holds. Durations are
  in units of 64 microseconds, as TLC's integers have 32 bits.
* `Printed` rounds to `Digits` = 1 instead of 6 significant digits, so that a
  product of two small numbers already has more.
* Component: 2 x 2 matrices have empty, partial and full rows, entries that
  cancel, files out of order and with duplicates; three calls give every
  pair of variants a result to take over.

Deadlock is not checked: all programs end.
Termination is checked instead where the code ends by itself.

### Fairness

Each thread is weakly fair: the operating system, or the OpenMP runtime for a
whole team, runs every thread. The steps of `perform_experiment` are weakly
fair because it is a thread too and `usleep` returns. Nothing is assumed of locks: a mutex or spinlock is taken by
some waiting thread. That a particular thread gets the spinlock is therefore not claimed. In the
queue no fairness is assumed for beginning a call.

## 4. What is proved

`MSTLBQueueProofs`, for any set of threads, items and addresses and any number
of operations:

| theorem | property |
|---|---|
| `Invariance` | `IInv`, the inductive invariant |
| `TypeCorrect` | `TypeOK` |
| `LocksExclude` | `MutualExclusion` |
| `MemorySafe` | `NoUseAfterFree` |
| `ListStaysIntact` | `ListIntact` |
| `DestructorFreesAll` | `NoLeak` |

None of the last four is inductive alone. `NoUseAfterFree` needs to know that
the pointers in registers point into the list, that needs mutual exclusion on
each side, and the two sides meet in the dummy node. `IInv` is a conjunction:

* `TypeOK`, `MutualExclusion`;
* `List`: `chain` is a non-empty sequence of distinct nodes that begins at
  `head`, `next` follows it and ends it, and `tail` is its last node or the node
  before, while an enqueuer is between its two stores;
* `Locals`: what registers hold at each point in terms of that list;
* `Ownership`: a thread that has a node outside the list has it alone;
* `Allocation`: exactly the listed and the owned nodes are allocated (so that
  an address handed out again is in nobody's list or hands);
* `Destruction`: the destructor runs when all threads are idle, and has freed
  a prefix of the list.

The proof that a step keeps `IInv` is one lemma for each conjunct, with a step
for each action that can disturb it. The only
assumptions are that there is an address, and that addresses and items are
different from the null values and from the marker of a queue in use
(`NodesAssumption`, `ItemsAssumption`).

The same module proves `QueueIsLinearizable`: `Spec => Linearizable`, that
is, the queue implements `AtomicQueue`, under the same assumptions. The
invariant it needs, `RInv`, adds to `IInv` which call each thread is in
(`Calls`) and that the node an enqueuer is about to link holds its item once
the initialising store can be seen (`Contents`). Under the mapping the
abstract queue is the values of `chain` behind the dummy. An enqueue takes
effect when it links its node (`LinkImplements`), a dequeue when it moves
`head` (`SetHeadImplements`), and a call that finds nothing when it reads a null
`next` under the head lock (`ReadNextImplements`), which is just when the
abstract queue is empty (`QueueEmpty`). Invocations and returns map to their
own (`InvokeImplements`, `ReturnImplements`); every other step stutters
(`StutterImplements`).

`DictionaryProofs`, for any threads, keys, initial keys and sessions:

| theorem | property |
|---|---|
| `KeysAreConserved` | `KeysConserved` |
| `WeakGrowthIsBounded` | `WeakGrowthBounded` |
| `TablesAreLive` | `TablesLive` |
| `StatisticsAlwaysAddUp` | `StatisticsAddUp` |

The two key properties are inductive once it is known in which phases threads
run (`Phases`): then a step of one thread moves one key between the dictionary and the keys in
update. `TablesLive` follows from `Phases`: at most one table is live, it is the
current one, and `DeletedBy` of any implementation contains it. For
`StatisticsAddUp` the two counters of the experiment are the sums over the
threads that have saved theirs (`Saved`), and a thread has removed as many keys as
it has put back, and one more in the middle of an update (`UpdatesCounted`); with the
keys conserved, the difference is the keys that are gone. `Threads` and `Keys` have to be finite
(`DictionaryAssumption`).

The same module has the theorems of the main program, for any set of command
lines of any length. `BenchRunsExperiment` is `MainSpec => Spec`, so that the
four above hold under it.

| theorem | property | hypothesis |
|---|---|---|
| `RunImplementationsExist` | `ImplementationsExist` | none |
| `OtherParametersAreAsSet` | `OtherParametersAsSet` | none |
| `PinnedThreadsAreApart` | `PinnedApart` | two sockets, or one PU for each core |

`process_arguments` is a fold. `OneByOne` unrolls it: the settings after `k` options
are those after `k - 1`, changed by `Process`; `ProcessEffects` says which settings
each kind of option changes, and what follows from that for a prefix of the command line
(`Trace`) is shown by induction on its length. The induction is that a set of
numbers that has a member has a least one (`AllNumbers`). For `PinnedApart` a thread number is written with its quotients and
remainders (`FillsPUs`, `JumpsSockets`), and the PU is the same digits in another
order, which a number has only one of (`DividedOnce`). The hypothesis is what
the formula of `JUMP_SOCKET` needs: when all cores have a thread it goes one socket
on, which is right for two sockets (`TestBenchCLI.cpp:50-52` has two with
8 cores each), while with three sockets and two PUs to a core two threads meet.

`TestBenchProofs`, for any numbers of threads and implementations and any
experiment: `BenchMeasuresAll`, of `MeasuresAll`. Its invariant `BenchIInv` says
how far threads are created (`BenchCreation`), what they have seen before and
after the start signal (`BenchSignals`), and that `runningCounter` is the number
of threads counted in and not out, the last of which writes the end time
(`BenchCounters`). `GEMMImplementsBench`, `ProducerConsumerImplementsBench` and
`MandelbrotImplementsBench` prove `Spec => BenchSpec` for the three experiments: each step is one of the bench or
a `Run`. What is proved of the bench therefore holds of them
(`ProducerConsumerMeasuresAll`), and `BenchIInv` is at hand for their own
invariants:

| theorem | property | argument |
|---|---|---|
| `GEMMLeavesWhenDrained` | `LeavesWhenDrained` | `added` is the number of threads that have put their blocks (`AddedCounts`), after which the bag never grows; while blocks are left a thread has seen at most one more empty bag since the last announcement than the bag missed items for it (`ExitingBound`), so that with `MaxMisses <= MaxExiting` it does not leave (`LeaversLast`) |
| `GEMMMultipliesOnce` | `MultipliedOnce` | producers go through different block rows (`OwnRows`); each block is not inserted yet, in the bag, in one thread's hands or multiplied once more than by the implementations before (`WorkInv`); inserts counted and pending are removes counted and pending and what is in the bag (`CountInv`) |
| `MandelbrotLeavesWhenDrained` | `LeavesWhenDrained`, the first part of `ImageComplete` | for an even number of threads (`EvenThreads`) half of them produce (`HalfProduce`), and `nrAdders` is the number of those that have finished (`AddersCount`); as in GEMM a consumer sums only when the bag is empty (`ChecksBound`, `SummedLast`, with `MaxMisses <= MaxChecks`), and the first sum is before anybody leaves |
| `MandelbrotCompletesImage` | `ImageComplete` | a producer generates the regions of one remainder (`OwnRegions`, `Generated`); what it has generated is in the bag, with one consumer, or shown by all its pixels (`Covered`), and regions are disjoint and together the image (`RegionSizes`: a region is more than one pixel wide at every level, a fact on powers; that its size divides the image is in `MandelbrotAssumption`) |
| `ProducerConsumerCountsOnlyActive` | `CountsOnlyActive` | only the leader switches phases (`LeaderSwitches`), and in a passive phase the operations counted and those still to come from threads that have read `active` are together fewer than the threads (`LateBound`) |
| `ProducerConsumerDrainsBeforeActive` | `DrainedBeforeActive` | each look of the leader at a bag that is really empty bounds what is in it, and to come, by the producers that had decided on an insert (`DrainInv`); with `MaxMisses < EmptyChecks` one of its looks is no miss |
| `ProducerConsumerPrefillsBeforeActive` | `PrefilledBeforeActive` | the bag is what the leader put in since the phase became passive, less the removals that consumers had decided on (`FillInv`), with `MaxMisses = 0` |
| `ProducerConsumerReportsPhases` | `PhasesReported` | the leader's own account of the phases is that of the history, entry by entry of the ring (`PhasesInv`) |

`RowStoreProofs` is about the two programs that run the row store and begins with
the lemmas they share: what each step on rows does to the rows that are
computed, in the bag, taken and copied. For any finite set of workers and any
matrix, of the row store alone and of SpTest, whatever its command line selects:

| theorem | property | hypothesis |
|---|---|---|
| `LateArrivalsAreSafe`, `TestLateArrivalsAreSafe` | `LateArrivalsSafe` | none |
| `UnracedProduct`, `TestUnracedProduct` | `ProductUnlessRaced` | of SpTest: there is a worker |
| `RowPointersAreRight`, `TestRowPointersAreRight` | `RowPointersRight` | of SpTest: there is a worker |
| `SlotsAreLeft` | `SlotsLeft` | none |
| `AlgorithmsAreRight` | `AlgorithmsMultiply` | there is a worker |

`phase1` is the number of workers in phase 1 (`CountsPhase1`), so that when one
reads 0 there nobody computes, and as no row is left (`NoRowLeft`) nobody computes
again (`NoneComputing`). `RegionRowInv` follows each row: claimed, computed, in the bag, taken, copied
(`RegionCovered`), with its place in `C` fixed once the row pointers are laid out
(`RegionLaidOut`), provided one worker had the sequential phase (`Unraced`). However many had it, when
somebody may copy C is laid out or a worker is about to lay it out again (`RegionShape`). The triplet store's `TripletInv` follows
each nonzero in the same way (`Found`); in its second region the row pointer of a
row, the slots that workers have claimed and those that are filled make up the
row (`SlotsCounted`), and claimed slots are all different (`OwnSlots`), so that
each slot gets one nonzero and each nonzero one slot. `SequentialInv` says how far
the sequential algorithm is. A worker is needed because with none the
parallel algorithms end without having begun.

In the same module, for the experiment in both builds, any matrix, work unit and number of
iterations, under `FewThreads`: the threads are no more than the object counts.

| theorem | property |
|---|---|
| `TypesAreOK` | `TypeOK` |
| `SequentialPhaseIsAlone` | `SequentialPhaseAlone` |
| `BarrierWaitsForAll` | `WaitsForAll` |
| `RowsFitInC` | `RowsFit` |
| `ProductIsComplete` | `ProductComplete` |

The run `spgemm_overcommitted` shows that without `FewThreads`
`WaitsForAll` is false. The invariant `PhaseInv` keeps the two builds and the
static algorithm apart (`Parts`), says that `phase1` is the number of arrived
threads (`Arrivals`), that all have arrived when one is past the barrier
(`Gathered`), who has the mutex (`Holding`), what `phase2` and `phase3` tell
(`Claimed`, `NotLaunched`), and that the thread in the sequential phase is alone
(`Alone`). `RowInv` is the row store's, as above, with the static algorithm's single
thread (`Single`); `Bounds` says how far claims may run past the last row.

`SpGEMMComponentProofs`, for matrices of any size and values, any files, digits and
number of calls:

| theorem | property |
|---|---|
| `ComponentInvariant` | `IInv`, the inductive invariant |
| `BothCopiesFit` | `BuffersFit` |
| `MatricesWellFormed` | `WellFormed` |
| `SavedMatricesReload` | `SavedReloads` |
| `ComponentMultiplies` | `MultipliesMatrices`: `SpGEMMComponent` implements `Matrices` |

Most of the module is about the operators of `SparseMatrix`, for which sums and
sequences of any length have to be dealt with. Induction is on numbers, as above
(`AllNumbers`):

* A sum is that of one member and of the rest, whichever member it is
  (`SumUnrolled`, `SumRemoves`, `SumAdds`). The module that defines sums over sets does so by a
  fold, which is shown first to be the same as a function on the subsets
  (`SumsUnroll`, `SumsAgree`). Sums over one set in terms of another are equal when
  members correspond (`SumMapped`).
* `RowMajor(S)` lists each member of `S` once and in order (`RowMajorOrder`): in a finite
  set of pairs, for each number below its size, one pair has that many before it.
* Accumulator: after `q` products `nzs` has the columns of these, once each, and `v` has for each
  column the sum of its products (`Accumulated`, kept by `ProductAccumulated`),
  whatever is left of earlier rows, whose version is older (`Clean`). The sums of
  all products of a row are the entries of `Times` (`ProductsOfRow`, `TermsOfIntegers`), and
  what is listed without the zeros is the row (`RowComputed`).
* Rows laid out one behind the other are found by their row pointers
  (`PointersAscend`, `PieceAt`, `SlotsHoldRow`), and denote the matrix they are
  the rows of (`RowsDenote`). The sequential algorithm gets there from the last row
  to the first (`RowCopied`).
* Sorted triples of distinct positions make a well-formed matrix with just these
  values (`SortedTriples`, `PositionsDenote`). That is what a file becomes
  (`LoadedMatrix`), what the GPU library leaves (`GpuProductIsProduct`), and why a
  saved matrix reloads: each slot has a line of its own, and the line read twice
  gives the same triple (`ReloadedMatrix`). That needs nothing of `Printed` but that it depends on
  the value alone.

`IInv` then says that every vector has copies of its size (`VecType`), that what was
loaded or computed with no lost entries is a well-formed matrix on the side that is valid (`HasMatrices`), that
the operands of a sequential call stay on the CPU (`OperandsRead`), that the rows it
has computed are the first of the product (`RowsComputed`), and that the rows it
has taken back are in the result at the pointers of all (`RowsCopied`). No property is
inductive without: `WellFormed` needs the rows of a call that is still running,
and these the operands unchanged, although the output may be one of them. What a
matrix holds (`Held`) are the valid copies; reading on either side does not change it
(`MatricesRead`), and it is what is saved (`SavedAreHeld`). With that each step either
multiplies (`CallGpuStep`, `OutputCpuStep`), multiplies or loses entries
(`CallDSParallelStep`), or changes no matrix, which is the refinement. `ComponentMultiplies` says nothing of what a raced call stores but its size;
that a sequential phase that was run once leaves the product is `UnracedProduct` above. The assumptions are `SpGEMMComponentAssumption`: files are not empty,
their lines are within the matrix, and values are integers.

**Only model-checked:** all liveness, which needs `ENABLED`: `LockProgress`,
`HolderReturns`, `RegionEnds` and `Terminates` of the experiments. And the four
runs that fail, which are counterexamples.

## 5. What is abstracted, and what is not modelled

* Queue: items are values; the cycle counters and the bag's renaming of
  operations are left out. Bags in the other modules are atomic, as
  `Linearizable` justifies for this queue, or may miss items (`MaxMisses`).
* Products: numbers are left out of the row stores and are in `SparseMatrix`. A row is
  copied in one step, and the creation of C is one. After a race for the sequential
  phase the code may do worse than the model: two assignments to C at a time
  may free the same arrays, and a worker that read a row pointer from arrays that were
  then replaced writes at the wrong place. Nothing is claimed of entries then (`ProductUnlessRaced`),
  nor of a program that ended.
* SpGEMM experiment: the work unit size is at least 1 (`RowStoreAssumption`). The bench accepts 0 and less
  (`-s 2 0`, or `-s 1 0` by the missing `break`), with which claims never advance and phase 1 never
  ends (`NBLExpSpGEMM.cpp:355-361`). It accepts algorithms above 1 too, with which the
  experiment does nothing.
* GEMM: the matrix is `NB` x `NB` whole blocks, `NB` at least 1 (`GEMMAssumption`); `-s` also accepts work units that do
  not divide its size, and 0.
* Bench: time does not pass; `ended` is the threads that wrote the end time.
* ProducerConsumer: work between two operations, and what is printed beyond
  counters and phase lengths. The counter of failed removals. The ring of phase starts
  begins with zeros; the code's `new long double[16]` is not initialised, which shows when it is
  printed although no thread leads the phases. GEMM: the
  arithmetic of a block is one step. Mandelbrot: the arithmetic of a pixel,
  colours and the picture file.
* Dictionaries: libraries are atomic maps. Lookup counters and the counter of
  failed removals are left out. The arrays behind threads and schedules are not
  modelled, nor what happens beyond them. Between two runs each thread's
  position in its random schedule is chosen anew. To delete a table that is not
  live may end the program or not. An implementation number without a case is taken to end it, also
  when the weak dictionary of the run before is used after it was deleted
  (`NBLExpWeakDictionaryBase.cpp:230-234`), which may go on. That the struct of a CBTree is never freed (`NBLExpDictionaryBase.cpp:581`) is not shown.
* CommandLine: an option is its flag and the numbers that parse. `DictionaryBench`
  only starts dictionary experiments with as many threads as the instance has.
  With `-mf` the bench tells a monitoring framework, which is not in the
  repository, when a case starts and stops; only the switch is modelled.
* SpTest: a word of the command line is a word; output is left out.
* Component: the build of `GRS/COMPILE.sh` (with `MODIFIED_BHSPARSE`); the size
  vector is always on the CPU; the GPU library returns
  the product with the entries of each row in order, and does not fail. Blocks
  that the destructor leaks are not counted.
* Not modelled: vector-based bags and stacks, the acquire-release lock,
  adapters of external libraries beyond what the wrappers do, `clean_caches`
  (its only call is commented out), monitoring calls, librsb and CombBLAS
  comparisons (external libraries, not built by default), the triplet-store
  product of `SpGEMM_Gustavson.h` (no program calls it), scripts, the metrics
  extractor, job files.

**Where the code and its words differ outside the instances.** These were met
while modelling; the properties are stated for the range in which the code
keeps its word.

* `-d` is "in seconds" (`TestBenchCLI.cpp:380`), but 4295 seconds and more wrap in
  the 32 bits of `useconds_t` (`TestBenchCLI.cpp:281`).
* "n for key space size 2^n" (`NBLExpDictionary.cpp:94`): `1 << n` does not fit an
  `int` from n = 31 on.
* A thread leaves GEMM when `added == NR_CPUS`, so that more than `MAX_CPUS`
  threads never end; an odd number of threads never leaves Mandelbrot, whose
  producers and consumers are counted as halves (`NBLExpMandelbrot.cpp:235`).
* `SpTest` rejects `-a 4`, CombBLAS, as `no_algorithms` is 4 (`SpTest.cpp:44`);
  `SpTest -h` alone takes `-h` for the matrix file.
* The last line of a matrix file is read twice, the second time into locals that are
  never set (`SpMatrix.cpp:139-142`); they are taken to keep the values of the line
  before, as they do in practice.
* A matrix without nonzeros, when saved, reloads with a triple of values that
  were never set (`SpMatrix.cpp:139-145`); `SavedReloads` speaks of the others.

## 6. Plan

Done, in this order because the queue is under everything else and the products
are what the repository is measured by: queue, its proofs and its refinement; SpGEMM experiment;
OpenMP products; GEMM and Mandelbrot; producer-consumer and bench; dictionaries,
their proofs, and command line; GRS component; the bench under all bag
experiments, that all three implement it, and when the threads of GEMM and
Mandelbrot leave; the phase changes of both parallel products proved; the
sequential algorithm and the command line of SpTest; saving matrices; the
products and the work of all experiments proved complete, and the command line of the bench;
the operators of sparse matrices, and that the component implements `Matrices`.

To do next:

1. The triplet-store product of `SpGEMM_Gustavson.h`, should a program call it.
2. The dictionary experiments under `TestBench`: `DictionaryExperiment` has a
   bench of its own that starts all threads in one step.
