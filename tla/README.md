# Verification of the replicated execution prototype

The program detects soft errors (bit flips in registers, caches, arithmetic
units) by computing everything twice, on two hyper-threads of a core, and
comparing. It is a set of experiments: queues between the two threads, a
matrix-vector product replicated over such a queue in several ways, and tests of
Intel's transactional memory for rolling back. `main.c` runs one of them, the
matrix product; the calls of the others are commented out or have no caller.

This directory models the experiments in TLA+, checks the models with TLC and
proves invariants of them with TLAPS.

## Inventory

| Part | Source | State | Operations | Interaction | What makes it correct |
|---|---|---|---|---|---|
| SimpleSyncQueue | Queues.c 98-152 | slots, `enqPtr`, `deqPtr`, `checkState`, `volatileValue` | Init, Enqueue, accesses written out in its users, Destroy | shared memory, one producer, one consumer, no lock | a slot is filled only when free, read only when filled |
| Matrix replication | VectorMatrixMult.c 101-422 | both threads' loops, two result vectors | three kinds of producer, two of consumer | through SimpleSyncQueue; row results through two flags; `exit(1)` as the alarm | alarm if and only if a soft error; both copies equal and right; both threads end |
| Matrix driver | VectorMatrixMult.c 45-97, 425-575, main.c | buffers, result vectors, mean times | runs each mode five times | calls the modes one after the other | buffers allocated and freed in turns; the sums printed are right |
| SimpleQueue | Queues.c 69-96 | ring, two pointers | Init, Enqueue, Dequeue | shared memory | a FIFO channel |
| SectionQueue | Queues.c 21-67 | sections, a mode flag for each | Init, Enqueue, Dequeue | shared memory, once per section | a FIFO channel |
| Hyper-thread streams | FirstTestHyperThreads.c | values, per-thread results | compare each value, each group, or an exclusive or of a group; ping-pong | through either queue | every value is compared with its replica |
| SignalSync | TestTSX.c 84-174 | `iterationStatus`, `v1`, `v2`, mutex, two conditions | calculate, finish, verify, retry | mutex and condition variables | the threads compare the same iteration, repeat it together |
| BarrierSync | TestTSX.c 176-225 | the same, two barriers | the same | barriers | the same |
| Transactional retry | TestTSX.c 248-393, UtilFunctionsTSX.c | per-thread result, retry counter | begin, abort, retry, fall back | hardware transactions | every value counted once |
| Atomicity test | TestTSX.c 15-83 | a shared counter | increment with and without a transaction | hardware transactions | with transactions no increment is lost, and the test says so |
| Atomic operations | TestAtomicOps.c | shared variables, barriers | six thread functions | transactions, barriers, spinning | the threads end |
| Core affinity | TestCoreAffinity.c | hand-written barrier, flags of partial results | threads and their replicas | shared memory, spinning | comparisons use results of the same round |
| ThreadUtils | ThreadUtils.c | thread handles | create, start, join, index, range | pthreads | ranges partition the values; a thread finds its own index |
| Intrinsics, build, docs | rtm.h, CMakeLists.txt, configFile | | | | |

What is hard here is nearly always the same: two threads without a lock, whose
agreement rests on the order of a few stores, on a value read earlier that is
used later, and on a marker in the data. `PROJECT.json` lists the hazards at
their lines, with the properties that cover them.

## Modules

* `SimpleSyncQueue` - the fields of the queue and the accesses to them.
* `MatrixReplication` - extends it: what the three modes have in common. The
  producer's put, the handing over of a row result, the whole consumer, and soft
  errors.
* `VolatileReplication`, `RhtReplication`, `RhtImprovedReplication` - extend
  `MatrixReplication` with the producer of one mode each, compose it with the
  consumer and state the properties. `MCVolatile`, `MCRht` and `MCImproved`
  instantiate them.
* `ReplicatedRows` - the abstract specification all three implement: rows are
  verified one after the other and stored, by either thread, only after that.
* `SpscChannel` - the abstract specification of a queue between one producer and
  one consumer. `SimpleQueue` and `SectionQueue` implement it; their constants are
  in `QueueParameters`. `MCQueues` has both, each with its own variables as each has
  its own object in the code, and runs the loops of one and then those of the other.
* `QueueStreams` - the streams of values that a producer and a consumer
  calculate and compare, in the three rhythms of `checkFrequency`, over a
  channel (the one that both queues implement). `MCStreams` instantiates it.
* `SignalSync` - the threads that agree with a mutex and condition variables.
* `TransactionalRetry` - the sum over ranges of values in hardware transactions,
  with ThreadUtils' ranges.
* `BarrierSync` - the same agreement with two barriers.
* `Atomicity` - counting with and without transactions.
* `AtomicOps` - the six thread functions that try what aborts a transaction.
* `CoreAffinity` - the threads of the affinity test, alone and with their
  replicas.
* `ThreadUtils` - creation, start, look-up of the index, join and release of
  threads, one test after the other.
* `MatrixDriver` - the runs and modes of `Vector_Matrix_Mult`, one after the
  other: heap blocks, results and their sums. It composes whole replicated runs,
  each as one step with the outcomes that `ReplicatedRows` and
  `SoftErrorDetected` allow.
* `TsxTestParameters`, `ThreadTestParameters` - the constants of the tests and
  the assumptions about them. The tests of one source file share `NUM_VALUES`.
* `MCTsxTests` - instantiates the four tests of TestTSX.c, `MCPrograms` the
  driver and the tests of the other files. A behaviour is one of the programs,
  as one execution of the program is; the variables of the others stay 0. Their
  properties have the names they have in the modules of the tests, or begin with
  the name of the test.
* `PthreadBarrier` - `pthread_barrier_wait` (external), for the modules that use
  barriers.
* `MatrixReplication_proofs` - the lemmas about queue, consumer and row handshake
  for any producer; `VolatileReplication_proofs`, `RhtReplication_proofs` and
  `RhtImprovedReplication_proofs` - the theorems of the three modes.
* `Queues_proofs` - the theorems of the two queues; `QueueStreams_proofs` - those
  of the streams; `MCTsxTests_proofs` - those of the four tests of TestTSX.c, about
  `MCTsxTests`, whose specification joins them; `MCPrograms_proofs` - in the same
  way those of the driver, the two other tests and ThreadUtils.

The definitions carry the names of the source where it has one (`content`,
`enqPtr`, `newLimit`, `ConsumerCheckAndMove`, ...). `i`, `j` and `thisValue` of
the producer are `prow`, `pcol` and `pValue`, those of the consumer `crow`,
`ccol` and `cValue`; `pcP` and `pcC` say where the threads are. A definition
whose comment begins with "A bug that" is a mistake one could make in the code
at that place; no specification uses it, and it shows that a property is able to
fail.

### Grain of the actions

An action does at most one access to a variable that the other thread writes
between its busy waits. Stores to private variables join the action before or
after. In detail:

* `enqPtr` of SimpleSyncQueue is read by the producer only, so storing an entry
  and moving `enqPtr` are one step; the consumer's two stores (free the slot,
  move `deqPtr`) are two, because the batching producers read `deqPtr`.
* The consumer reads a slot once for its test against `ALREADY_CONSUMED` and, if
  it had to wait, once more (`RereadEntry`).
* The end of the producer's wait for `checkState` joins the private store of the
  row result that follows.
* The counters of wasted turns (`producerCount`, `consumerCount`) are left out:
  they are printed and nothing depends on them.
* In `SignalSync` the replica's critical sections are one step each (it gives
  the mutex back in all of them); the main thread's comparison is a step of its
  own under the mutex, since `v2` is written without it.
* In `TransactionalRetry` one try of one iteration is one step: a transaction is
  atomic or has no effect, and what the thread does after an abort touches only
  variables of its own and its own entry of `errors`. Aborts by the hardware are
  choices of the environment, with or without the hint that a retry may succeed.
  The main thread's sum takes one step per result.
* `AtomicOps` and `Atomicity` also take a counting transaction for one step. The
  transaction of function 5 of `AtomicOps`, which waits for the other thread, is
  several: begin, the first read of the flag, and its end.
* A waiting thread is in the set `waiting` of its barrier; the thread that comes
  last empties the set, and the others go on at their own time.
* `ThreadUtils` gives a look-up of an index one step. The entries it reads are
  either stored before the thread starts or arbitrary.
* `MatrixDriver` has one step for a run, one for the sum, one for the releases.
* `QueueStreams` collects the values of a group and makes what is sent of them
  (the values, or their exclusive or) at the end of the group, where the code
  updates the exclusive or with each value; nobody sees it before.

Memory is sequentially consistent in the models. The program is built for x86,
which lets only a store pass a later load. The fields of SimpleSyncQueue are
volatile, so the compiler keeps their order, and no protocol here writes one
variable and then relies on having read another one in the meantime: each thread
publishes with stores (which stay in order) what the other finds with loads
(which stay in order too). `content` of SimpleQueue is not volatile; there the
model keeps the order of the source, which the C standard does not demand of the
compiler.

Where threads share variables that are neither volatile nor atomic, the program
has data races, and the CMake build optimises (`-O3` in the release build). The
models choose among what such a build may do:

* A busy wait on a plain variable may read it once (`hoisted` in `CoreAffinity`
  and `AtomicOps`): a thread that finds it not yet set spins for ever.
* `globalCount++` without a transaction is a load and a later store, and a build
  may put any number of increments into one such pair (`batch` in `Atomicity`).
* Memory that is not initialised, or that belongs to a function which has
  returned, holds any handle (`slot` and `dead` in `ThreadUtils`).
* A barrier used before its initialisation does anything from then on (`misused`
  in `BarrierSync`).

### Data

The matrix holds factors from 1 to 10000, so products are positive and the
partial sums of a row increase: that is `MatrixAssumption`, and all the
properties need of the numbers. `long` is wide enough for the sums of a row, so
they are unbounded here. A soft error adds a member of `Corruptions` to a
running sum of either thread; `MaxFaults` bounds their number. `NoResult` stands
for "not stored in this run". One behaviour is one call of
`Vector_Matrix_ReplicatedThreads`, or one run of the two loops over a queue. The
entries of the queue models are numbered by the iterations that send them. In
`QueueStreams` a `long` is the set of its one bits, so that the exclusive or is
the symmetric difference, and a result is the sequence of its summands;
`MCStreams` uses values of two bits. `XorOf` defines the exclusive or of a group
by the parity of each bit; the theorem `XorOfIsTheLoops` says that this is what
`xorMine ^= calcValue` leaves, value after value. In `TransactionalRetry` a right value is 1
and a wrong one 2, as in the code.

`Atomicity` computes its expected result in an `int` up to `IntMax`, wrapping around as
the build does; counts themselves are `long` and unbounded. In `CoreAffinity`
the results of `Affinity_CalcFunc` repeat (`NumResults`), since a stale result
is dangerous only if it equals the right one, and a sum is the set of the
(iteration, value) pairs added. In `MatrixDriver` a result vector, and the sum
of one, is zero, right or wrong, and a heap block is null, live or freed until
it is misused. A soft error that makes a sum the marker, after which a run does
not end (finding 2), is left out there.

## Runs

| Run | Bounds | Shows |
|---|---|---|
| `volatile` | queue of 3, 3 rows of 5 | the mode that enqueues each sum; checks for deadlock |
| `rht` | queue of 3, 3 rows of 7 | the mode that fills in batches |
| `improved` | queue of 3, 3 rows of 7 | the mode of `main`, without freeing slots |
| `improved_false_alarm` | the same, no soft error | *violated*: a finding |
| `rht_sentinel` | as `rht`, a sum may become -1 | *violated*: a finding |
| `queues` | 4 slots; 3 sections of 2; 14 entries each | SimpleQueue is a channel, and so is SectionQueue |
| `streams` | 6 values in groups of 3, queue of 2, two soft errors | the three rhythms of comparison |
| `tsx_tests` | 5 values, 2 threads, an error in iteration 1 or 2 or none, 2 retries, 2 tests, `int` of 4 bits | the four tests of TestTSX.c |
| `signal_sync_try_again` | 4 iterations, the error in iteration 1 | *violated*: a finding |
| `barrier_sync_both_decide` | 4 iterations, the error in iteration 1 | *violated*: a finding |
| `programs` | the driver: 5 runs of each of 3 modes, two soft errors a run; the tests: 5 values, 2 different results, one soft error per core, 2 aborts that nothing forces, 1 to 3 threads, 4 handles | the driver, the affinity test, the atomic operations, ThreadUtils |
| `atomic_ops_wait` | 3 values, 2 aborts that nothing forces | *violated*: a finding |

Why the bounds are enough. A queue of 3 slots is the smallest in which "one slot
free", "two slots free" and "empty" differ, and in which a batch can be shorter
than the queue; a row of 5 or 7 goes round it at least once and ends at another
slot than it began at, so that over three rows every place of the row's end
against the ring's end occurs, and the pointers are met both ways round. With
two soft errors one thread can hide the error of the other, which the properties
that speak of one must survive. In `queues` the entries go round either ring more
than twice. In `streams` the queue is shorter than a group, so one is compared
while it is sent, and there are two groups, so that one that ends wrongly spoils
the next.

In `tsx_tests` there are iterations before and after the injected error, and the
number of threads does not divide the values. Two threads with 5 increments each
are enough for a load of one, most of the increments of the other, and the store
of the first to follow each other; 5 increments fit into an `int` of 4 bits and
10 do not, as 15 times 267000000 do not fit into 32. BarrierSync stops in the
second iteration whatever the number of values.

In `programs` the values do not divide into the two parts of the affinity test
either, results repeat within a range, and both cores may be struck. The atomic
operations abort twice without need, so also after the replica has finished.
ThreadUtils starts test after test without an end, so handles and the freed
array are used again; a fourth handle is one that no thread has. The driver has
the number of runs of the program.

`MaxFaults`, `MaxCoreFaults`, `MaxAborts` (aborts that no conflict forces) and
`MaxThreads` are the bounds that the program does not have; the others (`Rows`,
`Cols`, `Count`, `NumValues`, `NumRuns`, `NTimes`, `NumThreads`, `IntMax`) are
sizes it has too, `MaxRetries` is 5 in the code, and `NumResults` is the modulus
of the calculated results.

Main properties of the matrix modes:

* `AlarmIsRight` (of the improved mode, within `ImprovedInv`, only its second
  part) - `NoFalseAlarm`: the process ends with the alarm only if a soft error
  struck; `NoErrorMissed`: after one soft error, without a second one that could
  hide it, the two threads are never both done without the alarm.
* `NoOverwrite`, `OneSlotFree` (of the improved mode within `ImprovedInv`),
  `BatchesAreSafe` (`BatchFits` and `EqualPointersMeanEmpty`) - the reasons: the
  producer fills free slots only, although it sizes a batch from one old read of
  `deqPtr`.
* `ConsumerBehind` - in the improved mode the consumer overtakes the producer
  only if the data let a stale entry pass for the right one. `DistinctLaps` says
  when they do not.
* `ImplementsReplicatedRows` - the refinement: rows are verified one after the
  other and stored only after that, in both vectors alike, and rightly unless two
  soft errors struck; after one soft error no further row is verified.
* `Terminates` - both threads end, or the alarm does; a soft error that leaves
  the marker alone cannot make them wait for ever.
* `SoftErrorDetected` - one soft error, without a second one that could hide it,
  ends with the alarm (`rht` and `improved`, whose consumers are the two that
  exist; `volatile` has that of `rht`).

`volatile` checks for deadlock instead of `Terminates`: its threads wait by
spinning, so a state in which both wait has no successor, and a behaviour that
never stops would have to fill the queue for ever, which the rows bound.

Where a module has one invariant for a run, it is named for the module and joins
the type invariant with the safety properties that belong together: `QueueInv`
and `SectionInv` (no slot, no section is worked on by both threads; of
SectionQueue also `WholeSections`, only whole sections reach the consumer),
`LockstepInv` (with `SameIteration`), `StreamInv` and `RetryInv` (below),
`ImprovedInv` (with `OneSlotFree` and `NoErrorMissed`), and those of the modules
below.

`SoftErrorDetected` and `Terminates` hold for the corruptions of the passing
runs, which never turn a sum into `ALREADY_CONSUMED`; `rht_sentinel` is the case
they leave out. `NoFalseAlarm` is no property of the passing run of the improved
mode: `improved_false_alarm` is the case.

`tsx_tests` and `programs` do not check for deadlock, because some of the
programs really stop. After the injected error of SignalSync the main thread may
miss the verdict and end one iteration early, and the replica waits for a
verdict that nobody will give. The threads of BarrierSync stop at their
barriers (finding 5). A build that reads a flag once before a busy wait spins for ever, and
function 5 of `AtomicOps` may wait for a thread that has returned. The liveness
properties say who ends: `Terminates` (SignalSync, without the error),
`TestEnds`, `AffinityEnds` and `AtomicOpsEnds` (unless a thread is stuck in such
a wait, or the main thread of function 5 waited at the barrier after an abort).
The driver and ThreadUtils are sequential up to `pthread_join`.

Of `streams`: `StreamInv` says that the alarm means a soft error, and that one
soft error is announced before both threads are done, which also needs the two
to cut the stream into the same groups.
`ComparedIsRight` says that one soft error does not get past its comparison in
any rhythm, and `ResultsAgree` that executions that end without the alarm have
equal results even after the same error struck both threads; with the encoding,
which can cancel two errors, only after at most one.

Of the transactional retry: `RetryInv` (`OffByReportedErrors`) ties the result
of a thread to the errors it printed, and `PassesIffNothingReported` the verdict
of the whole test to them.

Of the other programs:

* `MatrixDriverInv` - no block is leaked or freed twice although the release
  after a run does not ask what the run allocated; the sum printed after a
  replicated run is right in spite of one soft error; times are related to a
  base line that is known.
* `AffinityInv` - without a soft error on its core a main thread compares the
  results of one iteration, and no iteration is missing in its sum.
  `AddedIsRight` - with one, the sum still gets no wrong value, although the
  comparisons are out of step. Which iterations are missing in the sum then, no
  property says.
* `AtomicOpsInv` - in the functions 1 to 3 each iteration is a count or an abort,
  in function 4 a count; of function 6, where a thread that starts late clears
  the counts of both, there are no more counts and aborts than iterations. In
  function 5 a transaction that saw the replica's flag finds its result.
* `AtomicityInv` - with transactions the count is exact, and the test passes if
  and only if the product of threads and values fits into an `int`; without, at
  least two increments survive, which is what a race as bad as possible leaves.
* `IndexInv` - no thread is taken for another child, and none looks into the
  array after its release.
* `BarrierSyncInv` - while the main thread compares, the replica has not begun
  to write `v2` again, and no barrier holds both threads, as long as no barrier
  was used before its initialisation. It would also hold if the main thread came
  to `barrier2`.

Fairness: weak fairness of each thread's next step. The threads run on cores of
their own (`SetThreadAffinity`) under a scheduler that starves no thread; a busy
wait is a guard. Nothing is assumed of the time at which soft errors strike, and
nothing of wake-ups without a signal. `TransactionalRetry` needs one assumption
about the hardware: weak fairness of a try that the hardware lets run. A
processor that aborted all transactions of a thread for ever, each time with the
hint to retry, would keep the code at one value. `AtomicOps` assumes that a
transaction which spins inside is aborted in the end: an interrupt, a timer's at
the latest, aborts it. The models without liveness properties (`Atomicity`,
`ThreadUtils`, `MatrixDriver`) state no fairness.

## Findings

1. *False alarm in the improved mode* (VectorMatrixMult.c:244). No slot is freed
   any more, but the consumer still waits only for a free one. From the second
   lap on, a consumer that catches up with the producer compares its sum with an
   entry of the lap before and ends the process.
2. *A sum that becomes the marker* (VectorMatrixMult.c:275). A soft error that
   makes a sum -1 looks like a free slot: both threads wait for ever and no
   error is announced.
3. *The verdict read too late* (TestTSX.c:165). The main thread reads
   `iterationStatus` after giving the mutex back; if the replica was fast enough
   to repeat the failed iteration and to finish, the main thread does not see
   `failed` and goes on to the next iteration alone.
4. *A barrier for one* (TestAtomicOps.c:191). A main thread that waited for its
   replica after an abort has used up the replica's last wait; after the commit
   it waits once more, alone.
5. *Another barrier for one* (TestTSX.c:199). The replica of BarrierSync waits at
   `barrier2`, where the main thread never comes: it executes none of the part
   that "both threads execute" (line 215), and the main thread stops at
   `barrier1` in the next iteration. If the main thread came to `barrier2` after
   its comparison, `BothDecide` would hold.

Beside these, what the passing properties say of the code and a reader would not
expect:

* TestTSX.c:68: 15 times 267000000 is an `int` product, so the test with
  transactions fails in every run although no increment is lost
  (`AtomicityInv`).
* ThreadUtils.c:62: the first handle is that of a local variable of a function
  that has returned. A created thread whose handle is left there takes itself
  for thread 0 (`IndexInv` allows 0 to every thread).
* TestCoreAffinity.c:253: after a mismatch `hyperThreadsFinished` is not reset,
  so the main thread does not wait for its replica in the next round ("finished
  and waiting for hyper-thread", line 242) and may reject results that were
  right; their rounds are missing in the sum. `AffinityInv` promises comparisons
  in step only before the first soft error of a core.
* VectorMatrixMult.c:244: `Terminates` of the improved mode depends on the data.
  If entries repeat from one lap to the next (all factors 1, a queue of 2 and
  rows of 2, say), the consumer runs ahead on stale matches, `deqPtr` comes round
  to the value that the producer read last, and the producer waits for it to
  move while the consumer waits for the row result. `MCImproved` has distinct
  laps.
* TestTSX.c:182: the replica may come to `barrier1` before the main thread has
  initialised it, as the comment there knows ("should not be done here but
  before").

## Proofs

TLAPS checks these theorems for every value of the constants: every size of the
queues and of the matrix, all factors and corruptions, all numbers of values,
threads, tests and retries.

| Theorem | Module | States |
|---|---|---|
| `VolatileTypeCorrect`, `RhtTypeCorrect` | the mode's `_proofs` | `TypeOK`, whatever soft errors strike |
| `VolatileAlarmIsRight`, `RhtAlarmIsRight` | | `AlarmIsRight`, whatever soft errors strike |
| `VolatileOneSlotFree`, `RhtBatches`, `RhtNoOverwrite` | | what the producers rely on (`OneSlotFree`, `BatchesAreSafe`, `NoOverwrite`), whatever soft errors strike as long as none makes a sum `ALREADY_CONSUMED` (`[]NoMarker`) |
| `ImprovedSafe` | RhtImprovedReplication_proofs | `ImprovedInv`: types, the free slot and no error missed, whatever soft errors strike |
| `ImprovedConsumerBehind` | | `ConsumerBehind`: without soft errors, and if no slot holds the same value in two laps, no stale entry is taken |
| `VolatileImplementsRows`, `RhtImplementsRows`, `ImprovedImplementsRows` | the modes' `_proofs` | `ImplementsReplicatedRows`: each mode is a refinement of `ReplicatedRows` |
| `SimpleQueueSafe`, `SectionQueueSafe` | Queues_proofs | `QueueInv`, `SectionInv` |
| `SimpleQueueIsChannel`, `SectionQueueIsChannel` | | the safety part of `SimpleImplementsChannel` and `ImplementsChannel`: initial states and steps are those of `SpscChannel` |
| `StreamsSafe` | QueueStreams_proofs | `StreamInv`: types, no false alarm, one soft error is announced |
| `StreamsCompareRight` | | `ComparedIsRight`: up to one soft error every value compared and added is right |
| `StreamsAgree` | | `ResultsAgree`: ends without an alarm have equal results |
| `XorOfIsTheLoops` | | the exclusive or of a group by parity is that of the loop, for groups of any length |
| `TestsSafe` | MCTsxTests_proofs | the inductive invariants of the four tests |
| `SignalInLockstep`, `SignalReplicaInStep` | | `LockstepInv`, `ReplicaInStep` |
| `BarriersHold` | | `BarrierSyncInv` |
| `CountingSafe` | | `AtomicityInv` |
| `TransactionalRetrySafe`, `PassesIffQuiet` | | `RetryInv`, `PassesIffNothingReported` |
| `ProgramsSafe` | MCPrograms_proofs | the inductive invariants of the driver, of the two tests and of ThreadUtils |
| `MatrixDriverSafe` | | `MatrixDriverInv` |
| `CoreAffinitySafe`, `CoreAffinityAddsRight` | | `AffinityInv`, `AddedIsRight` |
| `AtomicOpsSafe` | | `AtomicOpsInv` |
| `ThreadIndexSafe` | | `IndexInv` |

The assumptions are those of the modules: `QueueSizeAssumption`,
`MatrixAssumption`, `FaultAssumption`, for the batches `BigAssumption` (a row is
no shorter than the queue; the source calls it "one BIG assumption"),
`SimpleQueueAssumption` and `SectionQueueAssumption` (in `QueueParameters`),
`StreamAssumption` (groups of `MODULO` make up the values, as 5 divides 267000000),
`TsxTestAssumption`,
`ThreadTestAssumption` (above all that there are as many handles as threads) and
`ScheduleAssumption` (after a replicated mode come replicated modes only, as in
the schedule of the code: the release after every run relies on it). The passing
runs evaluate all of them.

None of the invariants is inductive by itself. The arguments, one by one:

*No false alarm.* That a comparison succeeds depends on what is in the slot,
that depends on no slot being filled too early, and that on the pointers and
counts of both threads. Each of the three survives more than the one before, so
the invariant (`IInv` of each mode) has three parts.

* `AlwaysInv` holds whatever soft errors strike: the types, the control tied to
  the counters (`ControlOK`), the limit of a batch within its row (`LimitOK`).
* `OrderInv` holds as long as no sum is `ALREADY_CONSUMED` (`NoMarker`), for the
  queue looks at its entries only to tell them from that: `PointersOK` (the
  number of entries held is the distance of the pointers round the ring),
  `LockstepOK` (where a thread can be in the row handshake, given where the other
  is), `SlotsOK` (the slots from `deqPtr` on are filled and all the others are
  free), and what the mode's producer needs, `FreeOK` or `BatchOK`. Finding 2 is
  the case that `NoMarker` leaves out: there a wrong sum looks like a free slot.
* `Sound` holds while `faults = 0`: the filled slots are exactly the partial sums
  still to be compared (`EntriesOK`), and the running sums are right
  (`ValuesOK`). Right sums are positive and so never the marker.

From `OrderInv` follow `OneSlotFree`, `BatchesAreSafe` and `NoOverwrite`; from
all three `NoFalseAlarm`, because a comparison that fails contradicts `EntriesOK`
or `ValuesOK`. The lemmas about the consumer and about a put are in
`MatrixReplication_proofs`, once for all modes; each mode's module has the steps
of its producer.

*The rows.* The refinement must hold after soft errors too, when entries are
wrong and the queue may be out of step. `HandoverInv` is what is left then: the
threads are at most one row apart and only at the handshake, the two copies of
the result agree, and exactly the results of the rows a thread left are stored.
As long as no more than one soft error struck, one of the two sums is right, and
after exactly one the other is wrong until the alarm (`OneErrorOK`): the check of
the row cannot succeed any more, no thread gets past it, and the two are never
both done, which is `NoErrorMissed`. Each step of a mode is then a step of
`ReplicatedRows` or a stutter.

*The improved mode.* Its consumer can overtake the producer, so the invariant
says less of the slots and the pointers: `PointersFit` knows their distance only
up to whole laps, and `BatchOK` bounds the producer's lead (`Lead`, below zero
if it was overtaken) from above, which is what the free slot needs. That
`deqPtr` was read long ago is harmless here as well: it can only have moved away
from the producer. For `ConsumerBehind`, `StaleOK` says which entry each slot
holds - the last one put into it - and `DistinctLaps` that it differs from the
entry the consumer waits for.

*The queues.* SimpleQueue: the pointers are the counts of entries modulo the
ring, and the slots between them hold their entries. SectionQueue: there are
numbers p and c of sections handed over and handed back (`Fit`), at most a ring
apart, such that the modes of the sections say exactly which sections lie between
them, and all slots between the positions of the two threads hold their entries.
That the mode of a section changes only at its end gives `WholeSections`. The
refinement maps the slots filled and not read to the channel's sequence. The
theorems are about each queue's own specification; the lemma `QueuesAreBoth` says
that the behaviours of `queues` are behaviours of both.

*The streams.* The messages under way are the values, or the encodings of the
groups, that the producer made since the consumer's last one, and the groups of
the two threads end at the same values, in each of the three rhythms
(`StreamIInv`). It says where the one soft error is: among the values of either
thread that are not compared yet, never behind a comparison. A wrong
message differs from the right one; for the encoding this rests on the lemma that
changing one value of a group changes the parity of some bit.

*The tests.* SignalSync: who is inside the wait, as a function of
`iterationStatus` (`SignalWaits`), and the number of verdicts both threads have
seen (`SignalLockstep`). BarrierSync: the states before and after the only
meeting there is (`BeforeMeeting`, `AfterMeeting`), unless a barrier was used too
early. Atomicity: the counter is the number of the pairs (thread, increment done)
- a set, because a sum over the threads would need induction over data - and,
without transactions, a load that comes after a store has seen it
(`StoresSeen`). Transactional retry: a thread's result is the number of its
values done and of its errors printed (`ResultsOK`), the ranges lie one after the
other (`Ranges`, proved from the quotient and the remainder the code uses), and
the sum collected so far is that of the ranges below (`SumOK`).

*The other programs.* The driver: which blocks are allocated where
(`DriverHeap`), and that content and handles, once allocated, are allocated anew
in every later run; what result a run leaves (`DriverResults`). ThreadUtils:
which entries of the array are stored (`UtilsSlots`) for the threads that were
started (`UtilsStarted`), so that the first match of a look-up is 0 or the
thread's own entry (`FirstMatch`). AtomicOps: the counting functions add up by
`AllAccounted` itself; function 5 needs to know where the threads can be at the
barrier and that the flag follows the result (`AtomicMeeting`), which also shows
that its transaction can find the flag unset once at most, and so bounds its
aborts. CoreAffinity: the invariant is one of each pair of threads
(`PairIInv`), and a step of a thread touches its own core only (`TouchesOnly`,
`OtherCore`). `PairMeets` counts how often each thread was at the barrier: the
counts are equal, or the one ahead waits. It holds whatever soft errors strike.
Without one, a set flag and every comparison mean that the replica has done the
same iteration and not begun another (`RoundDone` in `PairInStep`), and the sum
is exactly that of the iterations done (`PairCalculates`). With one soft error
only the values are known: at most one of the two results is wrong, whichever
iteration the other one is from (`PairSpoilt`), so equal results are right.

Only model-checked is liveness (`Terminates`, `SoftErrorDetected`, `AffinityEnds`,
`AtomicOpsEnds`, `ErrorIsNoticed`, `TestEnds`, and the temporal part of
`SimpleImplementsChannel` and `ImplementsChannel`), which is out of the prover's
reach. Of SectionQueue it depends on the number of entries being a multiple of
the section's size, as in the run: a section that is not filled to its end is
never handed over. The theorems hold for any number.

## Not modelled

* The matrix driver's timing, statistics and output;
  `CreateThreadsWithScheduling` and `SimpleSyncQueue_Dequeue`, which have no
  caller.
* Of the core affinity test, `thread_affinity_test`, which counts primes and
  shares nothing, the pinning of threads to cores, and
  `thread_task_normally_replicated` on hyper-threads, which is the same loop on
  more threads.
* Of the hyper-thread streams, the ping-pong thread and the thread-local
  replicas of the optimal test, whose values nobody reads again; the bodies of
  the functions that start the threads are commented out.
* BenchmarkSupport.c, whose body is commented out; rtm.h, whose instructions are
  hardware; build and documentation files.

## Plan

All modules of the plan are written: the matrix replication (the part that
`main` runs) with its abstract specification, the two other queues and the
streams over them, SignalSync and BarrierSync, the tests of transactions, the
core affinity test, ThreadUtils, and the driver over the runs. Every invariant
that a passing run checks has a theorem, and so have the action properties and
the refinements of the matrix modes and the queues (of these without their
liveness).

What could follow: `SoftErrorDetected` and `Terminates` by hand, from the
invariants here and the fairness of the threads; the parts under *Not modelled*.
