------------------------------ MODULE Atomicity ------------------------------
(***************************************************************************)
(* Atomicity_Test of TestTSX.c: all threads increment globalCount          *)
(* NUM_VALUES times each, in hardware transactions or without, and the     *)
(* test compares globalCount with numThreads * NUM_VALUES.                 *)
(*                                                                         *)
(* A transaction is one step, and one that aborts has no effect: i-- and   *)
(* the i++ of the loop cancel out, modulo 2^64 for the first iteration.    *)
(* Without transactions globalCount++ is a data race: a load, and a store  *)
(* later.  globalCount is not volatile, so a build may put several         *)
(* increments into one load and one store.                                 *)
(***************************************************************************)
EXTENDS TsxTestParameters

VARIABLES
  usingTM,
  numThreads,           \* 15 in the test; up to NumThreads are tried
  globalCount,
  i, loaded, batch,     \* per thread: done, globalCount as loaded, what to add
  run, passedTests

vars == <<usingTM, numThreads, globalCount, i, loaded, batch, run, passedTests>>

Threads == 0 .. numThreads - 1

(* An int product: it wraps around.                                        *)
FinalResult ==
  LET half == IntMax + 1
  IN  ((numThreads * NumValues + half) % (2 * half)) - half

TypeOK ==
  /\ usingTM \in BOOLEAN /\ numThreads \in 1 .. NumThreads
  /\ globalCount \in 0 .. numThreads * NumValues
  /\ i \in [Threads -> 0 .. NumValues]
  /\ loaded \in [Threads -> 0 .. numThreads * NumValues]
  /\ batch \in [Threads -> 0 .. NumValues]
  /\ run \in 0 .. NTimes /\ passedTests \in 0 .. run

Init ==
  /\ usingTM \in BOOLEAN /\ numThreads \in 1 .. NumThreads
  /\ globalCount = 0
  /\ i = [t \in Threads |-> 0]
  /\ loaded = [t \in Threads |-> 0]
  /\ batch = [t \in Threads |-> 0]
  /\ run = 0 /\ passedTests = 0

Running(t) == run < NTimes /\ i[t] < NumValues

-----------------------------------------------------------------------------
IncrementCommits(t) ==
  /\ usingTM /\ Running(t)
  /\ globalCount' = globalCount + 1
  /\ i' = [i EXCEPT ![t] = @ + 1]
  /\ UNCHANGED <<usingTM, numThreads, loaded, batch, run, passedTests>>

\* A bug that forgets i--.
AfterAbort_Counted(k) == k + 1

(* i-- before the loop's i++.                                              *)
AfterAbort(k) == k - 1 + 1

IncrementAborts(t) ==
  /\ usingTM /\ Running(t)
  /\ i' = [i EXCEPT ![t] = AfterAbort(@)]
  /\ UNCHANGED <<usingTM, numThreads, globalCount, loaded, batch, run, passedTests>>

(* Atomicity_incrementCounter loads the counter, for some increments ...   *)
Load(t) ==
  /\ ~usingTM /\ Running(t) /\ batch[t] = 0
  /\ \E n \in 1 .. NumValues - i[t] : batch' = [batch EXCEPT ![t] = n]
  /\ loaded' = [loaded EXCEPT ![t] = globalCount]
  /\ UNCHANGED <<usingTM, numThreads, globalCount, i, run, passedTests>>

(* ... and stores it.                                                      *)
Store(t) ==
  /\ ~usingTM /\ batch[t] > 0
  /\ globalCount' = loaded[t] + batch[t]
  /\ i' = [i EXCEPT ![t] = @ + batch[t]]
  /\ batch' = [batch EXCEPT ![t] = 0]
  /\ UNCHANGED <<usingTM, numThreads, loaded, run, passedTests>>

(* The threads are joined, the result is compared, the next run begins.    *)
Verify ==
  /\ run < NTimes
  /\ \A t \in Threads : i[t] = NumValues
  /\ run' = run + 1
  /\ passedTests' = IF FinalResult = globalCount THEN passedTests + 1 ELSE passedTests
  /\ globalCount' = 0
  /\ i' = [t \in Threads |-> IF run' < NTimes THEN 0 ELSE NumValues]
  /\ loaded' = [t \in Threads |-> 0]
  /\ UNCHANGED <<usingTM, numThreads, batch>>

Ended == run = NTimes /\ UNCHANGED vars

Next ==
  \/ \E t \in Threads :
       IncrementCommits(t) \/ IncrementAborts(t) \/ Load(t) \/ Store(t)
  \/ Verify
  \/ Ended

Spec == Init /\ [][Next]_vars

-----------------------------------------------------------------------------
Joined == run < NTimes /\ \A t \in Threads : i[t] = NumValues

(* With transactions no increment is lost.  Without, as many may be lost   *)
(* as the interleaving and the build let, but two at least survive: the    *)
(* last store overwrites, but what it adds to was loaded after a store, if *)
(* it is not a batch of its own.                                           *)
IncrementsCounted ==
  Joined =>
    IF usingTM THEN globalCount = numThreads * NumValues
    ELSE globalCount >= (IF NumValues = 1 THEN 1 ELSE 2)

(* With transactions the test passes every time, provided that the product *)
(* of threads and values fits into an int; if not, it always fails.        *)
TMTestPasses ==
  usingTM =>
    passedTests = IF numThreads * NumValues <= IntMax THEN run ELSE 0

(* The types, IncrementsCounted and TMTestPasses.                          *)
AtomicityInv == TypeOK /\ IncrementsCounted /\ TMTestPasses

=============================================================================
