------------------------------ MODULE MCTsxTests ------------------------------
(***************************************************************************)
(* The tests of TestTSX.c for TLC: a behaviour is one of SignalSync,       *)
(* BarrierSync, Atomicity and TransactionalRetry.  Variables of the tests  *)
(* that do not run are 0.                                                  *)
(***************************************************************************)
EXTENDS TsxTestParameters

VARIABLES
  test,
  errorAt, iterationStatus, v2, firstTime, pc,     \* the replications
  v1, initialised, waiting, misused,               \* BarrierSync
  numThreads, globalCount, loaded, batch, run, passedTests,   \* Atomicity
  errors, retriedTimes, result, reported, added, finalResult, \* TransactionalRetry
  usingTM, i

replication == <<errorAt, iterationStatus, v2, firstTime, pc>>
barriers    == <<v1, initialised, waiting, misused>>
counting    == <<numThreads, globalCount, loaded, batch, run, passedTests>>
retries     == <<errors, retriedTimes, result, reported, added, finalResult>>
allVars     == <<test, replication, barriers, counting, retries, usingTM, i>>

Signal   == INSTANCE SignalSync
Barriers == INSTANCE BarrierSync
Counting == INSTANCE Atomicity
Retry    == INSTANCE TransactionalRetry

NoReplication ==
  errorAt = 0 /\ iterationStatus = 0 /\ v2 = 0 /\ firstTime = 0 /\ pc = 0
NoBarriers == v1 = 0 /\ initialised = 0 /\ waiting = 0 /\ misused = 0
NoCounting ==
  numThreads = 0 /\ globalCount = 0 /\ loaded = 0 /\ batch = 0 /\ run = 0 /\ passedTests = 0
NoRetries ==
  /\ errors = 0 /\ retriedTimes = 0 /\ result = 0 /\ reported = 0
  /\ added = 0 /\ finalResult = 0

InSignal   == test = "SignalSync"
InBarriers == test = "BarrierSync"
InCounting == test = "Atomicity"
InRetry    == test = "TransactionalRetry"

Init ==
  \/ test = "SignalSync" /\ Signal!Init
       /\ NoBarriers /\ NoCounting /\ NoRetries /\ usingTM = 0
  \/ test = "BarrierSync" /\ Barriers!Init
       /\ NoCounting /\ NoRetries /\ usingTM = 0
  \/ test = "Atomicity" /\ Counting!Init
       /\ NoReplication /\ NoBarriers /\ NoRetries
  \/ test = "TransactionalRetry" /\ Retry!Init
       /\ NoReplication /\ NoBarriers /\ NoCounting

(* A step of a test leaves the variables of the others alone.              *)
SignalStep(A)   == InSignal   /\ A /\ UNCHANGED <<test, barriers, counting, retries, usingTM>>
BarriersStep(A) == InBarriers /\ A /\ UNCHANGED <<test, counting, retries, usingTM>>
CountingStep(A) == InCounting /\ A /\ UNCHANGED <<test, replication, barriers, retries>>
RetryStep(A)    == InRetry    /\ A /\ UNCHANGED <<test, replication, barriers, counting>>

Next ==
  \/ SignalStep(Signal!Next)
  \/ BarriersStep(Barriers!Next)
  \/ CountingStep(Counting!Next)
  \/ RetryStep(Retry!Next)

(* The fairness of the tests.                                              *)
Fairness ==
  /\ WF_allVars(SignalStep(Signal!ReplicaStep)) /\ WF_allVars(SignalStep(Signal!MainStep))
  /\ \A t \in 0 .. 1 : WF_allVars(BarriersStep(Barriers!ThreadStep(t)))
  /\ \A t \in 0 .. NumThreads - 1 : WF_allVars(RetryStep(Retry!Try(t)))
  /\ WF_allVars(RetryStep(Retry!Collect))

Spec == Init /\ [][Next]_allVars /\ Fairness

-----------------------------------------------------------------------------
(* SignalSync: without the injected error the threads compare the results  *)
(* of one iteration.                                                       *)
LockstepInv == InSignal => Signal!LockstepInv

(* SignalSync: the replica keeps still during a comparison and never       *)
(* misses a verdict, even when the main thread fell out of step.           *)
ReplicaInStep == InSignal => Signal!ReplicaInStep

(* SignalSync: a wrong value of the replica leads to the verdict failed.   *)
ErrorIsNoticed == (InSignal /\ Signal!ErrorMade) ~> (InSignal /\ Signal!ErrorNoticed)

(* SignalSync: without the injected error both threads end.                *)
Terminates == InSignal /\ Signal!NoError => <>(InSignal /\ Signal!AllEnded)

(* BarrierSync: the main thread compares only while the replica is behind  *)
(* its calculation, and no barrier holds both threads.                     *)
BarrierSyncInv == InBarriers => Barriers!BarrierSyncInv

(* Atomicity: with transactions no increment is lost and the test says so, *)
(* if an int holds the count.                                              *)
AtomicityInv == InCounting => Counting!AtomicityInv

(* TransactionalRetry: a result is off by the errors that were printed.    *)
RetryInv == InRetry => Retry!RetryInv

(* TransactionalRetry: the test passes if and only if none was.            *)
PassesIffNothingReported == InRetry => Retry!PassesIffNothingReported

(* TransactionalRetry: the retries end.                                    *)
TestEnds == InRetry => <>(InRetry /\ Retry!Collected)

=============================================================================
