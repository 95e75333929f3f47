----------------------------- MODULE SignalSync ------------------------------
(***************************************************************************)
(* ThreadReplicationFunc_SignalSync of TestTSX.c: thread 1, the replica,   *)
(* and thread 0, the main thread, calculate the same value in every        *)
(* iteration; thread 0 compares the two and writes its verdict to          *)
(* iterationStatus, and both threads repeat an iteration that failed.      *)
(*                                                                         *)
(* ThreadReplicationCalcFun always returns 1, so that v2 is right but for  *)
(* the error the replica injects, once, in iteration errorAt; v1 is right  *)
(* whenever it is used, and each thread's result counts its iterations.    *)
(*                                                                         *)
(* A pthread_cond_wait ends after a signal, or for no reason at all.  The  *)
(* replica gives syncMutex back in the step that takes it; the main thread *)
(* keeps it while it compares.                                             *)
(***************************************************************************)
EXTENDS TsxTestParameters

VARIABLES
  errorAt,   \* the iteration of the injected error, 8 in the code
  iterationStatus,
  v2, firstTime,
  pc,    \* per thread: control
  i      \* per thread: the loop variable

vars == <<errorAt, iterationStatus, v2, firstTime, pc, i>>

Main    == 0
Replica == 1
Threads == {Main, Replica}

IterationStatus == {"started", "replicationFinished", "successfull", "failed"}

TypeOK ==
  /\ errorAt \in ErrorsAt
  /\ iterationStatus \in IterationStatus
  /\ v2 \in {"right", "wrong"}
  /\ firstTime \in BOOLEAN
  /\ pc \in [Threads -> {"calculate", "lock", "waiting", "woken", "verify",
                         "decide", "ended"}]
  /\ i \in [Threads -> 0 .. NumValues]

Init ==
  /\ errorAt \in ErrorsAt
  /\ iterationStatus = "started"
  /\ v2 = "wrong"               \* -1, as v1
  /\ firstTime = TRUE
  /\ pc = [t \in Threads |-> "calculate"]
  /\ i = [t \in Threads |-> 0]

SyncMutexFree == pc[Main] # "verify"
HasVerdict    == iterationStatus \in {"successfull", "failed"}

(* Thread t goes on at `to`, and a thread that waits for its signal wakes. *)
GoAndSignal(t, to) ==
  pc' = [u \in Threads |-> IF u = t THEN to
                           ELSE IF pc[u] = "waiting" THEN "woken" ELSE pc[u]]

Go(t, to) == pc' = [pc EXCEPT ![t] = to]

SpuriousWakeup(t) ==
  /\ pc[t] = "waiting"
  /\ Go(t, "woken")
  /\ UNCHANGED <<errorAt, iterationStatus, v2, firstTime, i>>

-----------------------------------------------------------------------------
(* The replica.                                                            *)

ReplicaCalculate ==
  /\ pc[Replica] = "calculate"
  /\ v2' = IF i[Replica] = errorAt /\ firstTime THEN "wrong" ELSE "right"
  /\ firstTime' = (firstTime /\ i[Replica] # errorAt)
  /\ Go(Replica, "lock")
  /\ UNCHANGED <<errorAt, iterationStatus, i>>

\* A bug that waits without telling the main thread.
ReplicationFinished_NoSignal ==
  /\ pc[Replica] = "lock"
  /\ SyncMutexFree
  /\ iterationStatus' = "replicationFinished"
  /\ Go(Replica, "waiting")
  /\ UNCHANGED <<errorAt, v2, firstTime, i>>

ReplicationFinished ==
  /\ pc[Replica] = "lock"
  /\ SyncMutexFree
  /\ iterationStatus' = "replicationFinished"
  /\ GoAndSignal(Replica, "waiting")
  /\ UNCHANGED <<errorAt, v2, firstTime, i>>

\* A bug that takes every wake-up for the verdict.
AwaitVerdict_Once ==
  /\ pc[Replica] = "woken"
  /\ SyncMutexFree
  /\ Go(Replica, "decide")
  /\ UNCHANGED <<errorAt, iterationStatus, v2, firstTime, i>>

AwaitVerdict ==
  /\ pc[Replica] = "woken"
  /\ SyncMutexFree
  /\ IF HasVerdict
     THEN Go(Replica, "decide")
     ELSE GoAndSignal(Replica, "waiting")
  /\ UNCHANGED <<errorAt, iterationStatus, v2, firstTime, i>>

-----------------------------------------------------------------------------
(* The main thread.                                                        *)

MainCalculate ==
  /\ pc[Main] = "calculate"
  /\ Go(Main, "lock")
  /\ UNCHANGED <<errorAt, iterationStatus, v2, firstTime, i>>

\* A bug that also takes the last verdict for a finished replication.
AwaitReplica_AnyStatus ==
  /\ pc[Main] \in {"lock", "woken"}
  /\ Go(Main, IF iterationStatus # "started" THEN "verify" ELSE "waiting")
  /\ UNCHANGED <<errorAt, iterationStatus, v2, firstTime, i>>

AwaitReplica ==
  /\ pc[Main] \in {"lock", "woken"}
  /\ Go(Main, IF iterationStatus = "replicationFinished" THEN "verify"
                                                         ELSE "waiting")
  /\ UNCHANGED <<errorAt, iterationStatus, v2, firstTime, i>>

\* A bug that compares v1 with itself.
Verify_Blind ==
  /\ pc[Main] = "verify"
  /\ iterationStatus' = "successfull"
  /\ GoAndSignal(Main, "decide")
  /\ UNCHANGED <<errorAt, v2, firstTime, i>>

Verify ==
  /\ pc[Main] = "verify"
  /\ iterationStatus' = IF v2 = "right" THEN "successfull" ELSE "failed"
  /\ GoAndSignal(Main, "decide")
  /\ UNCHANGED <<errorAt, v2, firstTime, i>>

-----------------------------------------------------------------------------
(* "both threads execute this part": thread t reads iterationStatus without*)
(* the mutex, to repeat the iteration or to go on to the next.             *)
Decide(t) ==
  LET next == IF iterationStatus = "failed" THEN i[t] ELSE i[t] + 1 IN
  /\ pc[t] = "decide"
  /\ i' = [i EXCEPT ![t] = next]
  /\ Go(t, IF next < NumValues THEN "calculate" ELSE "ended")
  /\ UNCHANGED <<errorAt, iterationStatus, v2, firstTime>>

ReplicaStep ==
  ReplicaCalculate \/ ReplicationFinished \/ AwaitVerdict \/ Decide(Replica)

MainStep == MainCalculate \/ AwaitReplica \/ Verify \/ Decide(Main)

Ended == (\A t \in Threads : pc[t] = "ended") /\ UNCHANGED vars

Next ==
  \/ ReplicaStep
  \/ MainStep
  \/ \E t \in Threads : SpuriousWakeup(t)
  \/ Ended

(* The operating system runs both threads; no thread counts on a wake-up   *)
(* without a signal.                                                       *)
Fairness == WF_vars(ReplicaStep) /\ WF_vars(MainStep)

Spec == Init /\ [][Next]_vars /\ Fairness

-----------------------------------------------------------------------------
(* The main thread compares the results of one iteration: thread 1's v2    *)
(* belongs to the iteration that thread 0 is in.                           *)
SameIteration == pc[Main] = "verify" => i[Main] = i[Replica]

NoError == errorAt >= NumValues

(* The types, above all that no thread runs past the last iteration, and   *)
(* without the injected error SameIteration.                               *)
LockstepInv == TypeOK /\ (NoError => SameIteration)

(* While the main thread compares, the replica, which writes v2 without    *)
(* the mutex, is inside its pthread_cond_wait.                             *)
ReplicaWaitsForVerdict == pc[Main] = "verify" => pc[Replica] \in {"waiting", "woken"}

(* When the replica decides, the verdict on its iteration still stands.    *)
ReplicaMissesNoVerdict == pc[Replica] = "decide" => HasVerdict

(* What the replica keeps to even when the main thread fell out of step.   *)
ReplicaInStep == ReplicaWaitsForVerdict /\ ReplicaMissesNoVerdict

(* A wrong value that the replica calculated leads to the verdict failed.  *)
ErrorMade    == v2 = "wrong" /\ ~firstTime
ErrorNoticed == iterationStatus = "failed"
ErrorIsNoticed == ErrorMade ~> ErrorNoticed

(* Without the injected error both threads reach the end of their loops.   *)
AllEnded == \A t \in Threads : pc[t] = "ended"
Terminates == NoError => <>AllEnded

=============================================================================
