------------------------------ MODULE AtomicOps -------------------------------
(***************************************************************************)
(* AtomicOps_Test of TestAtomicOps.c: six thread functions that try what   *)
(* aborts a hardware transaction.  Functions 1, 2, 3 and 6, and thread 1   *)
(* of function 4, count in transactions, and do not repeat an iteration    *)
(* whose transaction aborts; thread 0 of function 4 spins on the count.    *)
(* In function 5 the main thread waits for its replica inside of a         *)
(* transaction.                                                            *)
(*                                                                         *)
(* A counting transaction is one step: it commits, or it has no effect.    *)
(***************************************************************************)
EXTENDS ThreadTestParameters, PthreadBarrier

VARIABLES
  func,                  \* test in AtomicOps_Test
  hoisted,               \* the build reads sharedVariable once before spinning
  pc, i,                 \* per thread
  counter,               \* the shared and private counters, by name
  numAborts,
  hyperThreadFinished, waiting

vars == <<func, hoisted, pc, i, counter, numAborts, hyperThreadFinished, waiting>>

Threads == 0 .. 1
Counters == {"globalCount", "sharedVariable", "own0", "own1"}

\* The localCount that both threads of function 5 calculate.
CalculatedValue == 1

(* Thread t counts in a loop.                                              *)
CountsInLoop(t) == func \in {1, 2, 3, 6} \/ (func = 4 /\ t = 1)

(* What thread t counts with: globalCount++, c1++, e0.v1++ or e1.v1++, or  *)
(* __sync_fetch_and_add.                                                   *)
Counter(t) ==
  CASE func \in {1, 3} -> "globalCount"
    [] func = 4        -> "sharedVariable"
    [] func \in {2, 6} -> IF t = 0 THEN "own0" ELSE "own1"

TypeOK ==
  /\ func \in 1 .. 6 /\ hoisted \in BOOLEAN
  /\ i \in [Threads -> 0 .. NumValues]
  /\ counter \in [Counters -> 0 .. 2 * NumValues]
  /\ numAborts \in 0 .. 2 * NumValues + MaxAborts + 1
  /\ hyperThreadFinished \in BOOLEAN
  /\ waiting \subseteq Threads /\ waiting # Threads

Init ==
  /\ func \in 1 .. 6
  /\ hoisted \in (IF func = 4 THEN BOOLEAN ELSE {FALSE})
  /\ pc = [t \in Threads |-> "begin"]
  /\ i = [t \in Threads |-> 0]
  /\ counter = [c \in Counters |-> 0]
  /\ numAborts = 0
  /\ hyperThreadFinished = FALSE
  /\ waiting = {}

Go(t, from, to) == pc[t] = from /\ pc' = [pc EXCEPT ![t] = to]
Count(c) == counter' = [counter EXCEPT ![c] = @ + 1]
AtomicOps_IncAbort == numAborts' = numAborts + 1
BarrierWait(t) == waiting' = Arrive(waiting, t, 2)

-----------------------------------------------------------------------------
(* In function 6 either thread clears the counters of both, at its own     *)
(* time; what it has cleared it cannot tell from what was never counted.   *)
Begin(t) ==
  /\ func # 5
  /\ Go(t, "begin", IF CountsInLoop(t) THEN "loop" ELSE "spin")
  /\ counter' = IF func = 6 THEN [counter EXCEPT !["own0"] = 0, !["own1"] = 0]
                ELSE counter
  /\ UNCHANGED <<func, hoisted, i, numAborts, hyperThreadFinished, waiting>>

InLoop(t) == pc[t] = "loop" /\ i[t] < NumValues

CountCommits(t) ==
  /\ InLoop(t)
  /\ Count(Counter(t))
  /\ i' = [i EXCEPT ![t] = @ + 1]
  /\ UNCHANGED <<func, hoisted, pc, numAborts, hyperThreadFinished, waiting>>

FallbackCounts == func = 4

CountAborts(t) ==
  /\ InLoop(t)
  /\ AtomicOps_IncAbort
  /\ IF FallbackCounts THEN Count(Counter(t)) ELSE UNCHANGED counter
  /\ i' = [i EXCEPT ![t] = @ + 1]
  /\ UNCHANGED <<func, hoisted, pc, hyperThreadFinished, waiting>>

LoopEnds(t) ==
  /\ i[t] = NumValues
  /\ Go(t, "loop", "ended")
  /\ UNCHANGED <<func, hoisted, i, counter, numAborts, hyperThreadFinished, waiting>>

\* A bug that asks for one more than is counted.
CountIsHigh_Never == counter["sharedVariable"] > NumValues

CountIsHigh == counter["sharedVariable"] >= NumValues - 1

(* Thread 0 of function 4 leaves its busy wait; a build that reads the     *)
(* variable once spins for ever if that was too early.                     *)
SpinEnds ==
  /\ CountIsHigh
  /\ Go(0, "spin", "ended")
  /\ UNCHANGED <<func, hoisted, i, counter, numAborts, hyperThreadFinished, waiting>>

SpinForEver ==
  /\ hoisted /\ ~CountIsHigh
  /\ Go(0, "spin", "stuck")
  /\ UNCHANGED <<func, hoisted, i, counter, numAborts, hyperThreadFinished, waiting>>

-----------------------------------------------------------------------------
(* Function 5: both threads begin with the barrier.                        *)
BeginTogether(t) ==
  /\ func = 5
  /\ Go(t, "begin", "start")
  /\ BarrierWait(t)
  /\ UNCHANGED <<func, hoisted, i, counter, numAborts, hyperThreadFinished>>

\* A bug that says that it has finished before it hands its result over.
ReplicaStores_FlagFirst ==
  /\ 1 \notin waiting
  /\ \/ Go(1, "start", "flag") /\ hyperThreadFinished' = TRUE /\ UNCHANGED counter
     \/ /\ Go(1, "flag", "last")
        /\ counter' = [counter EXCEPT !["sharedVariable"] = CalculatedValue]
        /\ UNCHANGED hyperThreadFinished
  /\ UNCHANGED <<func, hoisted, i, numAborts, waiting>>

(* The replica hands its result over, then says that it has finished.      *)
ReplicaStores ==
  /\ 1 \notin waiting
  /\ \/ /\ Go(1, "start", "flag")
        /\ counter' = [counter EXCEPT !["sharedVariable"] = CalculatedValue]
        /\ UNCHANGED hyperThreadFinished
     \/ Go(1, "flag", "last") /\ hyperThreadFinished' = TRUE /\ UNCHANGED counter
  /\ UNCHANGED <<func, hoisted, i, numAborts, waiting>>

(* The last barrier of either thread.                                      *)
LastBarrier(t) ==
  /\ Go(t, "last", "return")
  /\ BarrierWait(t)
  /\ UNCHANGED <<func, hoisted, i, counter, numAborts, hyperThreadFinished>>

Return(t) ==
  /\ t \notin waiting
  /\ Go(t, "return", "ended")
  /\ UNCHANGED <<func, hoisted, i, counter, numAborts, hyperThreadFinished, waiting>>

(* The transaction of the main thread and its first read of the flag; one  *)
(* that found it unset can only abort, since the store of the replica is a *)
(* conflict.                                                               *)
TxBegin ==
  /\ 0 \notin waiting
  /\ Go(0, "start", "tx")
  /\ UNCHANGED <<func, hoisted, i, counter, numAborts, hyperThreadFinished, waiting>>

TxReadsFlag ==
  /\ Go(0, "tx", IF hyperThreadFinished THEN "compare" ELSE "txspin")
  /\ UNCHANGED <<func, hoisted, i, counter, numAborts, hyperThreadFinished, waiting>>

(* The comparison of the results has no effect; the transaction commits.   *)
TxCommit ==
  /\ Go(0, "compare", "committed")
  /\ UNCHANGED <<func, hoisted, i, counter, numAborts, hyperThreadFinished, waiting>>

TxAbort ==
  /\ \/ Go(0, "txspin", "aborted")
     \/ numAborts < MaxAborts /\ (Go(0, "tx", "aborted") \/ Go(0, "compare", "aborted"))
  /\ AtomicOps_IncAbort
  /\ UNCHANGED <<func, hoisted, i, counter, hyperThreadFinished, waiting>>

(* "its probably because the thread 1 has not yet finished, so we wait for *)
(* him", and then start again.                                             *)
AfterAbort ==
  /\ \/ hyperThreadFinished /\ Go(0, "aborted", "start") /\ UNCHANGED waiting
     \/ ~hyperThreadFinished /\ Go(0, "aborted", "wait") /\ UNCHANGED waiting
     \/ Go(0, "wait", "start") /\ BarrierWait(0)
  /\ UNCHANGED <<func, hoisted, i, counter, numAborts, hyperThreadFinished>>

AfterCommit ==
  /\ Go(0, "committed", IF hyperThreadFinished THEN "last" ELSE "return")
  /\ UNCHANGED <<func, hoisted, i, counter, numAborts, hyperThreadFinished, waiting>>

-----------------------------------------------------------------------------
ThreadStep(t) ==
  \/ Begin(t) \/ CountCommits(t) \/ CountAborts(t) \/ LoopEnds(t)
  \/ BeginTogether(t) \/ LastBarrier(t) \/ Return(t)

Next ==
  \/ \E t \in Threads : ThreadStep(t)
  \/ SpinEnds \/ SpinForEver
  \/ ReplicaStores
  \/ TxBegin \/ TxReadsFlag \/ TxCommit \/ TxAbort \/ AfterAbort \/ AfterCommit
  \/ (\A t \in Threads : pc[t] = "ended") /\ UNCHANGED vars

MainStep ==
  \/ ThreadStep(0) \/ SpinEnds
  \/ TxBegin \/ TxReadsFlag \/ TxCommit \/ TxAbort \/ AfterAbort \/ AfterCommit

ReplicaStep == ThreadStep(1) \/ ReplicaStores

(* The operating system runs both threads; a transaction that spins is     *)
(* aborted by the next interrupt at the latest.                            *)
Fairness == WF_vars(MainStep) /\ WF_vars(ReplicaStep)

Spec == Init /\ [][Next]_vars /\ Fairness

-----------------------------------------------------------------------------
Counted == counter["globalCount"] + counter["own0"] + counter["own1"]

(* Every iteration was either counted or counted as an abort; function 6   *)
(* may lose what a thread counted before the other one cleared it, and     *)
(* function 4 counts all of them in sharedVariable.                        *)
AllAccounted ==
  /\ func \in 1 .. 3 => Counted + numAborts = i[0] + i[1]
  /\ func = 4 => counter["sharedVariable"] = i[1] /\ numAborts <= i[1]
  /\ func = 6 => Counted + numAborts <= i[0] + i[1]

(* A transaction of the main thread in function 5 that gets to the         *)
(* comparison finds the result of the replica, not what was there before.  *)
CommitSeesPartner ==
  pc[0] \in {"compare", "committed"} => counter["sharedVariable"] = CalculatedValue

(* The types, above all that no barrier is overrun, and what holds of the  *)
(* counting functions and of function 5.                                   *)
AtomicOpsInv == TypeOK /\ AllAccounted /\ CommitSeesPartner

(* The threads end, however the transactions abort, as long as the main    *)
(* thread of function 5 need not wait for its replica after an abort, and  *)
(* the build reads sharedVariable in every turn of the busy wait.          *)
NoneStuck == pc[0] \notin {"wait", "stuck"}
AllEnded  == \A t \in Threads : pc[t] = "ended"
Ends == []NoneStuck => <>AllEnded

(* "Main thread finished": also if it had to wait.                         *)
MainFinishes == func = 5 => <>(pc[0] = "ended")

=============================================================================
