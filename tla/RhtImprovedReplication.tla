----------------------- MODULE RhtImprovedReplication ------------------------
(***************************************************************************)
(* CheckFrequency_RHT_VolatilesImproved, the mode that main runs: neither  *)
(* thread writes ALREADY_CONSUMED any more.  The producer learns from      *)
(* deqPtr alone how far the consumer is and keeps one slot between them.   *)
(* The consumer still takes ALREADY_CONSUMED for "the producer is behind", *)
(* but after one lap of the queue a slot that waits for its entry holds    *)
(* the entry of the lap before.                                            *)
(***************************************************************************)
EXTENDS MatrixReplication

(* The first batch of a row is one shorter than the queue.                 *)
ASSUME BigAssumption == QueueSize <= Cols

VARIABLES
  newLimit,      \* the column the current batch ends at
  localDeqPtr    \* the producer's last copy of deqPtr

vars == <<matrixVars, newLimit, localDeqPtr>>

ProducerControl == {"fill", "limit", "rest", "raise", "await", "done"}

TypeOK ==
  /\ MatrixTypeOK(ProducerControl)
  /\ newLimit \in Nat
  /\ localDeqPtr \in SlotIdx

Init ==
  /\ MatrixInit("fill")
  /\ newLimit = QueueSize - 1
  /\ localDeqPtr = 0

(* The inner loop of a batch.                                              *)
FillBatch ==
  /\ pcP = "fill"
  /\ pcol < newLimit
  /\ PutPartialSum
  /\ UNCHANGED <<pcP, newLimit, localDeqPtr>>

(* The busy wait at the end of a batch: for any progress of the consumer.  *)
AwaitProgress ==
  /\ pcP = "fill"
  /\ pcol >= newLimit
  /\ localDeqPtr # deqPtr
  /\ pcP' = "limit"
  /\ UNCHANGED <<queueVars, prow, pcol, pValue, producerVectorResult,
                 consumerVars, exited, faults, newLimit, localDeqPtr>>

\* A bug that forgets to keep one slot between the threads.
FreeSlotsButOne_All ==
  IF enqPtr >= deqPtr THEN (QueueSize - enqPtr) + deqPtr ELSE deqPtr - enqPtr

FreeSlotsButOne ==
  (IF enqPtr >= deqPtr THEN (QueueSize - enqPtr) + deqPtr
                       ELSE deqPtr - enqPtr) - 1

(* Read deqPtr, extend the limit; leave the batches when it passes the row.*)
ExtendLimit ==
  /\ pcP = "limit"
  /\ localDeqPtr' = deqPtr
  /\ newLimit' = newLimit + FreeSlotsButOne
  /\ pcP' = IF newLimit' < Cols THEN "fill" ELSE "rest"
  /\ UNCHANGED <<queueVars, prow, pcol, pValue, producerVectorResult,
                 consumerVars, exited, faults>>

(* The iterations left.                                                    *)
FillRest ==
  /\ pcP = "rest"
  /\ pcol < Cols
  /\ PutPartialSum
  /\ UNCHANGED <<pcP, newLimit, localDeqPtr>>

StoreAndBeginRow ==
  /\ ProducerStoreResult("fill")
  /\ newLimit' = QueueSize - 1
  /\ localDeqPtr' = enqPtr

batchVars == <<newLimit, localDeqPtr>>

Producer ==
  /\ ~exited
  /\ \/ FillBatch
     \/ AwaitProgress
     \/ ExtendLimit
     \/ FillRest
     \/ PublishRowResult("rest") /\ UNCHANGED batchVars
     \/ RaiseCheck /\ UNCHANGED batchVars
     \/ StoreAndBeginRow

Consumer ==
  /\ ~exited
  /\ ConsumerCheckAndMoveImproved \/ CheckRow
  /\ UNCHANGED batchVars

(* The process ended: by exit(1), or both threads returned.                *)
Ended == (exited \/ AllDone) /\ UNCHANGED vars

Next == Producer \/ Consumer \/ Ended

(* The operating system runs both threads.                                 *)
Fairness == WF_vars(Producer) /\ WF_vars(Consumer)

Spec == Init /\ [][Next]_vars /\ Fairness

-----------------------------------------------------------------------------
(* The consumer announces a soft error only when one happened.  The code   *)
(* violates this: a slot that waits for its entry is compared as if the    *)
(* entry were there.                                                       *)
NoFalseAlarm == exited => faults > 0

(* The n-th entry of the execution, n = 0, 1, ...                          *)
Entry(n) == PartialSum[n \div Cols][(n % Cols) + 1]

(* No entry equals the one that its slot held a lap before.                *)
DistinctLaps ==
  \A n \in QueueSize .. Rows * Cols - 1 : Entry(n) # Entry(n - QueueSize)

(* Unless the data or a soft error make a stale slot pass for its entry,   *)
(* the consumer does not take an entry before it was put, although it does *)
(* not wait for it.                                                        *)
ConsumerBehind == DistinctLaps /\ faults = 0 => Taken <= Sent

(* The producer keeps one slot between itself and the consumer, although   *)
(* it knows an old value of deqPtr only.                                   *)
OneSlotFree == Sent - Taken < QueueSize

(* The types, whatever soft errors strike, OneSlotFree, and no soft error  *)
(* missed, although an entry may be compared with a stale slot.            *)
ImprovedInv == TypeOK /\ OneSlotFree /\ NoErrorMissed

(* The replicated execution keeps what ReplicatedRows promises.            *)
Rows_ == INSTANCE ReplicatedRows WITH
           RowSum <- [i \in RowIdx |-> PartialSum[i][Cols]],
           SpuriousAlarms <- TRUE,
           verified <- IF pcC = "store" THEN crow + 1 ELSE crow

ImplementsReplicatedRows == Rows_!Spec

(* Both threads finish, or the process is ended by the alarm.              *)
Terminates == <>(exited \/ AllDone)

(* An execution that one soft error strikes, and no second one that could  *)
(* hide it, ends with the alarm.                                           *)
SoftErrorDetected == <>[](faults = 1) => <>exited

=============================================================================
