---------------------------- MODULE RhtReplication ---------------------------
(***************************************************************************)
(* CheckFrequency_RHT_Volatiles: the producer fills the queue in batches.  *)
(* Within a batch it does not look at the consumer at all; at the end of a *)
(* batch it waits until the slot after the next one is free, reads deqPtr  *)
(* once, and takes the distance to it as the size of the next batch.       *)
(***************************************************************************)
EXTENDS MatrixReplication

(* The source calls SIMPLE_SYNC_QUEUE_SIZE < MATRIX_COLS "one BIG          *)
(* assumption": the first batch of a row is as long as the queue.  Equality*)
(* would do.                                                               *)
ASSUME BigAssumption == QueueSize <= Cols

VARIABLE newLimit      \* the column the current batch ends at

vars == <<matrixVars, newLimit>>

ProducerControl == {"fill", "limit", "rest", "raise", "await", "done"}

TypeOK ==
  /\ MatrixTypeOK(ProducerControl)
  /\ newLimit \in Nat

Init ==
  /\ MatrixInit("fill")
  /\ newLimit = QueueSize

(* The inner loop of a batch.                                              *)
FillBatch ==
  /\ pcP = "fill"
  /\ pcol < newLimit
  /\ PutPartialSum
  /\ UNCHANGED <<pcP, newLimit>>

(* The busy wait at the end of a batch.                                    *)
AwaitFreeSlot ==
  /\ pcP = "fill"
  /\ pcol >= newLimit
  /\ NextIsFree
  /\ pcP' = "limit"
  /\ UNCHANGED <<queueVars, prow, pcol, pValue, producerVectorResult,
                 consumerVars, exited, faults, newLimit>>

\* A bug that takes equal pointers for a full queue.
FreeSlots_EqualIsFull ==
  IF enqPtr > deqPtr THEN (QueueSize - enqPtr) + deqPtr ELSE deqPtr - enqPtr

\* A bug that counts one slot too many after the pointers wrapped.
FreeSlots_OffByOne ==
  IF enqPtr >= deqPtr THEN (QueueSize - enqPtr) + deqPtr
                      ELSE deqPtr - enqPtr + 1

(* The size of the next batch, from one read of deqPtr.                    *)
FreeSlots ==
  IF enqPtr >= deqPtr THEN (QueueSize - enqPtr) + deqPtr ELSE deqPtr - enqPtr

(* Read deqPtr, extend the limit; leave the batches when it passes the row.*)
ExtendLimit ==
  /\ pcP = "limit"
  /\ newLimit' = newLimit + FreeSlots
  /\ pcP' = IF newLimit' < Cols THEN "fill" ELSE "rest"
  /\ UNCHANGED <<queueVars, prow, pcol, pValue, producerVectorResult,
                 consumerVars, exited, faults>>

(* The iterations left.                                                    *)
FillRest ==
  /\ pcP = "rest"
  /\ pcol < Cols
  /\ PutPartialSum
  /\ UNCHANGED <<pcP, newLimit>>

\* A bug that keeps the limit of the last row.
StoreAndBeginRow_KeepLimit ==
  ProducerStoreResult("fill") /\ UNCHANGED newLimit

(* The next row begins with an empty queue.                                *)
StoreAndBeginRow ==
  ProducerStoreResult("fill") /\ newLimit' = QueueSize

Producer ==
  /\ ~exited
  /\ \/ FillBatch
     \/ AwaitFreeSlot
     \/ ExtendLimit
     \/ FillRest
     \/ PublishRowResult("rest") /\ UNCHANGED newLimit
     \/ RaiseCheck /\ UNCHANGED newLimit
     \/ StoreAndBeginRow

Consumer ==
  /\ ~exited
  /\ ConsumerCheckAndMove \/ CheckRow
  /\ UNCHANGED newLimit

(* The process ended: by exit(1), or both threads returned.                *)
Ended == (exited \/ AllDone) /\ UNCHANGED vars

Next == Producer \/ Consumer \/ Ended

(* The operating system runs both threads.                                 *)
Fairness == WF_vars(Producer) /\ WF_vars(Consumer)

Spec == Init /\ [][Next]_vars /\ Fairness

-----------------------------------------------------------------------------
(* The consumer announces a soft error only when one happened: neither a   *)
(* stale slot nor a slot that was overwritten too early is ever compared.  *)
NoFalseAlarm == exited => faults > 0

(* Its alarm means a soft error, and one soft error means its alarm.       *)
AlarmIsRight == NoFalseAlarm /\ NoErrorMissed

(* What is left of a batch fits into the slots that are free now, however  *)
(* old the value of deqPtr is that the batch was computed from.            *)
BatchFits ==
  pcP \in {"fill", "rest"} /\ pcol < newLimit =>
    Sent - Cleared + (IF newLimit < Cols THEN newLimit ELSE Cols) - pcol
      <= QueueSize

(* When deqPtr is read, equal pointers mean an empty queue, never a full   *)
(* one, although a batch may fill the queue to the last slot.              *)
EqualPointersMeanEmpty == pcP = "limit" /\ enqPtr = deqPtr => Sent = Taken

(* A batch neither runs over entries nor is computed from a full queue that*)
(* looks empty.                                                            *)
BatchesAreSafe == BatchFits /\ EqualPointersMeanEmpty

(* The producer fills only slots that the consumer freed.                  *)
FillsFreeSlot == pcol' > pcol => content[enqPtr] = ALREADY_CONSUMED

NoOverwrite == [][FillsFreeSlot]_vars

(* The replicated execution keeps what ReplicatedRows promises.            *)
Rows_ == INSTANCE ReplicatedRows WITH
           RowSum <- [i \in RowIdx |-> PartialSum[i][Cols]],
           SpuriousAlarms <- FALSE,
           verified <- IF pcC = "store" THEN crow + 1 ELSE crow

ImplementsReplicatedRows == Rows_!Spec

(* Both threads finish, or the process is ended by the alarm.              *)
Terminates == <>(exited \/ AllDone)

(* An execution that one soft error strikes, and no second one that could  *)
(* hide it, ends with the alarm.                                           *)
SoftErrorDetected == <>[](faults = 1) => <>exited

=============================================================================
