------------------------- MODULE VolatileReplication -------------------------
(***************************************************************************)
(* CheckFrequency_Volatile: the producer sends every partial sum with      *)
(* SimpleSyncQueue_Enqueue, which waits for the slot after the one it is   *)
(* about to fill.                                                          *)
(***************************************************************************)
EXTENDS MatrixReplication

vars == matrixVars

ProducerControl == {"enqueue", "store", "raise", "await", "done"}

TypeOK == MatrixTypeOK(ProducerControl)

Init == MatrixInit("enqueue")

(* SimpleSyncQueue_Enqueue, the busy wait and the store.                   *)
EnqueueWait ==
  /\ pcP = "enqueue"
  /\ pcol < Cols
  /\ NextIsFree
  /\ pcP' = "store"
  /\ UNCHANGED <<queueVars, prow, pcol, pValue, producerVectorResult,
                 consumerVars, exited, faults>>

EnqueueStore ==
  /\ pcP = "store"
  /\ PutPartialSum
  /\ pcP' = "enqueue"

Producer ==
  /\ ~exited
  /\ \/ EnqueueWait
     \/ EnqueueStore
     \/ PublishRowResult("enqueue")
     \/ RaiseCheck
     \/ ProducerStoreResult("enqueue")

Consumer == ~exited /\ (ConsumerCheckAndMove \/ CheckRow)

(* The process ended: by exit(1), or both threads returned.                *)
Ended == (exited \/ AllDone) /\ UNCHANGED vars

Next == Producer \/ Consumer \/ Ended

(* The operating system runs both threads.                                 *)
Fairness == WF_vars(Producer) /\ WF_vars(Consumer)

Spec == Init /\ [][Next]_vars /\ Fairness

-----------------------------------------------------------------------------
(* The consumer announces a soft error only when one happened: neither a   *)
(* stale slot nor a slot that was overwritten too early is ever compared.  *)
NoFalseAlarm == exited => faults > 0

(* Its alarm means a soft error, and one soft error means its alarm.       *)
AlarmIsRight == NoFalseAlarm /\ NoErrorMissed

(* The queue keeps one slot free between two rows and within a row: at     *)
(* most QueueSize - 1 entries are in it.  The producer never looks at the  *)
(* slot it fills but at the next one, and yet fills only free ones.        *)
OneSlotFree == Sent - Cleared < QueueSize

(* The replicated execution keeps what ReplicatedRows promises.            *)
Rows_ == INSTANCE ReplicatedRows WITH
           RowSum <- [i \in RowIdx |-> PartialSum[i][Cols]],
           SpuriousAlarms <- FALSE,
           verified <- IF pcC = "store" THEN crow + 1 ELSE crow

ImplementsReplicatedRows == Rows_!Spec

(* Both threads finish, or the process is ended by the alarm.              *)
Terminates == <>(exited \/ AllDone)

=============================================================================
