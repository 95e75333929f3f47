---------------------- MODULE VolatileReplication_proofs ---------------------
(***************************************************************************)
(* Types, the alarm, the free slot and the refinement for                  *)
(* CheckFrequency_Volatile, for every size of the queue and the matrix,    *)
(* also for a queue that is longer than a row.                             *)
(***************************************************************************)
EXTENDS VolatileReplication, MatrixReplication_proofs

(* What holds whatever soft errors strike.                                 *)
AlwaysInv == TypeOK /\ ControlOK /\ (pcP = "store" => pcol < Cols)

(* After its wait the producer knows two free slots.                       *)
FreeOK ==
  /\ Occupied < QueueSize
  /\ pcP = "store" => Occupied + 1 < QueueSize

(* What holds as long as no sum is ALREADY_CONSUMED.                       *)
OrderInv == InOrder /\ FreeOK

IInv == AlwaysInv /\ (faults = 0 => OrderInv /\ Sound)

-----------------------------------------------------------------------------
LEMMA InitOK == Init => IInv /\ OrderInv
<1> SUFFICES ASSUME Init
             PROVE  IInv /\ OrderInv
  OBVIOUS
<1>1. MatrixTypeOK(ProducerControl) /\ ControlOK /\ InOrder /\ Sound
  BY MatrixInitOK DEF Init, ProducerControl
<1>2. FreeOK
  BY QueueSizeAssumption DEF Init, MatrixInit, FreeOK, Occupied, Held
<1>3. pcP = "enqueue"
  BY DEF Init, MatrixInit
<1> QED  BY <1>1, <1>2, <1>3 DEF IInv, AlwaysInv, OrderInv, TypeOK

(* What always holds does not depend on what is in the queue.              *)
LEMMA AlwaysStep ==
  ASSUME AlwaysInv, Producer \/ Consumer
  PROVE  AlwaysInv' /\ (faults' = 0 => faults = 0)
<1> USE DEF AlwaysInv, TypeOK
<1>1. CASE EnqueueWait
  <2>1. /\ pcP = "enqueue" /\ pcP' = "store" /\ pcol < Cols
        /\ UNCHANGED <<queueVars, prow, pcol, pValue, producerVectorResult,
                       consumerVars, exited, faults>>
    BY <1>1 DEF EnqueueWait
  <2> QED
    BY <2>1 DEF MatrixTypeOK, QueueTypeOK, ControlOK, ProducerControl,
                queueVars, consumerVars
<1>2. CASE EnqueueStore
  <2>1. /\ prow < Rows /\ pcol < Cols /\ PutPartialSum
        /\ pcP = "store" /\ pcP' = "enqueue"
    BY <1>2, MatrixAssumption DEF EnqueueStore, ControlOK, MatrixTypeOK
  <2>2. /\ QueueTypeOK' /\ prow' \in 0 .. Rows /\ pcol' \in 0 .. Cols
        /\ pValue' \in Int /\ faults' \in 0 .. MaxFaults
        /\ UNCHANGED <<pcC, crow, ccol, cValue, producerVectorResult,
                       consumerVectorResult, exited>>
    BY <2>1, PutTypeOK
  <2>3. pcol' = pcol + 1 /\ prow' = prow /\ (faults' = 0 => faults = 0)
    BY <2>1, FaultAssumption DEF PutPartialSum, SoftError, MatrixTypeOK
  <2> QED
    BY <2>1, <2>2, <2>3, MatrixAssumption DEF MatrixTypeOK, ControlOK, ProducerControl
<1>3. CASE PublishRowResult("enqueue") \/ RaiseCheck \/ ProducerStoreResult("enqueue")
  <2> DEFINE PC == ProducerControl
             from == "enqueue"
  <2>1. PublishRowResult(from) \/ RaiseCheck \/ ProducerStoreResult(from)
    BY <1>3
  <2>2. /\ from \in PC /\ from \notin {"done", "raise", "await"}
        /\ {"done", "raise", "await"} \subseteq PC
    BY DEF ProducerControl
  <2>3. MatrixTypeOK(PC) /\ ControlOK
    OBVIOUS
  <2> HIDE DEF PC, from
  <2>4. MatrixTypeOK(PC)' /\ ControlOK'
    BY <2>1, <2>2, <2>3, ProducerTypeOK
  <2>5. pcP' \in {"raise", "await", "done", "enqueue"} /\ faults' = faults
    BY <1>3 DEF PublishRowResult, RaiseCheck, ProducerStoreResult
  <2> QED  BY <2>4, <2>5 DEF PC
<1>4. CASE Consumer
  <2>1. ConsumerCheckAndMove \/ CheckRow
    BY <1>4 DEF Consumer
  <2>2. MatrixTypeOK(ProducerControl)' /\ ControlOK'
    BY <2>1, ConsumerTypeOK
  <2>3. UNCHANGED <<pcP, pcol>> /\ (faults' = 0 => faults = 0)
    BY <2>1, ConsumerLeaves
  <2> QED  BY <2>2, <2>3
<1> QED  BY <1>1, <1>2, <1>3, <1>4 DEF Producer

(* The busy wait of SimpleSyncQueue_Enqueue ends only when two slots are   *)
(* free: the one to fill and the one after it.                             *)
LEMMA WaitFindsTwo ==
  ASSUME NEW Control, MatrixTypeOK(Control), InOrder, NextIsFree,
         Occupied < QueueSize
  PROVE  Occupied + 1 < QueueSize
<1> USE QueueSizeAssumption
<1> USE DEF MatrixTypeOK, QueueTypeOK, InOrder
<1> SUFFICES ASSUME Occupied = QueueSize - 1
             PROVE  FALSE
  BY DEF PointersOK, Occupied
<1>1. Held < QueueSize
  BY NextIsFreeLeavesOne
<1>2. Held = QueueSize - 1 /\ pcC # "move"
  BY <1>1 DEF Occupied, PointersOK
<1>3. NextSlot(enqPtr) = deqPtr
  <2>1. enqPtr = IF deqPtr = 0 THEN QueueSize - 1 ELSE deqPtr - 1
    BY <1>2 DEF PointersOK, SlotIdx
  <2>2. NextSlot(enqPtr) = IF enqPtr + 1 = QueueSize THEN 0 ELSE enqPtr + 1
    BY NextSlotWraps
  <2> QED  BY <2>1, <2>2 DEF SlotIdx
<1>4. Filled(deqPtr)
  <2>1. Dist(deqPtr) = 0 /\ 0 < Held
    BY <1>2 DEF Dist, SlotIdx
  <2> QED  BY <1>2, <2>1 DEF Filled
<1> QED  BY <1>3, <1>4 DEF SlotsOK, NextIsFree

(* Nothing but a sum that is a mark brings the queue out of order.         *)
LEMMA OrderStep ==
  ASSUME AlwaysInv, OrderInv, Producer \/ Consumer, NoMarker'
  PROVE  OrderInv'
<1> USE QueueSizeAssumption
<1>a. MatrixTypeOK(ProducerControl) /\ ControlOK /\ InOrder /\ FreeOK /\ Held \in Int
  BY DEF AlwaysInv, OrderInv, TypeOK, InOrder, PointersOK
<1>1. CASE EnqueueWait
  <2>1. /\ pcP = "enqueue" /\ pcP' = "store" /\ NextIsFree
        /\ UNCHANGED <<queueVars, prow, pcol, pValue, consumerVars, exited>>
    BY <1>1 DEF EnqueueWait
  <2>2. Occupied < QueueSize /\ Occupied + 1 < QueueSize
    BY <1>a, <2>1, WaitFindsTwo DEF FreeOK
  <2>3. InOrder' /\ Occupied' = Occupied
    BY <1>a, <2>1, ProducerIdle
  <2> QED  BY <2>2, <2>3 DEF OrderInv, FreeOK
<1>2. CASE EnqueueStore
  <2>1. /\ pcol < Cols /\ PutPartialSum /\ pcP = "store" /\ pcP' = "enqueue"
        /\ pcC' = pcC
    BY <1>2 DEF AlwaysInv, EnqueueStore, PutPartialSum, consumerVars
  <2>2. Occupied + 1 < QueueSize /\ Held < QueueSize
    BY <1>a, <2>1 DEF FreeOK, Occupied
  <2>3. InOrder'
    BY <1>a, <2>1, <2>2, PutOrder DEF NoMarker
  <2>4. Occupied' = Occupied + 1
    <3>1. Held' = Held + 1
      BY <1>a, <2>1, <2>2, PutPlace
    <3> QED  BY <1>a, <2>1, <3>1 DEF Occupied
  <2> QED  BY <2>1, <2>2, <2>3, <2>4 DEF OrderInv, FreeOK
<1>3. CASE PublishRowResult("enqueue") \/ RaiseCheck \/ ProducerStoreResult("enqueue")
  <2>1. /\ pcP' # "store" /\ pcC' = pcC
    BY <1>3 DEF PublishRowResult, RaiseCheck, ProducerStoreResult, consumerVars
  <2>2. InOrder' /\ Held' \in {Held, 0}
    BY <1>3, <1>a, RowEndOrder
  <2>3. Occupied' < QueueSize
    <3>1. CASE Held' = Held
      BY <1>a, <2>1, <3>1 DEF FreeOK, Occupied
    <3>2. CASE Held' = 0
      BY <3>2 DEF Occupied
    <3> QED  BY <2>2, <3>1, <3>2
  <2> QED  BY <2>1, <2>2, <2>3 DEF OrderInv, FreeOK
<1>4. CASE Consumer
  <2>1. ConsumerCheckAndMove \/ CheckRow
    BY <1>4 DEF Consumer
  <2>2. InOrder' /\ Occupied' \in {Occupied, Occupied - 1} /\ pcP' = pcP
    BY <1>a, <2>1, ConsumerOrder, ConsumerShrinksHeld, ConsumerLeaves
  <2>3. Occupied \in Int
    BY <1>a DEF Occupied
  <2>4. FreeOK'
    <3>1. CASE Occupied' = Occupied
      BY <1>a, <2>2, <3>1 DEF FreeOK
    <3>2. CASE Occupied' = Occupied - 1
      BY <1>a, <2>2, <2>3, <3>2 DEF FreeOK
    <3> QED  BY <2>2, <3>1, <3>2
  <2> QED  BY <2>2, <2>4 DEF OrderInv
<1> QED  BY <1>1, <1>2, <1>3, <1>4 DEF Producer

(* Without a soft error sums and entries stay right.                       *)
LEMMA SoundStep ==
  ASSUME AlwaysInv, OrderInv, Sound, Producer \/ Consumer, faults' = 0
  PROVE  Sound'
<1>a. MatrixTypeOK(ProducerControl) /\ ControlOK /\ InOrder /\ FreeOK /\ Held \in Int
  BY QueueSizeAssumption DEF AlwaysInv, OrderInv, TypeOK, InOrder, PointersOK
<1>1. CASE EnqueueWait
  BY <1>1, ProducerIdle DEF EnqueueWait
<1>2. CASE EnqueueStore
  <2>1. /\ pcol < Cols /\ PutPartialSum /\ pcP = "store" /\ pcP' = "enqueue"
    BY <1>2 DEF AlwaysInv, EnqueueStore
  <2>2. Held < QueueSize
    BY <1>a, <2>1, QueueSizeAssumption DEF FreeOK, Occupied
  <2> QED  BY <1>a, <2>1, <2>2, PutSound
<1>3. CASE PublishRowResult("enqueue") \/ RaiseCheck \/ ProducerStoreResult("enqueue")
  BY <1>3, <1>a, RowEndSound
<1>4. CASE Consumer
  BY <1>4, <1>a, ConsumerSound DEF Consumer
<1> QED  BY <1>1, <1>2, <1>3, <1>4 DEF Producer

LEMMA Stuttering ==
  ASSUME UNCHANGED vars
  PROVE  /\ AlwaysInv => AlwaysInv'
         /\ OrderInv => OrderInv'
         /\ Sound => Sound'
<1>1. AlwaysInv => AlwaysInv'
  BY DEF vars, matrixVars, queueVars, producerVars, consumerVars, AlwaysInv, TypeOK,
         MatrixTypeOK, QueueTypeOK, ControlOK
<1>2. OrderInv => OrderInv'
  BY DEF vars, matrixVars, queueVars, producerVars, consumerVars, OrderInv, FreeOK,
         Occupied, InOrder, PointersOK, LockstepOK, SlotsOK, Filled, Held, Dist
<1>3. Sound => Sound'
  BY DEF vars, matrixVars, queueVars, producerVars, consumerVars, Sound, EntriesOK,
         ValuesOK, Filled, Held, Dist
<1> QED  BY <1>1, <1>2, <1>3

LEMMA StepOK == IInv /\ [Next]_vars => IInv'
<1> SUFFICES ASSUME IInv, [Next]_vars
             PROVE  IInv'
  OBVIOUS
<1>1. CASE Producer \/ Consumer
  <2>1. AlwaysInv' /\ (faults' = 0 => faults = 0)
    BY <1>1, AlwaysStep DEF IInv
  <2>2. ASSUME faults' = 0
        PROVE  OrderInv' /\ Sound'
    <3>1. AlwaysInv /\ OrderInv /\ Sound
      BY <2>1, <2>2 DEF IInv
    <3>2. Sound'
      BY <1>1, <2>2, <3>1, SoundStep
    <3>3. NoMarker'
      BY <2>1, <3>2, RightIsNoMarker DEF AlwaysInv, TypeOK, Sound
    <3> QED  BY <1>1, <3>1, <3>2, <3>3, OrderStep
  <2> QED  BY <2>1, <2>2 DEF IInv
<1>2. CASE UNCHANGED vars
  <2>1. faults' = faults
    BY <1>2 DEF vars, matrixVars
  <2> QED  BY <1>2, <2>1, Stuttering DEF IInv
<1> QED  BY <1>1, <1>2 DEF Next, Ended

LEMMA Invariance == Spec => []IInv
  BY InitOK, StepOK, PTL DEF Spec

(* The queue stays in order as long as no sum is ALREADY_CONSUMED.         *)
LEMMA OrderInvariance == Spec /\ []NoMarker => []OrderInv
<1>1. IInv /\ OrderInv /\ NoMarker' /\ [Next]_vars => OrderInv'
  BY OrderStep, Stuttering DEF IInv, Next, Ended
<1> QED  BY <1>1, InitOK, Invariance, PTL DEF Spec

-----------------------------------------------------------------------------
(* Every variable keeps its type, with or without soft errors.             *)
THEOREM VolatileTypeCorrect == Spec => []TypeOK
<1>1. IInv => TypeOK
  BY DEF IInv, AlwaysInv
<1> QED  BY <1>1, Invariance, PTL

(* One slot of the queue stays free at all times, also after soft errors,  *)
(* as long as none of them makes a sum ALREADY_CONSUMED.                   *)
THEOREM VolatileOneSlotFree == Spec /\ []NoMarker => []OneSlotFree
<1>1. ASSUME IInv, OrderInv
      PROVE  OneSlotFree
  <2>1. MatrixTypeOK(ProducerControl) /\ ControlOK /\ InOrder /\ FreeOK
    BY <1>1 DEF IInv, AlwaysInv, OrderInv, TypeOK
  <2>2. Sent - Cleared = Occupied
    BY <2>1, HeldIsSentNotTaken
  <2> QED  BY <2>1, <2>2 DEF OneSlotFree, FreeOK
<1> QED  BY <1>1, Invariance, OrderInvariance, PTL

-----------------------------------------------------------------------------
(* The handover of the row results, step by step.                          *)
LEMMA HandoverStep == IInv /\ HandoverInv /\ [Next]_vars => HandoverInv'
<1> SUFFICES ASSUME IInv, HandoverInv, [Next]_vars
             PROVE  HandoverInv'
  OBVIOUS
<1>1. MatrixTypeOK(ProducerControl) /\ ControlOK /\ (pcP = "store" => pcol < Cols)
  BY DEF IInv, AlwaysInv, TypeOK
<1>2. CASE ~exited /\ EnqueueStore
  <2>1. PutPartialSum /\ pcP = "store" /\ pcP' = "enqueue"
    BY <1>2 DEF EnqueueStore
  <2> QED  BY <1>1, <1>2, <2>1, HandoverPut
<1>3. CASE EnqueueWait
  BY <1>3, HandoverIdle DEF EnqueueWait
<1>4. CASE /\ ~exited
           /\ \/ PublishRowResult("enqueue")
              \/ RaiseCheck
              \/ ProducerStoreResult("enqueue")
  BY <1>1, <1>4, HandoverRowEnd
<1>5. CASE Consumer
  BY <1>1, <1>5, HandoverConsumer DEF Consumer
<1>6. CASE UNCHANGED vars
  BY <1>6
  DEF vars, matrixVars, queueVars, producerVars, consumerVars, HandoverInv,
      RowsInStep, CopiesAgree, StoredOK, OneErrorOK, ProducerRight, ConsumerRight
<1> QED
  BY <1>2, <1>3, <1>4, <1>5, <1>6 DEF Next, Producer, Ended

LEMMA HandoverInvariance == Spec => [](IInv /\ HandoverInv)
<1>1. Init => HandoverInv
  BY HandoverInit DEF Init
<1> QED  BY <1>1, InitOK, StepOK, HandoverStep, PTL DEF Spec

(* The consumer calls exit(1) only after a soft error, and the one soft    *)
(* error that struck never goes unnoticed to the end.                      *)
THEOREM VolatileAlarmIsRight == Spec => []AlarmIsRight
<1>1. ASSUME IInv, HandoverInv
      PROVE  AlarmIsRight
  <2>1. NoFalseAlarm
    BY <1>1 DEF IInv, TypeOK, MatrixTypeOK, AlwaysInv, Sound, NoFalseAlarm
  <2>2. MatrixTypeOK(ProducerControl) /\ ControlOK
    BY <1>1 DEF IInv, AlwaysInv, TypeOK
  <2>3. NoErrorMissed
    BY <1>1, <2>2, HandoverMissesNone
  <2> QED  BY <2>1, <2>3 DEF AlarmIsRight
<1> QED  BY <1>1, HandoverInvariance, PTL

LEMMA StepKeepsPromise ==
  IInv /\ IInv' /\ HandoverInv /\ [Next]_vars => [Rows_!Next]_(Rows_!rowVars)
<1> SUFFICES ASSUME IInv, IInv', HandoverInv, [Next]_vars
             PROVE  [Promise(FALSE)!Next]_(Promise(FALSE)!rowVars)
  BY DEF Promise!Next, Promise!rowVars, Promise!Strike, Promise!Alarm,
         Promise!Verify, Promise!Stored, Promise!StoreProducer,
         Promise!StoreConsumer, Promise!Admissible, Rows_!Next, Rows_!rowVars,
         Rows_!Strike, Rows_!Alarm, Rows_!Verify, Rows_!Stored,
         Rows_!StoreProducer, Rows_!StoreConsumer, Rows_!Admissible
<1>1. /\ MatrixTypeOK(ProducerControl) /\ MatrixTypeOK(ProducerControl)'
      /\ ControlOK /\ (pcP = "store" => pcol < Cols)
      /\ exited' => faults' > 0
  BY DEF IInv, TypeOK, MatrixTypeOK, AlwaysInv, Sound
<1>2. CASE ~exited /\ EnqueueStore
  <2>1. PutPartialSum /\ pcP # "await" /\ pcol < Cols /\ prow < Rows
    BY <1>1, <1>2, MatrixAssumption DEF EnqueueStore, MatrixTypeOK, ControlOK
  <2> QED  BY <1>1, <1>2, <2>1, PromisePut
<1>3. CASE /\ ~exited
           /\ \/ PublishRowResult("enqueue")
              \/ RaiseCheck
              \/ ProducerStoreResult("enqueue")
  BY <1>1, <1>3, PromiseRowEnd
<1>4. CASE Consumer
  BY <1>1, <1>4, PromiseConsumer DEF Consumer
<1>5. CASE EnqueueWait \/ UNCHANGED vars
  BY <1>5
  DEF EnqueueWait, vars, matrixVars, queueVars, producerVars,
      consumerVars, Promise!rowVars
<1> QED  BY <1>2, <1>3, <1>4, <1>5 DEF Next, Producer, Ended

(* With or without soft errors the threads store the rows in step, each    *)
(* only after its check; up to one soft error the stored values are right; *)
(* and the process is ended only because of a soft error.                  *)
THEOREM VolatileImplementsRows == Spec => ImplementsReplicatedRows
<1>1. Init => Rows_!Init
  BY DEF Init, MatrixInit, Rows_!Init, Rows_!RowIdx, RowIdx
<1> QED
  BY <1>1, HandoverInvariance, StepKeepsPromise, PTL
  DEF Spec, ImplementsReplicatedRows, Rows_!Spec

=============================================================================
