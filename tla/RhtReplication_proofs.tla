------------------------ MODULE RhtReplication_proofs ------------------------
(***************************************************************************)
(* Types, the alarm, the batches and the refinement for                    *)
(* CheckFrequency_RHT_Volatiles, for every size of the queue and the       *)
(* matrix.                                                                 *)
(***************************************************************************)
EXTENDS RhtReplication, MatrixReplication_proofs

(* The limit of a batch lies within the row.                               *)
LimitOK ==
  /\ newLimit \in Nat
  /\ pcP = "fill" => newLimit <= Cols /\ pcol <= newLimit
  /\ pcP = "limit" => pcol = newLimit
  /\ pcP = "rest" => newLimit >= Cols

(* What holds whatever soft errors strike.                                 *)
AlwaysInv == TypeOK /\ ControlOK /\ LimitOK

(* What is left of the batch fits behind the held entries.                 *)
BatchOK ==
  /\ pcP = "fill" => newLimit - pcol + Held <= QueueSize
  /\ pcP = "limit" => Held < QueueSize
  /\ pcP = "rest" => Cols - pcol + Held <= QueueSize

(* What holds as long as no sum is ALREADY_CONSUMED.                       *)
OrderInv == InOrder /\ BatchOK

IInv == AlwaysInv /\ (faults = 0 => OrderInv /\ Sound)

-----------------------------------------------------------------------------
LEMMA InitOK == Init => IInv /\ OrderInv
<1> SUFFICES ASSUME Init
             PROVE  IInv /\ OrderInv
  OBVIOUS
<1>1. MatrixTypeOK(ProducerControl) /\ ControlOK /\ InOrder /\ Sound
  BY MatrixInitOK DEF Init, ProducerControl
<1>2. LimitOK /\ BatchOK
  BY QueueSizeAssumption, BigAssumption, MatrixAssumption
  DEF Init, MatrixInit, LimitOK, BatchOK, Held
<1>3. newLimit \in Nat
  BY <1>2 DEF LimitOK
<1> QED  BY <1>1, <1>2, <1>3 DEF IInv, AlwaysInv, OrderInv, TypeOK

(* A put, and what its guard and the limits say.                           *)
LEMMA FillPuts ==
  ASSUME AlwaysInv, FillBatch \/ FillRest
  PROVE  /\ prow < Rows /\ pcol < Cols /\ PutPartialSum
         /\ UNCHANGED <<pcP, newLimit>>
         /\ pcP \in {"fill", "rest"} /\ (pcP = "fill" => pcol < newLimit)
         /\ pcol' = pcol + 1 /\ prow' = prow /\ (faults' = 0 => faults = 0)
<1> USE MatrixAssumption DEF AlwaysInv, TypeOK
<1>1. /\ PutPartialSum /\ UNCHANGED <<pcP, newLimit>>
      /\ pcP \in {"fill", "rest"} /\ (pcP = "fill" => pcol < newLimit)
  BY DEF FillBatch, FillRest
<1>2. prow < Rows /\ pcol < Cols
  BY <1>1 DEF FillRest, FillBatch, LimitOK, ControlOK, MatrixTypeOK
<1>3. pcol' = pcol + 1 /\ prow' = prow /\ (faults' = 0 => faults = 0)
  BY <1>1, FaultAssumption DEF PutPartialSum, SoftError, MatrixTypeOK
<1> QED  BY <1>1, <1>2, <1>3

(* What always holds does not depend on what is in the queue.              *)
LEMMA AlwaysStep ==
  ASSUME AlwaysInv, Producer \/ Consumer
  PROVE  AlwaysInv' /\ (faults' = 0 => faults = 0)
<1> USE QueueSizeAssumption, BigAssumption, MatrixAssumption
<1> USE DEF AlwaysInv, TypeOK, LimitOK
<1>1. CASE FillBatch \/ FillRest
  <2>1. /\ prow < Rows /\ pcol < Cols /\ PutPartialSum /\ UNCHANGED <<pcP, newLimit>>
        /\ pcP \in {"fill", "rest"} /\ (pcP = "fill" => pcol < newLimit)
        /\ pcol' = pcol + 1 /\ prow' = prow /\ (faults' = 0 => faults = 0)
    BY <1>1, FillPuts
  <2>2. /\ QueueTypeOK' /\ prow' \in 0 .. Rows /\ pcol' \in 0 .. Cols
        /\ pValue' \in Int /\ faults' \in 0 .. MaxFaults
        /\ UNCHANGED <<pcC, crow, ccol, cValue, producerVectorResult,
                       consumerVectorResult, exited>>
    BY <2>1, PutTypeOK
  <2>3. TypeOK' /\ ControlOK' /\ LimitOK'
    BY <2>1, <2>2 DEF MatrixTypeOK, ControlOK
  <2> QED  BY <2>1, <2>3
<1>2. CASE AwaitFreeSlot
  <2>1. /\ pcP = "fill" /\ pcP' = "limit" /\ pcol = newLimit
        /\ UNCHANGED <<queueVars, prow, pcol, pValue, producerVectorResult,
                       consumerVars, exited, faults, newLimit>>
    BY <1>2 DEF AwaitFreeSlot, MatrixTypeOK
  <2> QED
    BY <2>1 DEF MatrixTypeOK, QueueTypeOK, ControlOK, ProducerControl,
                queueVars, consumerVars
<1>3. CASE ExtendLimit
  <2>1. /\ pcP = "limit" /\ newLimit' = newLimit + FreeSlots
        /\ pcP' = IF newLimit' < Cols THEN "fill" ELSE "rest"
        /\ UNCHANGED <<queueVars, prow, pcol, pValue, producerVectorResult,
                       consumerVars, exited, faults>>
    BY <1>3 DEF ExtendLimit
  <2>2. FreeSlots \in Nat
    BY DEF FreeSlots, MatrixTypeOK, QueueTypeOK, SlotIdx
  <2>3. TypeOK' /\ ControlOK' /\ LimitOK'
    BY <2>1, <2>2 DEF MatrixTypeOK, QueueTypeOK, ControlOK, ProducerControl,
                      queueVars, consumerVars
  <2> QED  BY <2>1, <2>3
<1>4. CASE \/ PublishRowResult("rest") /\ UNCHANGED newLimit
           \/ RaiseCheck /\ UNCHANGED newLimit
           \/ StoreAndBeginRow
  <2>1. PICK from \in {"fill", "rest"} :
          PublishRowResult(from) \/ RaiseCheck \/ ProducerStoreResult(from)
    BY <1>4 DEF StoreAndBeginRow
  <2> DEFINE PC == ProducerControl
  <2>2. /\ from \in PC /\ from \notin {"done", "raise", "await"}
        /\ {"done", "raise", "await"} \subseteq PC
    BY DEF ProducerControl
  <2>3. MatrixTypeOK(PC) /\ ControlOK
    OBVIOUS
  <2> HIDE DEF PC
  <2>4. MatrixTypeOK(PC)' /\ ControlOK'
    BY <2>1, <2>2, <2>3, ProducerTypeOK
  <2>5. /\ pcP' \in {"raise", "await", "done"} \/ (pcP' = "fill" /\ pcol' = 0)
        /\ newLimit' \in {newLimit, QueueSize}
        /\ pcP' = "fill" => newLimit' = QueueSize
        /\ faults' = faults
    BY <1>4 DEF PublishRowResult, RaiseCheck, StoreAndBeginRow, ProducerStoreResult
  <2>6. LimitOK'
    BY <2>5
  <2> QED  BY <2>4, <2>5, <2>6 DEF PC
<1>5. CASE Consumer
  <2>1. (ConsumerCheckAndMove \/ CheckRow) /\ UNCHANGED newLimit
    BY <1>5 DEF Consumer
  <2>2. MatrixTypeOK(ProducerControl)' /\ ControlOK'
    BY <2>1, ConsumerTypeOK
  <2>3. UNCHANGED <<pcP, pcol>> /\ (faults' = 0 => faults = 0)
    BY <2>1, ConsumerLeaves
  <2> QED  BY <2>1, <2>2, <2>3
<1> QED  BY <1>1, <1>2, <1>3, <1>4, <1>5 DEF Producer

(* Inside a batch there is room for one more entry.                        *)
LEMMA BatchHasRoom ==
  ASSUME AlwaysInv, OrderInv, FillBatch \/ FillRest
  PROVE  Held < QueueSize
<1>1. /\ pcP \in {"fill", "rest"} /\ (pcP = "fill" => pcol < newLimit)
      /\ pcol < Cols
  BY FillPuts
<1>2. Held \in Int /\ pcol \in Int /\ newLimit \in Int /\ Cols \in Int
  BY QueueSizeAssumption, MatrixAssumption
  DEF AlwaysInv, OrderInv, TypeOK, MatrixTypeOK, LimitOK, InOrder, PointersOK
<1> QED  BY <1>1, <1>2, QueueSizeAssumption DEF OrderInv, BatchOK

(* Nothing but a sum that is a mark brings the queue out of order.         *)
LEMMA OrderStep ==
  ASSUME AlwaysInv, OrderInv, Producer \/ Consumer, NoMarker'
  PROVE  OrderInv'
<1> USE QueueSizeAssumption, MatrixAssumption
<1>a. /\ MatrixTypeOK(ProducerControl) /\ ControlOK /\ LimitOK
      /\ InOrder /\ BatchOK
  BY DEF AlwaysInv, OrderInv, TypeOK
<1>b. Held \in Int /\ pcol \in Int /\ newLimit \in Int /\ Cols \in Int
  BY <1>a DEF MatrixTypeOK, LimitOK, InOrder, PointersOK
<1>1. CASE FillBatch \/ FillRest
  <2>1. /\ pcol < Cols /\ PutPartialSum /\ UNCHANGED <<pcP, newLimit>>
        /\ pcP \in {"fill", "rest"} /\ (pcP = "fill" => pcol < newLimit)
        /\ pcol' = pcol + 1
    BY <1>1, FillPuts
  <2>2. Held < QueueSize
    BY <1>1, BatchHasRoom
  <2>3. InOrder'
    BY <1>a, <2>1, <2>2, PutOrder DEF NoMarker
  <2>4. Held' = Held + 1
    BY <1>a, <2>1, <2>2, PutPlace
  <2>5. BatchOK'
    BY <1>a, <1>b, <2>1, <2>4 DEF BatchOK
  <2> QED  BY <2>3, <2>5 DEF OrderInv
<1>2. CASE AwaitFreeSlot
  <2>1. /\ pcP = "fill" /\ pcP' = "limit" /\ NextIsFree
        /\ UNCHANGED <<queueVars, prow, pcol, pValue, consumerVars, exited>>
    BY <1>2 DEF AwaitFreeSlot
  <2>2. Held < QueueSize
    BY <1>a, <2>1, NextIsFreeLeavesOne
  <2>3. InOrder' /\ Held' = Held
    BY <1>a, <2>1, ProducerIdle
  <2> QED  BY <2>1, <2>2, <2>3 DEF OrderInv, BatchOK
<1>3. CASE ExtendLimit
  <2>1. /\ pcP = "limit" /\ newLimit' = newLimit + FreeSlots
        /\ pcP' = IF newLimit' < Cols THEN "fill" ELSE "rest"
        /\ UNCHANGED <<queueVars, prow, pcol, pValue, consumerVars, exited>>
    BY <1>3 DEF ExtendLimit
  <2>2. InOrder' /\ Held' = Held
    BY <1>a, <2>1, ProducerIdle
  <2>3. Held < QueueSize
    BY <1>a, <2>1 DEF BatchOK
  <2>4. FreeSlots = QueueSize - Held
    BY <1>a, <2>3
    DEF FreeSlots, InOrder, PointersOK, MatrixTypeOK, QueueTypeOK, SlotIdx
  <2>5. pcol = newLimit /\ newLimit' = newLimit + (QueueSize - Held)
    BY <1>a, <2>1, <2>4 DEF LimitOK
  <2>6. /\ newLimit' - pcol + Held = QueueSize
        /\ newLimit' >= Cols => Cols - pcol + Held <= QueueSize
    BY <1>b, <2>5
  <2>7. newLimit' \in Int
    BY <1>b, <2>5
  <2>8. BatchOK'
    BY <1>b, <2>1, <2>2, <2>6, <2>7 DEF BatchOK
  <2> QED  BY <2>2, <2>8 DEF OrderInv
<1>4. CASE \/ PublishRowResult("rest") /\ UNCHANGED newLimit
           \/ RaiseCheck /\ UNCHANGED newLimit
           \/ StoreAndBeginRow
  <2>1. PICK from \in {"fill", "rest"} :
          PublishRowResult(from) \/ RaiseCheck \/ ProducerStoreResult(from)
    BY <1>4 DEF StoreAndBeginRow
  <2>2. InOrder' /\ (ProducerStoreResult(from) => Held' = 0)
    BY <1>a, <2>1, RowEndOrder
  <2>3. \/ pcP' \in {"raise", "await", "done"}
        \/ pcP' = "fill" /\ pcol' = 0 /\ newLimit' = QueueSize /\ Held' = 0
    BY <1>4, <2>1, <2>2
    DEF PublishRowResult, RaiseCheck, StoreAndBeginRow, ProducerStoreResult
  <2> QED  BY <2>2, <2>3 DEF OrderInv, BatchOK
<1>5. CASE Consumer
  <2>1. (ConsumerCheckAndMove \/ CheckRow) /\ UNCHANGED newLimit
    BY <1>5 DEF Consumer
  <2>2. InOrder' /\ Held' \in {Held, Held - 1} /\ UNCHANGED <<pcP, pcol>>
    BY <1>a, <2>1, ConsumerOrder, ConsumerShrinksHeld, ConsumerLeaves
  <2>3. BatchOK'
    <3>1. CASE Held' = Held
      BY <1>a, <2>1, <2>2, <3>1 DEF BatchOK
    <3>2. CASE Held' = Held - 1
      BY <1>a, <1>b, <2>1, <2>2, <3>2 DEF BatchOK
    <3> QED  BY <2>2, <3>1, <3>2
  <2> QED  BY <2>2, <2>3 DEF OrderInv
<1> QED  BY <1>1, <1>2, <1>3, <1>4, <1>5 DEF Producer

(* Without a soft error sums and entries stay right.                       *)
LEMMA SoundStep ==
  ASSUME AlwaysInv, OrderInv, Sound, Producer \/ Consumer, faults' = 0
  PROVE  Sound'
<1>a. MatrixTypeOK(ProducerControl) /\ ControlOK /\ InOrder
  BY DEF AlwaysInv, OrderInv, TypeOK
<1>1. CASE FillBatch \/ FillRest
  <2>1. /\ pcol < Cols /\ PutPartialSum /\ UNCHANGED pcP /\ pcP \in {"fill", "rest"}
    BY <1>1, FillPuts
  <2>2. Held < QueueSize
    BY <1>1, BatchHasRoom
  <2> QED  BY <1>a, <2>1, <2>2, PutSound
<1>2. CASE AwaitFreeSlot \/ ExtendLimit
  <2>1. /\ UNCHANGED <<queueVars, prow, pcol, pValue, consumerVars, exited>>
        /\ {pcP, pcP'} \cap {"raise", "await"} = {}
    BY <1>2 DEF AwaitFreeSlot, ExtendLimit
  <2> QED  BY <2>1, ProducerIdle
<1>3. CASE \/ PublishRowResult("rest") /\ UNCHANGED newLimit
           \/ RaiseCheck /\ UNCHANGED newLimit
           \/ StoreAndBeginRow
  <2>1. PICK from \in {"fill", "rest"} :
          PublishRowResult(from) \/ RaiseCheck \/ ProducerStoreResult(from)
    BY <1>3 DEF StoreAndBeginRow
  <2> QED  BY <1>a, <2>1, RowEndSound
<1>4. CASE Consumer
  BY <1>4, <1>a, ConsumerSound DEF Consumer
<1> QED  BY <1>1, <1>2, <1>3, <1>4 DEF Producer

LEMMA Stuttering ==
  ASSUME UNCHANGED vars
  PROVE  /\ AlwaysInv => AlwaysInv'
         /\ OrderInv => OrderInv'
         /\ Sound => Sound'
<1>1. AlwaysInv => AlwaysInv'
  BY DEF vars, matrixVars, queueVars, producerVars, consumerVars, AlwaysInv, TypeOK,
         MatrixTypeOK, QueueTypeOK, ControlOK, LimitOK
<1>2. OrderInv => OrderInv'
  BY DEF vars, matrixVars, queueVars, producerVars, consumerVars, OrderInv, BatchOK,
         InOrder, PointersOK, LockstepOK, SlotsOK, Filled, Held, Dist
<1>3. Sound => Sound'
  BY DEF vars, matrixVars, queueVars, producerVars, consumerVars, Sound, EntriesOK,
         ValuesOK, Filled, Held, Dist
<1> QED  BY <1>1, <1>2, <1>3

LEMMA StepOK == IInv /\ [Next]_vars => IInv'
<1> SUFFICES ASSUME IInv, [Next]_vars
             PROVE  IInv'
  OBVIOUS
<1>1. CASE Producer \/ Consumer
  <2>1. AlwaysInv' /\ (faults' = 0 => faults = 0)
    BY <1>1, AlwaysStep DEF IInv
  <2>2. ASSUME faults' = 0
        PROVE  OrderInv' /\ Sound'
    <3>1. AlwaysInv /\ OrderInv /\ Sound
      BY <2>1, <2>2 DEF IInv
    <3>2. Sound'
      BY <1>1, <2>2, <3>1, SoundStep
    <3>3. NoMarker'
      BY <2>1, <3>2, RightIsNoMarker DEF AlwaysInv, TypeOK, Sound
    <3> QED  BY <1>1, <3>1, <3>2, <3>3, OrderStep
  <2> QED  BY <2>1, <2>2 DEF IInv
<1>2. CASE UNCHANGED vars
  <2>1. faults' = faults
    BY <1>2 DEF vars, matrixVars
  <2> QED  BY <1>2, <2>1, Stuttering DEF IInv
<1> QED  BY <1>1, <1>2 DEF Next, Ended

LEMMA Invariance == Spec => []IInv
  BY InitOK, StepOK, PTL DEF Spec

(* The queue stays in order as long as no sum is ALREADY_CONSUMED.         *)
LEMMA OrderInvariance == Spec /\ []NoMarker => []OrderInv
<1>1. IInv /\ OrderInv /\ NoMarker' /\ [Next]_vars => OrderInv'
  BY OrderStep, Stuttering DEF IInv, Next, Ended
<1> QED  BY <1>1, InitOK, Invariance, PTL DEF Spec

-----------------------------------------------------------------------------
(* Every variable keeps its type: in particular the pointers stay in the   *)
(* queue and a batch, whose limit may lie beyond the row, never takes the  *)
(* producer past the last column, with or without soft errors.             *)
THEOREM RhtTypeCorrect == Spec => []TypeOK
<1>1. IInv => TypeOK
  BY DEF IInv, AlwaysInv
<1> QED  BY <1>1, Invariance, PTL

(* A batch never outgrows the free slots, however old the value of deqPtr  *)
(* is that it was computed from, and the equal pointers from which the next*)
(* one is computed mean an empty queue; also after soft errors, as long as *)
(* none of them makes a sum ALREADY_CONSUMED.                              *)
THEOREM RhtBatches == Spec /\ []NoMarker => []BatchesAreSafe
<1>1. ASSUME IInv, OrderInv
      PROVE  BatchesAreSafe
  <2>1. /\ MatrixTypeOK(ProducerControl) /\ ControlOK /\ InOrder
        /\ LimitOK /\ BatchOK
    BY <1>1 DEF IInv, AlwaysInv, OrderInv, TypeOK
  <2>2. Sent - Taken = Held /\ Sent - Cleared = Occupied
    BY <2>1, HeldIsSentNotTaken
  <2>3. Held \in Int /\ newLimit \in Int /\ pcol \in Int /\ Cols \in Int
    BY <2>1, QueueSizeAssumption, MatrixAssumption
    DEF LimitOK, MatrixTypeOK, InOrder, PointersOK
  <2>4. BatchFits
    <3> DEFINE left == (IF newLimit < Cols THEN newLimit ELSE Cols) - pcol
    <3>1. pcP \in {"fill", "rest"} => Held + left <= QueueSize
      BY <2>1, <2>3, QueueSizeAssumption DEF LimitOK, BatchOK
    <3>2. left \in Int /\ Occupied \in {Held, Held - 1}
      BY <2>3 DEF Occupied
    <3>3. pcP \in {"fill", "rest"} => Occupied + left <= QueueSize
      <4>1. CASE Occupied = Held
        BY <3>1, <4>1
      <4>2. CASE Occupied = Held - 1
        BY <2>3, <3>1, <3>2, <4>2, QueueSizeAssumption
      <4> QED  BY <3>2, <4>1, <4>2
    <3>4. (Sent - Cleared) + (IF newLimit < Cols THEN newLimit ELSE Cols) - pcol
            = Occupied + left
      BY <2>2, <2>3, <3>2
    <3> QED  BY <3>3, <3>4 DEF BatchFits
  <2>5. EqualPointersMeanEmpty
    <3>1. ASSUME pcP = "limit", enqPtr = deqPtr
          PROVE  Held = 0
      BY <2>1, <3>1, QueueSizeAssumption
      DEF BatchOK, InOrder, PointersOK, MatrixTypeOK, QueueTypeOK, SlotIdx
    <3>2. Sent \in Int /\ Taken \in Int
      BY <2>1, MatrixAssumption DEF Sent, Taken, MatrixTypeOK
    <3> QED  BY <2>2, <3>1, <3>2 DEF EqualPointersMeanEmpty
  <2> QED  BY <2>4, <2>5 DEF BatchesAreSafe
<1> QED  BY <1>1, Invariance, OrderInvariance, PTL

(* Under the same condition the producer overwrites no entry.              *)
THEOREM RhtNoOverwrite == Spec /\ []NoMarker => NoOverwrite
<1>1. ASSUME IInv, OrderInv, [Next]_vars, pcol' > pcol
      PROVE  content[enqPtr] = ALREADY_CONSUMED
  <2>1. MatrixTypeOK(ProducerControl) /\ ControlOK /\ InOrder /\ AlwaysInv
    BY <1>1 DEF IInv, AlwaysInv, OrderInv, TypeOK
  <2>2. pcol' # pcol /\ pcol' # 0
    BY <1>1, <2>1, MatrixAssumption DEF MatrixTypeOK
  <2>3. FillBatch \/ FillRest
    <3>1. CASE Producer
      BY <2>2, <3>1
      DEF Producer, AwaitFreeSlot, ExtendLimit, PublishRowResult, RaiseCheck,
          StoreAndBeginRow, ProducerStoreResult
    <3>2. CASE Consumer
      <4>1. pcol' = pcol
        BY <2>1, <3>2, ConsumerLeaves DEF Consumer
      <4> QED  BY <2>2, <4>1
    <3>3. CASE UNCHANGED vars
      BY <2>2, <3>3 DEF vars, matrixVars, producerVars
    <3> QED  BY <1>1, <3>1, <3>2, <3>3 DEF Next, Ended
  <2>4. PutPartialSum /\ pcP \in {"fill", "rest"} /\ pcol < Cols
    BY <2>1, <2>3, FillPuts
  <2>5. Held < QueueSize
    BY <1>1, <2>1, <2>3, BatchHasRoom
  <2> QED  BY <2>1, <2>4, <2>5, PutPlace
<1>2. IInv /\ OrderInv /\ [Next]_vars => [FillsFreeSlot]_vars
  BY <1>1 DEF FillsFreeSlot
<1> QED  BY <1>2, Invariance, OrderInvariance, PTL DEF Spec, NoOverwrite

-----------------------------------------------------------------------------
(* The handover of the row results, step by step.                          *)
LEMMA HandoverStep == IInv /\ HandoverInv /\ [Next]_vars => HandoverInv'
<1> SUFFICES ASSUME IInv, HandoverInv, [Next]_vars
             PROVE  HandoverInv'
  OBVIOUS
<1>1. MatrixTypeOK(ProducerControl) /\ ControlOK /\ LimitOK
  BY DEF IInv, AlwaysInv, TypeOK
<1>2. CASE ~exited /\ (FillBatch \/ FillRest)
  <2>1. /\ PutPartialSum /\ pcP' = pcP /\ pcP \in {"fill", "rest"} /\ pcol < Cols
    BY <1>1, <1>2, MatrixAssumption DEF FillBatch, FillRest, LimitOK, MatrixTypeOK
  <2> QED  BY <1>1, <1>2, <2>1, HandoverPut
<1>3. CASE AwaitFreeSlot \/ ExtendLimit
  BY <1>3, HandoverIdle DEF AwaitFreeSlot, ExtendLimit
<1>4. CASE ~exited /\ (PublishRowResult("rest") \/ RaiseCheck \/ StoreAndBeginRow)
  <2>1. PICK from \in {"fill", "rest"} :
          PublishRowResult(from) \/ RaiseCheck \/ ProducerStoreResult(from)
    BY <1>4 DEF StoreAndBeginRow
  <2> QED  BY <1>1, <1>4, <2>1, HandoverRowEnd
<1>5. CASE Consumer
  BY <1>1, <1>5, HandoverConsumer DEF Consumer
<1>6. CASE UNCHANGED vars
  BY <1>6
  DEF vars, matrixVars, queueVars, producerVars, consumerVars, HandoverInv,
      RowsInStep, CopiesAgree, StoredOK, OneErrorOK, ProducerRight, ConsumerRight
<1> QED
  BY <1>2, <1>3, <1>4, <1>5, <1>6 DEF Next, Producer, Ended

LEMMA HandoverInvariance == Spec => [](IInv /\ HandoverInv)
<1>1. Init => HandoverInv
  BY HandoverInit DEF Init
<1> QED  BY <1>1, InitOK, StepOK, HandoverStep, PTL DEF Spec

(* The consumer calls exit(1) only after a soft error, and the one soft    *)
(* error that struck never goes unnoticed to the end.                      *)
THEOREM RhtAlarmIsRight == Spec => []AlarmIsRight
<1>1. ASSUME IInv, HandoverInv
      PROVE  AlarmIsRight
  <2>1. NoFalseAlarm
    BY <1>1 DEF IInv, TypeOK, MatrixTypeOK, AlwaysInv, Sound, NoFalseAlarm
  <2>2. MatrixTypeOK(ProducerControl) /\ ControlOK
    BY <1>1 DEF IInv, AlwaysInv, TypeOK
  <2>3. NoErrorMissed
    BY <1>1, <2>2, HandoverMissesNone
  <2> QED  BY <2>1, <2>3 DEF AlarmIsRight
<1> QED  BY <1>1, HandoverInvariance, PTL

LEMMA StepKeepsPromise ==
  IInv /\ IInv' /\ HandoverInv /\ [Next]_vars => [Rows_!Next]_(Rows_!rowVars)
<1> SUFFICES ASSUME IInv, IInv', HandoverInv, [Next]_vars
             PROVE  [Promise(FALSE)!Next]_(Promise(FALSE)!rowVars)
  BY DEF Promise!Next, Promise!rowVars, Promise!Strike, Promise!Alarm,
         Promise!Verify, Promise!Stored, Promise!StoreProducer,
         Promise!StoreConsumer, Promise!Admissible, Rows_!Next, Rows_!rowVars,
         Rows_!Strike, Rows_!Alarm, Rows_!Verify, Rows_!Stored,
         Rows_!StoreProducer, Rows_!StoreConsumer, Rows_!Admissible
<1>1. /\ MatrixTypeOK(ProducerControl) /\ MatrixTypeOK(ProducerControl)'
      /\ ControlOK /\ LimitOK
      /\ exited' => faults' > 0
  BY DEF IInv, TypeOK, MatrixTypeOK, AlwaysInv, Sound
<1>2. CASE ~exited /\ (FillBatch \/ FillRest)
  <2>1. PutPartialSum /\ pcP # "await" /\ pcol < Cols /\ prow < Rows
    BY <1>1, <1>2, MatrixAssumption
    DEF FillBatch, FillRest, LimitOK, MatrixTypeOK, ControlOK
  <2> QED  BY <1>1, <1>2, <2>1, PromisePut
<1>3. CASE ~exited /\ (PublishRowResult("rest") \/ RaiseCheck \/ StoreAndBeginRow)
  <2>1. PICK from \in {"fill", "rest"} :
          PublishRowResult(from) \/ RaiseCheck \/ ProducerStoreResult(from)
    BY <1>3 DEF StoreAndBeginRow
  <2> QED  BY <1>1, <1>3, <2>1, PromiseRowEnd
<1>4. CASE Consumer
  BY <1>1, <1>4, PromiseConsumer DEF Consumer
<1>5. CASE AwaitFreeSlot \/ ExtendLimit \/ UNCHANGED vars
  BY <1>5
  DEF AwaitFreeSlot, ExtendLimit, vars, matrixVars, queueVars, producerVars,
      consumerVars, Promise!rowVars
<1> QED  BY <1>2, <1>3, <1>4, <1>5 DEF Next, Producer, Ended

(* With or without soft errors the threads store the rows in step, each    *)
(* only after its check; up to one soft error the stored values are right; *)
(* and the process is ended only because of a soft error.                  *)
THEOREM RhtImplementsRows == Spec => ImplementsReplicatedRows
<1>1. Init => Rows_!Init
  BY DEF Init, MatrixInit, Rows_!Init, Rows_!RowIdx, RowIdx
<1> QED
  BY <1>1, HandoverInvariance, StepKeepsPromise, PTL
  DEF Spec, ImplementsReplicatedRows, Rows_!Spec

=============================================================================
