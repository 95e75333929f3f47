-------------------- MODULE RhtImprovedReplication_proofs --------------------
(***************************************************************************)
(* Types, the free slot and the rows for CheckFrequency_RHT_Volatiles-     *)
(* Improved, for every size of the queue and the matrix and every soft     *)
(* error.  The consumer of this mode may take a stale slot for an entry    *)
(* and overtake the producer, so the distance of the threads is bounded    *)
(* from above only; without soft errors, and unless a slot held the same   *)
(* value a lap before, it is bounded from below as well.                   *)
(***************************************************************************)
EXTENDS RhtImprovedReplication, MatrixReplication_proofs

(* The entries that the producer is ahead of the consumer; below zero where*)
(* the consumer took stale slots for entries.                              *)
Lead == IF prow = crow THEN pcol - ccol
        ELSE IF prow > crow THEN pcol
        ELSE -ccol

(* The pointers are that far apart, up to whole laps of the queue.         *)
PointersFit == \E laps \in Int : enqPtr - deqPtr = Lead + laps * QueueSize

(* The limit of a batch lies within the row.                               *)
LimitOK ==
  /\ pcP = "fill" => newLimit <= Cols /\ pcol <= newLimit
  /\ pcP = "limit" => pcol = newLimit
  /\ pcP = "rest" => newLimit >= Cols

(* What is left of the batch leaves one slot free.                         *)
BatchOK ==
  /\ Lead < QueueSize
  /\ pcP = "fill" => newLimit - pcol + Lead < QueueSize
  /\ pcP = "rest" => Cols - pcol + Lead < QueueSize

IInv ==
  /\ TypeOK
  /\ ControlOK
  /\ HandoverInv
  /\ PointersFit
  /\ LimitOK
  /\ BatchOK

(* How long ago, in entries, a slot was filled: 1 for the last one.        *)
Age(s) == IF s < enqPtr THEN enqPtr - s ELSE enqPtr - s + QueueSize

(* Every slot holds the last entry that was put into it.                   *)
Latest(n) == IF n < 0 THEN ALREADY_CONSUMED ELSE Entry(n)

StaleOK == \A s \in SlotIdx : content[s] = Latest(Sent - Age(s))

(* The consumer moves only past entries that are there.                    *)
BehindOK ==
  DistinctLaps /\ faults = 0 =>
    /\ Lead >= 0
    /\ pcC = "move" => Lead > 0
    /\ StaleOK

-----------------------------------------------------------------------------
(* Arithmetic: rows, laps and the numbering of the entries.                *)

(* Lead is what the counts of the whole execution say.                     *)
LEMMA LeadIsSentNotTaken ==
  ASSUME TypeOK, ControlOK, HandoverInv
  PROVE  /\ Sent \in Int /\ Taken \in Int /\ Lead \in Int
         /\ Sent = Taken + Lead
<1> USE MatrixAssumption DEF TypeOK, MatrixTypeOK, HandoverInv
<1>1. prow \in Int /\ pcol \in Int /\ crow \in Int /\ ccol \in Int /\ Cols \in Int
  OBVIOUS
<1>2. prow * Cols \in Int /\ crow * Cols \in Int
  BY <1>1
<1>3. CASE prow = crow
  BY <1>1, <1>2, <1>3 DEF Sent, Taken, Lead
<1>4. CASE prow = crow + 1
  <2>1. prow * Cols = crow * Cols + Cols /\ ccol = Cols
    BY <1>1, <1>4 DEF RowsInStep, ControlOK
  <2> QED  BY <1>1, <1>2, <1>4, <2>1 DEF Sent, Taken, Lead
<1>5. CASE crow = prow + 1
  <2>1. crow * Cols = prow * Cols + Cols /\ pcol = Cols
    BY <1>1, <1>5 DEF RowsInStep, ControlOK
  <2> QED  BY <1>1, <1>2, <1>5, <2>1 DEF Sent, Taken, Lead
<1> QED  BY <1>3, <1>4, <1>5 DEF RowsInStep

(* The entry that a column of a row is.                                    *)
LEMMA EntryOf ==
  ASSUME NEW i \in RowIdx, NEW j \in ColIdx
  PROVE  /\ i * Cols + j \in 0 .. Rows * Cols - 1
         /\ Entry(i * Cols + j) = PartialSum[i][j + 1]
<1>1. Cols \in Nat \ {0} /\ Rows \in Nat /\ i \in Nat /\ j \in Nat /\ i < Rows /\ j < Cols
  BY MatrixAssumption DEF RowIdx, ColIdx
<1>2. (i * Cols + j) \div Cols = i /\ (i * Cols + j) % Cols = j
  BY <1>1
<1>3. i * Cols + j < Rows * Cols /\ i * Cols \in Nat /\ Rows * Cols \in Nat
  BY <1>1
<1>4. Entry(i * Cols + j) = PartialSum[i][j + 1]
  BY <1>2 DEF Entry
<1>5. i * Cols + j \in 0 .. Rows * Cols - 1
  BY <1>1, <1>3
<1> QED  BY <1>4, <1>5

(* A slot taken from a difference up to laps: no lap is hidden when the    *)
(* difference is within one.                                               *)
LEMMA NoHiddenLap ==
  ASSUME NEW d \in 0 .. QueueSize - 1, NEW n \in Int, NEW laps \in Int,
         d = n + laps * QueueSize
  PROVE  /\ n < QueueSize => n <= d
         /\ n \in 0 .. QueueSize - 1 => n = d
<1> USE QueueSizeAssumption
<1>1. laps * QueueSize \in Int
  OBVIOUS
<1>2. laps < 0 => laps * QueueSize <= -QueueSize
  OBVIOUS
<1>3. laps > 0 => laps * QueueSize >= QueueSize
  OBVIOUS
<1>4. laps = 0 => laps * QueueSize = 0
  OBVIOUS
<1> QED  BY <1>1, <1>2, <1>3, <1>4

(* A pointer that steps to the next slot moves one on, up to a lap.        *)
LEMMA PointerSteps ==
  ASSUME NEW p \in SlotIdx
  PROVE  NextSlot(p) = p + 1 \/ NextSlot(p) = p + 1 - QueueSize
  BY NextSlotWraps, QueueSizeAssumption DEF SlotIdx

-----------------------------------------------------------------------------
LEMMA InitOK == Init => IInv
<1> SUFFICES ASSUME Init
             PROVE  IInv
  OBVIOUS
<1>1. MatrixTypeOK(ProducerControl) /\ ControlOK
  BY MatrixInitOK DEF Init, ProducerControl
<1>2. HandoverInv
  BY HandoverInit DEF Init
<1>3. LimitOK /\ BatchOK
  BY QueueSizeAssumption, BigAssumption, MatrixAssumption
  DEF Init, MatrixInit, LimitOK, BatchOK, Lead
<1>4. PointersFit
  <2>1. enqPtr - deqPtr = Lead + 0 * QueueSize
    BY QueueSizeAssumption
    DEF Init, MatrixInit, SimpleSyncQueue_Init, Lead
  <2> QED  BY <2>1 DEF PointersFit
<1>5. newLimit \in Nat /\ localDeqPtr \in SlotIdx
  BY QueueSizeAssumption DEF Init, SlotIdx
<1> QED  BY <1>1, <1>2, <1>3, <1>4, <1>5 DEF IInv, TypeOK

(* PointersFit survives a step of a pointer with the entry it stands for.  *)
LEMMA PutFits ==
  ASSUME PointersFit, enqPtr \in SlotIdx, deqPtr \in SlotIdx, Lead \in Int,
         enqPtr' = NextSlot(enqPtr), deqPtr' = deqPtr, Lead' = Lead + 1
  PROVE  PointersFit'
<1> USE QueueSizeAssumption
<1>1. PICK laps \in Int : enqPtr - deqPtr = Lead + laps * QueueSize
  BY DEF PointersFit
<1>2. laps * QueueSize \in Int /\ (laps - 1) * QueueSize = laps * QueueSize - QueueSize
  OBVIOUS
<1>3. \/ enqPtr' - deqPtr' = Lead' + laps * QueueSize
      \/ enqPtr' - deqPtr' = Lead' + (laps - 1) * QueueSize
  BY <1>1, <1>2, PointerSteps DEF SlotIdx
<1>4. laps - 1 \in Int
  OBVIOUS
<1> QED  BY <1>3, <1>4 DEF PointersFit

LEMMA MoveFits ==
  ASSUME PointersFit, enqPtr \in SlotIdx, deqPtr \in SlotIdx, Lead \in Int,
         deqPtr' = NextSlot(deqPtr), enqPtr' = enqPtr, Lead' = Lead - 1
  PROVE  PointersFit'
<1> USE QueueSizeAssumption
<1>1. PICK laps \in Int : enqPtr - deqPtr = Lead + laps * QueueSize
  BY DEF PointersFit
<1>2. laps * QueueSize \in Int /\ (laps + 1) * QueueSize = laps * QueueSize + QueueSize
  OBVIOUS
<1>3. \/ enqPtr' - deqPtr' = Lead' + laps * QueueSize
      \/ enqPtr' - deqPtr' = Lead' + (laps + 1) * QueueSize
  BY <1>1, <1>2, PointerSteps DEF SlotIdx
<1>4. laps + 1 \in Int
  OBVIOUS
<1> QED  BY <1>3, <1>4 DEF PointersFit

(* The limit that the producer computes from deqPtr is safe, although the  *)
(* pointers tell the distance up to laps only: it is never a whole lap.    *)
LEMMA FreeSlotsAreFree ==
  ASSUME IInv
  PROVE  /\ FreeSlotsButOne \in 0 .. QueueSize - 1
         /\ FreeSlotsButOne + Lead < QueueSize
<1> USE QueueSizeAssumption DEF IInv, TypeOK, MatrixTypeOK, QueueTypeOK
<1>1. Lead \in Int
  BY LeadIsSentNotTaken
<1>2. PICK laps \in Int : enqPtr - deqPtr = Lead + laps * QueueSize
  BY DEF PointersFit
<1> DEFINE d == IF enqPtr >= deqPtr THEN enqPtr - deqPtr
                ELSE enqPtr - deqPtr + QueueSize
<1>3. d \in 0 .. QueueSize - 1 /\ FreeSlotsButOne = QueueSize - 1 - d
  BY DEF FreeSlotsButOne, SlotIdx
<1>4. d = Lead + laps * QueueSize \/ d = Lead + (laps + 1) * QueueSize
  <2>1. laps * QueueSize \in Int /\ (laps + 1) * QueueSize = laps * QueueSize + QueueSize
    OBVIOUS
  <2> QED  BY <1>1, <1>2, <2>1 DEF SlotIdx
<1> HIDE DEF d
<1>5. Lead < QueueSize => Lead <= d
  <2>1. CASE d = Lead + laps * QueueSize
    BY <1>1, <1>3, <2>1, NoHiddenLap
  <2>2. CASE d = Lead + (laps + 1) * QueueSize
    <3>1. laps + 1 \in Int
      OBVIOUS
    <3> QED  BY <1>1, <1>3, <2>2, <3>1, NoHiddenLap
  <2> QED  BY <1>4, <2>1, <2>2
<1> QED  BY <1>1, <1>3, <1>5 DEF BatchOK

(* Every step of the producer.                                             *)
LEMMA ProducerOK ==
  ASSUME IInv, Producer
  PROVE  IInv'
<1> USE QueueSizeAssumption, BigAssumption, MatrixAssumption
<1> USE DEF IInv, TypeOK
<1>a. ~exited /\ Lead \in Int
  BY LeadIsSentNotTaken DEF Producer
<1>1. CASE FillBatch \/ FillRest
  <2>1. /\ prow < Rows /\ pcol < Cols /\ PutPartialSum
        /\ UNCHANGED <<pcP, newLimit, localDeqPtr>>
        /\ pcP \in {"fill", "rest"} /\ (pcP = "fill" => pcol < newLimit)
    BY <1>1 DEF FillBatch, FillRest, ControlOK, MatrixTypeOK, LimitOK
  <2>2. /\ QueueTypeOK' /\ prow' \in 0 .. Rows /\ pcol' \in 0 .. Cols
        /\ pValue' \in Int /\ faults' \in 0 .. MaxFaults
        /\ UNCHANGED <<pcC, crow, ccol, cValue, producerVectorResult,
                       consumerVectorResult, exited>>
    BY <2>1, PutTypeOK
  <2>3. /\ pcol' = pcol + 1 /\ prow' = prow
        /\ enqPtr' = NextSlot(enqPtr) /\ deqPtr' = deqPtr
    BY <2>1 DEF PutPartialSum, Put
  <2>4. TypeOK' /\ ControlOK' /\ LimitOK'
    BY <2>1, <2>2, <2>3 DEF MatrixTypeOK, ControlOK, LimitOK
  <2>5. HandoverInv'
    BY <1>a, <2>1, HandoverPut
  <2>6. Lead' = Lead + 1
    BY <2>1, <2>2, <2>3 DEF Lead, MatrixTypeOK, HandoverInv, RowsInStep
  <2>7. PointersFit'
    BY <1>a, <2>3, <2>6, PutFits DEF MatrixTypeOK, QueueTypeOK
  <2>8. BatchOK'
    BY <1>a, <2>1, <2>3, <2>6 DEF BatchOK, LimitOK, MatrixTypeOK
  <2> QED  BY <2>4, <2>5, <2>7, <2>8
<1>2. CASE AwaitProgress \/ ExtendLimit
  <2>1. /\ pcP \in {"fill", "limit"} /\ pcP' \in {"fill", "limit", "rest"}
        /\ UNCHANGED <<queueVars, prow, pcol, pValue, producerVectorResult,
                       consumerVars, exited, faults>>
    BY <1>2 DEF AwaitProgress, ExtendLimit
  <2>2. /\ MatrixTypeOK(ProducerControl)' /\ ControlOK'
        /\ localDeqPtr' \in SlotIdx
    BY <1>2, <2>1
    DEF AwaitProgress, ExtendLimit, MatrixTypeOK, QueueTypeOK, ControlOK,
        ProducerControl, queueVars, consumerVars
  <2>3. HandoverInv'
    BY <2>1, HandoverIdle
  <2>4. Lead' = Lead /\ PointersFit'
    BY <2>1 DEF Lead, PointersFit, queueVars, consumerVars
  <2>5. newLimit' \in Nat /\ LimitOK' /\ BatchOK'
    <3>1. CASE AwaitProgress
      BY <2>1, <2>4, <3>1 DEF AwaitProgress, LimitOK, BatchOK, MatrixTypeOK
    <3>2. CASE ExtendLimit
      <4>1. /\ pcP = "limit" /\ pcol = newLimit
            /\ newLimit' = newLimit + FreeSlotsButOne
            /\ pcP' = IF newLimit' < Cols THEN "fill" ELSE "rest"
            /\ pcol' = pcol
        BY <3>2 DEF ExtendLimit, LimitOK
      <4>2. /\ FreeSlotsButOne \in 0 .. QueueSize - 1
            /\ FreeSlotsButOne + Lead < QueueSize
        BY FreeSlotsAreFree
      <4> HIDE DEF FreeSlotsButOne
      <4>3. newLimit' \in Nat /\ LimitOK'
        BY <4>1, <4>2 DEF LimitOK, MatrixTypeOK
      <4>4. newLimit + FreeSlotsButOne - pcol + Lead < QueueSize
        BY <1>a, <4>1, <4>2 DEF MatrixTypeOK
      <4>5. pcP' = "rest" => Cols - pcol + Lead < QueueSize
        <5>1. newLimit \in Int /\ FreeSlotsButOne \in Int /\ pcol \in Int /\ Cols \in Int
          BY <4>2 DEF MatrixTypeOK
        <5>2. pcP' = "rest" => ~(newLimit + FreeSlotsButOne < Cols)
          BY <4>1
        <5> QED  BY <1>a, <4>4, <5>1, <5>2
      <4>6. Lead < QueueSize
        BY DEF BatchOK
      <4>7. newLimit' - pcol' + Lead' < QueueSize
        <5>1. newLimit' = newLimit + FreeSlotsButOne /\ pcol' = pcol /\ Lead' = Lead
          BY <2>4, <4>1
        <5>2. FreeSlotsButOne \in Int /\ pcol \in Int
          BY <4>2 DEF MatrixTypeOK
        <5> QED  BY <1>a, <4>4, <5>1, <5>2
      <4>8. pcP' = "rest" => Cols - pcol' + Lead' < QueueSize
        BY <2>4, <4>1, <4>5
      <4> QED  BY <2>4, <4>3, <4>6, <4>7, <4>8 DEF BatchOK
    <3> QED  BY <1>2, <3>1, <3>2
  <2> QED  BY <2>2, <2>3, <2>4, <2>5
<1>3. CASE \/ PublishRowResult("rest") /\ UNCHANGED batchVars
           \/ RaiseCheck /\ UNCHANGED batchVars
           \/ StoreAndBeginRow
  <2>1. PICK from \in {"fill", "rest"} :
          PublishRowResult(from) \/ RaiseCheck \/ ProducerStoreResult(from)
    BY <1>3 DEF StoreAndBeginRow
  <2> DEFINE PC == ProducerControl
  <2>a. /\ from \in PC /\ from \notin {"done", "raise", "await"}
        /\ {"done", "raise", "await"} \subseteq PC
    BY DEF ProducerControl
  <2>b. MatrixTypeOK(PC) /\ ControlOK /\ HandoverInv
    OBVIOUS
  <2> HIDE DEF PC
  <2>2. MatrixTypeOK(PC)' /\ ControlOK'
    BY <2>1, <2>a, <2>b, ProducerTypeOK
  <2>3. HandoverInv'
    BY <1>a, <2>1, <2>a, <2>b, HandoverRowEnd
  <2>4. /\ pcP' \in {"raise", "await", "done"} \/ (pcP' = "fill" /\ pcol' = 0)
        /\ newLimit' \in {newLimit, QueueSize - 1}
        /\ pcP' = "fill" => newLimit' = QueueSize - 1
        /\ localDeqPtr' \in {localDeqPtr, enqPtr}
        /\ UNCHANGED <<enqPtr, deqPtr, crow, ccol, pcC>>
    BY <1>3 DEF PublishRowResult, RaiseCheck, StoreAndBeginRow, batchVars,
                ProducerStoreResult, consumerVars, queueVars
  <2>5. newLimit' \in Nat /\ localDeqPtr' \in SlotIdx /\ LimitOK'
    BY <2>4 DEF LimitOK, MatrixTypeOK, QueueTypeOK
  <2>6. Lead' = Lead /\ (pcP' = "fill" => Lead' <= 0)
    <3>1. CASE PublishRowResult(from) \/ RaiseCheck
      BY <2>4, <2>a, <3>1 DEF PublishRowResult, RaiseCheck, Lead
    <3>2. CASE ProducerStoreResult(from)
      <4>1. /\ pcP = "await" /\ checkState = 1 /\ pcol = Cols
            /\ prow' = prow + 1 /\ pcol' = 0
        BY <3>2 DEF ProducerStoreResult, CheckDone, ControlOK, MatrixTypeOK,
                    QueueTypeOK
      <4>2. crow = prow + 1 \/ (crow = prow /\ pcC = "store" /\ ccol = Cols)
        BY <4>1 DEF HandoverInv, RowsInStep, ControlOK, MatrixTypeOK
      <4> QED  BY <2>4, <4>1, <4>2 DEF Lead, MatrixTypeOK
    <3> QED  BY <2>1, <3>1, <3>2
  <2>7. PointersFit'
    BY <2>4, <2>6 DEF PointersFit
  <2>8. BatchOK'
    BY <1>a, <2>4, <2>6 DEF BatchOK
  <2> QED  BY <2>2, <2>3, <2>5, <2>7, <2>8 DEF PC
<1> QED  BY <1>1, <1>2, <1>3 DEF Producer

(* Every step of the consumer.                                             *)
LEMMA ConsumerOK ==
  ASSUME IInv, Consumer
  PROVE  /\ IInv'
         /\ ~MovePastEntry => Lead' = Lead
<1> USE MatrixAssumption DEF IInv, TypeOK
<1>1. /\ ConsumerCheckAndMoveImproved \/ CheckRow
      /\ ~exited
      /\ UNCHANGED <<newLimit, localDeqPtr>>
  BY DEF Consumer, batchVars
<1>2. MatrixTypeOK(ProducerControl)' /\ ControlOK' /\ HandoverInv'
  BY <1>1, ConsumerTypeOK, HandoverConsumer
<1>3. UNCHANGED <<pcP, prow, pcol, enqPtr>>
  BY <1>1
  DEF ConsumerCheckAndMoveImproved, CheckRow, CheckEntry, SpinExit, RereadEntry,
      MovePastEntry, AwaitRowResult, VerifyRowResult, ReleaseProducer,
      ConsumerStoreResult, queueVars, producerVars
<1>4. Lead \in Int
  BY LeadIsSentNotTaken
<1>5. \/ Lead' = Lead /\ deqPtr' = deqPtr
      \/ MovePastEntry /\ Lead' = Lead - 1 /\ deqPtr' = NextSlot(deqPtr)
  <2>1. CASE MovePastEntry
    BY <1>3, <2>1
    DEF MovePastEntry, MoveDeqPtr, Lead, MatrixTypeOK, HandoverInv, RowsInStep
  <2>2. CASE ConsumerStoreResult
    <3>1. /\ pcC = "store" /\ crow' = crow + 1 /\ ccol' = 0 /\ ccol = Cols
          /\ deqPtr' = deqPtr
      BY <2>2 DEF ConsumerStoreResult, ControlOK, queueVars
    <3>2. prow = crow + 1 \/ (prow = crow /\ pcol = Cols)
      BY <3>1 DEF HandoverInv, RowsInStep, ControlOK, MatrixTypeOK
    <3> QED  BY <1>3, <3>1, <3>2 DEF Lead, MatrixTypeOK
  <2>3. CASE ~MovePastEntry /\ ~ConsumerStoreResult
    <3>1. UNCHANGED <<crow, ccol, deqPtr>>
      BY <1>1, <2>3
      DEF ConsumerCheckAndMoveImproved, CheckRow, CheckEntry, SpinExit,
          RereadEntry, AwaitRowResult, VerifyRowResult, ReleaseProducer,
          queueVars
    <3> QED  BY <1>3, <3>1 DEF Lead
  <2> QED  BY <2>1, <2>2, <2>3
<1>6. PointersFit'
  <2>1. CASE Lead' = Lead /\ deqPtr' = deqPtr
    BY <1>3, <2>1 DEF PointersFit
  <2>2. CASE Lead' = Lead - 1 /\ deqPtr' = NextSlot(deqPtr)
    BY <1>3, <1>4, <2>2, MoveFits DEF MatrixTypeOK, QueueTypeOK
  <2> QED  BY <1>5, <2>1, <2>2
<1>7. LimitOK'
  BY <1>1, <1>3 DEF LimitOK
<1>8. BatchOK'
  <2>1. newLimit \in Int /\ pcol \in Int /\ Cols \in Int /\ QueueSize \in Int
    BY QueueSizeAssumption DEF MatrixTypeOK
  <2>2. CASE Lead' = Lead
    BY <1>1, <1>3, <2>2 DEF BatchOK
  <2>3. CASE Lead' = Lead - 1
    BY <1>1, <1>3, <1>4, <2>1, <2>3 DEF BatchOK
  <2> QED  BY <1>5, <2>2, <2>3
<1> QED  BY <1>1, <1>2, <1>5, <1>6, <1>7, <1>8

LEMMA StepOK == IInv /\ [Next]_vars => IInv'
<1> SUFFICES ASSUME IInv, [Next]_vars
             PROVE  IInv'
  OBVIOUS
<1>1. CASE UNCHANGED vars
  BY <1>1
  DEF vars, matrixVars, queueVars, producerVars, consumerVars, IInv, TypeOK,
      MatrixTypeOK, QueueTypeOK, ControlOK, LimitOK, BatchOK, PointersFit, Lead,
      HandoverInv, RowsInStep, CopiesAgree, StoredOK, OneErrorOK, ProducerRight,
      ConsumerRight
<1> QED  BY <1>1, ProducerOK, ConsumerOK DEF Next, Ended

LEMMA Invariance == Spec => []IInv
  BY InitOK, StepOK, PTL DEF Spec

(* With or without soft errors, and even if stale slots pass for entries:  *)
(* the types, in particular that no batch leaves the row; one slot of the  *)
(* queue stays free; and one soft error never goes unnoticed to the end.   *)
THEOREM ImprovedSafe == Spec => []ImprovedInv
<1>1. ASSUME IInv
      PROVE  ImprovedInv
  <2>1. Sent \in Int /\ Taken \in Int /\ Lead \in Int /\ Sent = Taken + Lead
    BY <1>1, LeadIsSentNotTaken DEF IInv
  <2>2. Lead < QueueSize /\ QueueSize \in Int
    BY <1>1, QueueSizeAssumption DEF IInv, BatchOK
  <2>3. OneSlotFree /\ TypeOK
    BY <1>1, <2>1, <2>2 DEF OneSlotFree, IInv
  <2>4. NoErrorMissed
    BY <1>1, HandoverMissesNone DEF IInv, TypeOK
  <2> QED  BY <2>3, <2>4 DEF ImprovedInv
<1> QED  BY <1>1, Invariance, PTL

-----------------------------------------------------------------------------
(* What the slots hold, and why the consumer stays behind.                 *)

LEMMA BehindInit == Init => BehindOK
<1> SUFFICES ASSUME Init
             PROVE  Lead = 0 /\ pcC = "check" /\ StaleOK
  BY DEF BehindOK
<1> USE DEF Init, MatrixInit, SimpleSyncQueue_Init
<1>1. Sent = 0
  BY MatrixAssumption DEF Sent
<1>2. \A s \in SlotIdx : Latest(Sent - Age(s)) = ALREADY_CONSUMED
  BY <1>1, QueueSizeAssumption DEF Latest, Age, SlotIdx
<1> QED  BY <1>2 DEF StaleOK, Lead

(* The slot of the entry the consumer waits for: it holds the entry, or    *)
(* what was there a lap before.                                            *)
LEMMA NextSlotHolds ==
  ASSUME IInv, StaleOK, Lead >= 0
  PROVE  /\ Lead > 0 => content[deqPtr] = Latest(Taken)
         /\ Lead = 0 => content[deqPtr] = Latest(Taken - QueueSize)
<1> USE QueueSizeAssumption
<1>1. /\ Sent \in Int /\ Taken \in Int /\ Lead \in Int /\ Sent = Taken + Lead
      /\ Lead < QueueSize
      /\ deqPtr \in SlotIdx /\ enqPtr \in SlotIdx
  BY LeadIsSentNotTaken DEF IInv, TypeOK, MatrixTypeOK, QueueTypeOK, BatchOK
<1>2. PICK laps \in Int : enqPtr - deqPtr = Lead + laps * QueueSize
  BY DEF IInv, PointersFit
<1> DEFINE d == IF enqPtr >= deqPtr THEN enqPtr - deqPtr
                ELSE enqPtr - deqPtr + QueueSize
<1>3. d \in 0 .. QueueSize - 1
  BY <1>1 DEF SlotIdx
<1>4. d = Lead + laps * QueueSize \/ d = Lead + (laps + 1) * QueueSize
  <2>1. laps * QueueSize \in Int /\ (laps + 1) * QueueSize = laps * QueueSize + QueueSize
    OBVIOUS
  <2> QED  BY <1>1, <1>2, <2>1 DEF SlotIdx
<1>5. Age(deqPtr) = IF d = 0 THEN QueueSize ELSE d
  BY <1>1 DEF Age, SlotIdx
<1> HIDE DEF d
<1>6. Lead = d
  <2>1. Lead \in 0 .. QueueSize - 1
    BY <1>1
  <2>2. CASE d = Lead + laps * QueueSize
    BY <1>3, <2>1, <2>2, NoHiddenLap
  <2>3. CASE d = Lead + (laps + 1) * QueueSize
    <3>1. laps + 1 \in Int
      OBVIOUS
    <3> QED  BY <1>3, <2>1, <2>3, <3>1, NoHiddenLap
  <2> QED  BY <1>4, <2>2, <2>3
<1>7. content[deqPtr] = Latest(Sent - Age(deqPtr))
  BY <1>1 DEF StaleOK
<1>8. Lead > 0 => Sent - Age(deqPtr) = Taken
  BY <1>1, <1>3, <1>5, <1>6
<1>9. Lead = 0 => Sent - Age(deqPtr) = Taken - QueueSize
  BY <1>1, <1>3, <1>5, <1>6
<1> QED  BY <1>7, <1>8, <1>9

(* A sum that is right equals only an entry that is there.                 *)
LEMMA EqualMeansThere ==
  ASSUME IInv, StaleOK, Lead >= 0, DistinctLaps, crow < Rows, ccol < Cols,
         content[deqPtr] = PartialSum[crow][ccol + 1]
  PROVE  Lead > 0
<1> USE QueueSizeAssumption, MatrixAssumption
<1> SUFFICES ASSUME Lead = 0
             PROVE  FALSE
  BY LeadIsSentNotTaken DEF IInv
<1>1. crow \in RowIdx /\ ccol \in ColIdx
  BY DEF IInv, TypeOK, MatrixTypeOK, RowIdx, ColIdx
<1>2. Taken \in 0 .. Rows * Cols - 1 /\ Entry(Taken) = PartialSum[crow][ccol + 1]
  BY <1>1, EntryOf DEF Taken
<1>3. content[deqPtr] = Latest(Taken - QueueSize)
  BY NextSlotHolds
<1>4. PartialSum[crow][ccol + 1] # ALREADY_CONSUMED
  BY <1>1, PartialSumGrows
<1>5. Taken >= QueueSize /\ Entry(Taken - QueueSize) = Entry(Taken)
  BY <1>2, <1>3, <1>4 DEF Latest
<1>6. Taken \in QueueSize .. Rows * Cols - 1
  <2>1. Rows * Cols \in Int
    OBVIOUS
  <2> QED  BY <1>2, <1>5, <2>1
<1> QED  BY <1>5, <1>6 DEF DistinctLaps

LEMMA BehindPut ==
  ASSUME IInv, StaleOK, faults = 0, ~exited, prow < Rows, pcol < Cols,
         pcP \in {"fill", "rest"}, PutPartialSum, faults' = 0
  PROVE  /\ StaleOK'
         /\ Lead' = Lead + 1
<1> USE QueueSizeAssumption, MatrixAssumption
<1> USE DEF IInv, TypeOK, MatrixTypeOK, QueueTypeOK
<1>1. prow \in RowIdx /\ pcol \in ColIdx
  BY DEF RowIdx, ColIdx
<1>2. PICK e \in Sums :
        /\ SoftError(e)
        /\ pValue' = pValue + Product[prow][pcol] + e
        /\ Put(pValue + Product[prow][pcol] + e)
        /\ pcol' = pcol + 1
        /\ UNCHANGED <<prow, crow, ccol>>
  BY DEF PutPartialSum, consumerVars
<1>3. e = 0
  BY <1>2, FaultAssumption DEF SoftError
<1>4. pValue + Product[prow][pcol] + e = PartialSum[prow][pcol + 1]
  <2>1. pValue = PartialSum[prow][pcol]
    BY DEF HandoverInv, OneErrorOK, ProducerRight
  <2>2. Product[prow][pcol] \in Nat
    BY <1>1
  <2> QED  BY <1>1, <1>3, <2>1, <2>2, PartialSumGrows
<1>5. Sent \in Int /\ Sent >= 0 /\ Entry(Sent) = PartialSum[prow][pcol + 1]
  BY <1>1, EntryOf DEF Sent
<1>6. Sent' = Sent + 1
  <2>1. prow * Cols \in Int
    OBVIOUS
  <2> QED  BY <1>2, <2>1 DEF Sent
<1>7. content' = [content EXCEPT ![enqPtr] = Entry(Sent)]
  BY <1>2, <1>4, <1>5 DEF Put
<1>8. enqPtr' = IF enqPtr + 1 = QueueSize THEN 0 ELSE enqPtr + 1
  BY <1>2, NextSlotWraps DEF Put
<1>9. StaleOK'
  <2> SUFFICES ASSUME NEW s \in SlotIdx
               PROVE  content'[s] = Latest(Sent' - Age(s)')
    BY DEF StaleOK, Latest, Entry
  <2>1. CASE s = enqPtr
    <3>1. Age(s)' = 1
      BY <1>8, <2>1 DEF Age, SlotIdx
    <3>2. Sent' - Age(s)' = Sent
      BY <1>5, <1>6, <3>1
    <3> QED  BY <1>5, <1>7, <2>1, <3>2 DEF Latest
  <2>2. CASE s # enqPtr
    <3>1. Age(s)' = Age(s) + 1 /\ Age(s) \in Int
      BY <1>8, <2>2 DEF Age, SlotIdx
    <3>2. Sent' - Age(s)' = Sent - Age(s)
      BY <1>5, <1>6, <3>1
    <3> QED  BY <1>7, <2>2, <3>2 DEF StaleOK
  <2> QED  BY <2>1, <2>2
<1>10. Lead' = Lead + 1
  BY <1>2 DEF Lead, HandoverInv, RowsInStep
<1> QED  BY <1>9, <1>10

LEMMA BehindStep == IInv /\ BehindOK /\ [Next]_vars => BehindOK'
<1> SUFFICES ASSUME IInv, BehindOK, [Next]_vars, DistinctLaps, faults' = 0
             PROVE  Lead' >= 0 /\ (pcC' = "move" => Lead' > 0) /\ StaleOK'
  BY DEF BehindOK, DistinctLaps, Entry
<1> USE MatrixAssumption
<1>1. faults = 0
  BY FaultAssumption
  DEF IInv, TypeOK, MatrixTypeOK, Next, Ended, Producer, FillBatch, AwaitProgress,
      ExtendLimit, FillRest, PublishRowResult, RaiseCheck, StoreAndBeginRow,
      ProducerStoreResult, PutPartialSum, SoftError, Consumer,
      ConsumerCheckAndMoveImproved, CheckRow, CheckEntry, SpinExit, RereadEntry,
      MovePastEntry, AwaitRowResult, VerifyRowResult, ReleaseProducer,
      ConsumerStoreResult, vars, matrixVars
<1>2. /\ Lead >= 0 /\ Lead \in Int /\ StaleOK
      /\ pcC = "move" => Lead > 0
  BY <1>1, LeadIsSentNotTaken DEF BehindOK, IInv
<1>3. CASE ~exited /\ (FillBatch \/ FillRest)
  <2>1. /\ prow < Rows /\ pcol < Cols /\ PutPartialSum /\ ~exited
        /\ pcP \in {"fill", "rest"}
    BY <1>3 DEF FillBatch, FillRest, IInv, TypeOK, ControlOK, MatrixTypeOK, LimitOK
  <2>2. pcC' = pcC
    BY <2>1 DEF PutPartialSum, consumerVars
  <2>3. StaleOK' /\ Lead' = Lead + 1
    BY <1>1, <1>2, <2>1, BehindPut
  <2> QED  BY <1>2, <2>2, <2>3
<1>4. CASE ~exited /\ (AwaitProgress \/ ExtendLimit \/ PublishRowResult("rest")
                       \/ RaiseCheck \/ StoreAndBeginRow)
  <2>1. UNCHANGED <<content, enqPtr, crow, ccol, pcC>>
    BY <1>4 DEF AwaitProgress, ExtendLimit, PublishRowResult, RaiseCheck,
                StoreAndBeginRow, ProducerStoreResult, queueVars, consumerVars
  <2>2. Sent' = Sent /\ Lead' = Lead
    <3>1. CASE UNCHANGED <<prow, pcol>>
      BY <2>1, <3>1 DEF Sent, Lead
    <3>2. CASE StoreAndBeginRow
      <4>1. /\ pcP = "await" /\ checkState = 1 /\ pcol = Cols
            /\ prow' = prow + 1 /\ pcol' = 0
        BY <3>2 DEF StoreAndBeginRow, ProducerStoreResult, CheckDone, IInv,
                    TypeOK, ControlOK, MatrixTypeOK, QueueTypeOK
      <4>2. prow \in Int /\ crow \in Int /\ ccol \in Int /\ Cols \in Int
        BY DEF IInv, TypeOK, MatrixTypeOK
      <4>3. crow = prow + 1 \/ (crow = prow /\ ccol = Cols)
        BY <4>1, <4>2 DEF IInv, HandoverInv, RowsInStep, ControlOK
      <4>4. Lead' = Lead
        BY <2>1, <4>1, <4>2, <4>3 DEF Lead
      <4>5. prow * Cols \in Int /\ (prow + 1) * Cols = prow * Cols + Cols
        BY <4>2
      <4> QED  BY <4>1, <4>2, <4>4, <4>5 DEF Sent
    <3> QED
      BY <1>4, <3>1, <3>2
      DEF AwaitProgress, ExtendLimit, PublishRowResult, RaiseCheck
  <2>3. StaleOK'
    BY <1>2, <2>1, <2>2 DEF StaleOK, Age, Latest, Entry
  <2> QED  BY <1>2, <2>1, <2>2, <2>3
<1>5. CASE Consumer
  <2>1. ConsumerCheckAndMoveImproved \/ CheckRow
    BY <1>5 DEF Consumer
  <2>2. UNCHANGED <<content, enqPtr, prow, pcol>>
    BY <2>1
    DEF ConsumerCheckAndMoveImproved, CheckRow, CheckEntry, SpinExit, RereadEntry,
        MovePastEntry, AwaitRowResult, VerifyRowResult, ReleaseProducer,
        ConsumerStoreResult, queueVars, producerVars
  <2>3. StaleOK'
    BY <1>2, <2>2 DEF StaleOK, Age, Latest, Entry, Sent
  <2>4. CASE MovePastEntry
    <3>1. pcC = "move" /\ ccol' = ccol + 1 /\ crow' = crow /\ pcC' # "move"
      BY <2>4 DEF MovePastEntry
    <3>2. Lead' = Lead - 1
      BY <2>2, <3>1 DEF Lead, IInv, TypeOK, MatrixTypeOK, HandoverInv, RowsInStep
    <3> QED  BY <1>2, <2>3, <3>1, <3>2
  <2>5. CASE ~MovePastEntry
    <3>1. Lead' = Lead
      BY <1>5, <2>5, ConsumerOK
    <3>2. pcC' = "move" => Lead > 0
      <4> SUFFICES ASSUME pcC' = "move", pcC # "move"
                   PROVE  Lead > 0
        BY <1>2
      <4>1. CheckEntry("move") \/ RereadEntry("move")
        BY <2>1, <2>5
        DEF ConsumerCheckAndMoveImproved, CheckRow, SpinExit, AwaitRowResult,
            VerifyRowResult, ReleaseProducer, ConsumerStoreResult
      <4>2. cValue' = content[deqPtr] /\ pcC \in {"check", "reread"}
        BY <4>1 DEF CheckEntry, RereadEntry, Compare
      <4>3. UNCHANGED <<crow, ccol>> /\ crow < Rows /\ ccol < Cols
        BY <4>1, <4>2 DEF CheckEntry, RereadEntry, IInv, TypeOK, MatrixTypeOK, ControlOK
      <4>4. cValue' = PartialSum[crow][ccol + 1]
        <5>1. ConsumerRight
          BY <1>1, <1>5 DEF Consumer, IInv, HandoverInv, OneErrorOK
        <5>2. CASE CheckEntry("move")
          <6>1. cValue = PartialSum[crow][ccol] /\ cValue \in Int
            BY <4>3, <5>1, <5>2 DEF CheckEntry, ConsumerRight, IInv, TypeOK, MatrixTypeOK
          <6>2. PICK e \in Sums : SoftError(e) /\ cValue' = cValue + Product[crow][ccol] + e
            BY <5>2 DEF CheckEntry
          <6>3. crow \in RowIdx /\ ccol \in ColIdx /\ faults \in 0 .. MaxFaults
            BY <4>3 DEF RowIdx, ColIdx, IInv, TypeOK, MatrixTypeOK
          <6>4. faults' = faults
            BY <1>1
          <6> QED  BY <6>1, <6>2, <6>3, <6>4, AddedProduct
        <5>3. CASE RereadEntry("move")
          BY <4>3, <5>1, <5>3 DEF RereadEntry, ConsumerRight
        <5> QED  BY <4>1, <5>2, <5>3
      <4> QED  BY <1>2, <4>2, <4>3, <4>4, EqualMeansThere
    <3> QED  BY <1>2, <2>3, <3>1, <3>2
  <2> QED  BY <2>4, <2>5
<1>6. CASE UNCHANGED vars
  BY <1>2, <1>6
  DEF vars, matrixVars, queueVars, producerVars, consumerVars, Lead, StaleOK, Age,
      Latest, Sent, Entry
<1> QED  BY <1>3, <1>4, <1>5, <1>6 DEF Next, Producer, Ended

(* Unless a slot held the same value a lap before, or a soft error strikes,*)
(* the consumer, which does not wait for an entry, takes none too early.   *)
THEOREM ImprovedConsumerBehind == Spec => []ConsumerBehind
<1>1. ASSUME IInv, BehindOK
      PROVE  ConsumerBehind
  BY <1>1, LeadIsSentNotTaken DEF ConsumerBehind, BehindOK, IInv
<1> QED  BY <1>1, InitOK, StepOK, BehindInit, BehindStep, PTL DEF Spec

-----------------------------------------------------------------------------
(* The handover of the row results, step by step.                          *)
LEMMA StepKeepsPromise ==
  IInv /\ IInv' /\ [Next]_vars => [Rows_!Next]_(Rows_!rowVars)
<1> SUFFICES ASSUME IInv, IInv', [Next]_vars
             PROVE  [Promise(TRUE)!Next]_(Promise(TRUE)!rowVars)
  BY DEF Promise!Next, Promise!rowVars, Promise!Strike, Promise!Alarm,
         Promise!Verify, Promise!Stored, Promise!StoreProducer,
         Promise!StoreConsumer, Promise!Admissible, Rows_!Next, Rows_!rowVars,
         Rows_!Strike, Rows_!Alarm, Rows_!Verify, Rows_!Stored,
         Rows_!StoreProducer, Rows_!StoreConsumer, Rows_!Admissible
<1>1. /\ MatrixTypeOK(ProducerControl) /\ MatrixTypeOK(ProducerControl)'
      /\ ControlOK /\ LimitOK /\ HandoverInv
  BY DEF IInv, TypeOK
<1>2. CASE ~exited /\ (FillBatch \/ FillRest)
  <2>1. PutPartialSum /\ pcP # "await" /\ pcol < Cols /\ prow < Rows
    BY <1>1, <1>2, MatrixAssumption
    DEF FillBatch, FillRest, LimitOK, MatrixTypeOK, ControlOK, IInv, TypeOK
  <2> QED  BY <1>1, <1>2, <2>1, PromisePut
<1>3. CASE ~exited /\ (PublishRowResult("rest") \/ RaiseCheck \/ StoreAndBeginRow)
  <2>1. PICK from \in {"fill", "rest"} :
          PublishRowResult(from) \/ RaiseCheck \/ ProducerStoreResult(from)
    BY <1>3 DEF StoreAndBeginRow
  <2> QED  BY <1>1, <1>3, <2>1, PromiseRowEnd
<1>4. CASE Consumer
  BY <1>1, <1>4, PromiseConsumer DEF Consumer
<1>5. CASE AwaitProgress \/ ExtendLimit \/ UNCHANGED vars
  BY <1>5
  DEF AwaitProgress, ExtendLimit, vars, matrixVars, queueVars, producerVars,
      consumerVars, Promise!rowVars
<1> QED  BY <1>2, <1>3, <1>4, <1>5 DEF Next, Producer, Ended

(* The mode that main runs, with its spurious alarms and its overtaking    *)
(* consumer: the threads store the rows in step, each only after its check,*)
(* and up to one soft error the stored values are right.                   *)
THEOREM ImprovedImplementsRows == Spec => ImplementsReplicatedRows
<1>1. Init => Rows_!Init
  BY DEF Init, MatrixInit, Rows_!Init, Rows_!RowIdx, RowIdx
<1> QED
  BY <1>1, Invariance, StepKeepsPromise, PTL
  DEF Spec, ImplementsReplicatedRows, Rows_!Spec

=============================================================================
