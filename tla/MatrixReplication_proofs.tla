---------------------- MODULE MatrixReplication_proofs -----------------------
(***************************************************************************)
(* What the actions of MatrixReplication keep, whichever way the producer  *)
(* fills the queue.  Three things, each resting on less than the one       *)
(* before:                                                                 *)
(*                                                                         *)
(* Sound: as long as no soft error struck, the running sums and the entries*)
(* are right.                                                              *)
(*                                                                         *)
(* InOrder: as long as no sum is ALREADY_CONSUMED, the queue is in order,  *)
(* whatever soft errors strike: the slots from deqPtr on hold the last Held*)
(* sums of the producer, every other slot is free.                         *)
(*                                                                         *)
(* HandoverInv: the handover of the row results does not depend on the     *)
(* queue; what it keeps, it keeps whatever soft errors strike, and it makes*)
(* the threads implement ReplicatedRows.                                   *)
(***************************************************************************)
EXTENDS MatrixReplication, TLAPS

(* The rows of the threads and the control fit together.                   *)
ControlOK ==
  /\ pcP = "done" <=> prow = Rows
  /\ pcP \in {"raise", "await"} => pcol = Cols
  /\ pcC = "done" <=> crow = Rows
  /\ pcC \in {"check", "spin", "reread", "mark", "move"} => ccol < Cols
  /\ pcC \in {"await", "verify", "release", "store"} => ccol = Cols

(* The entries that the consumer has not moved past.                       *)
Held == IF prow = crow THEN pcol - ccol
        ELSE IF prow = crow + 1 THEN pcol
        ELSE 0

(* The distance of a slot from deqPtr, round the ring.                     *)
Dist(s) == IF s >= deqPtr THEN s - deqPtr ELSE s - deqPtr + QueueSize

PointersOK ==
  /\ Held \in 0 .. QueueSize
  /\ enqPtr = IF deqPtr + Held < QueueSize THEN deqPtr + Held
                                           ELSE deqPtr + Held - QueueSize

(* A thread is one row ahead only between the check of a row result and    *)
(* the store of it by the other thread.                                    *)
LockstepOK ==
  /\ prow \in {crow - 1, crow, crow + 1}
  /\ prow = crow + 1 => pcC = "store"
  /\ crow = prow + 1 => /\ pcP = "await" /\ checkState = 1
                        /\ ccol = 0 /\ pcC \in {"check", "spin", "done"}
  /\ checkState = 0 => pcP = "await"
  /\ pcP = "await" /\ checkState = 1 =>
       crow = prow + 1 \/ (crow = prow /\ pcC = "store")
  /\ pcC = "store" /\ crow = prow => pcP = "await" /\ checkState = 1
  /\ pcC \in {"verify", "release"} => checkState = 0
  /\ pcC \in {"reread", "mark", "move"} => prow = crow /\ Held > 0

(* The slots that hold an entry: the marked one does not any more.         *)
Filled(s) == Dist(s) < Held /\ ~(pcC = "move" /\ s = deqPtr)

SlotsOK == \A s \in SlotIdx : Filled(s) <=> content[s] # ALREADY_CONSUMED

InOrder == PointersOK /\ LockstepOK /\ SlotsOK

(* No running sum is the mark of a free slot.  Only a soft error can make  *)
(* one that is; such a sum would be an entry that looks like a free slot.  *)
NoMarker == pValue # ALREADY_CONSUMED /\ cValue # ALREADY_CONSUMED

(* The entries are the partial sums of the producer's row, in order.       *)
EntriesOK ==
  \A s \in SlotIdx :
    Filled(s) => content[s] = PartialSum[prow][pcol - Held + Dist(s) + 1]

(* The running sums, and the row result under check, are right.            *)
ValuesOK ==
  /\ pValue = IF prow < Rows THEN PartialSum[prow][pcol] ELSE 0
  /\ cValue = IF crow < Rows
              THEN PartialSum[crow][IF pcC \in {"spin", "reread", "mark", "move"}
                                    THEN ccol + 1 ELSE ccol]
              ELSE 0
  /\ pcP = "raise" \/ checkState = 0 =>
       volatileValue = PartialSum[prow][Cols]

Sound == ~exited /\ EntriesOK /\ ValuesOK

-----------------------------------------------------------------------------
(* The ring and the partial sums.                                          *)

(* The slot after a slot, without the modulo.                              *)
LEMMA NextSlotWraps ==
  ASSUME NEW s \in SlotIdx
  PROVE  /\ NextSlot(s) \in SlotIdx
         /\ NextSlot(s) = IF s + 1 = QueueSize THEN 0 ELSE s + 1
  BY QueueSizeAssumption, SMT DEF NextSlot, SlotIdx

(* A partial sum extends the one before and is never ALREADY_CONSUMED.     *)
LEMMA PartialSumGrows ==
  ASSUME NEW i \in RowIdx, NEW j \in ColIdx
  PROVE  /\ PartialSum[i][j] \in Nat
         /\ PartialSum[i][j + 1] \in Nat
         /\ PartialSum[i][j + 1] = PartialSum[i][j] + Product[i][j]
         /\ PartialSum[i][j + 1] # ALREADY_CONSUMED
<1>1. PartialSum[i] \in [0 .. Cols -> Nat] /\ Product[i][j] \in Nat \ {0}
  BY MatrixAssumption
<1>2. j \in 0 .. Cols /\ j + 1 \in 0 .. Cols
  BY MatrixAssumption DEF ColIdx
<1>3. PartialSum[i][j + 1] = PartialSum[i][j] + Product[i][j]
  BY MatrixAssumption
<1>4. PartialSum[i][j] \in Nat /\ PartialSum[i][j + 1] \in Nat
  BY <1>1, <1>2
<1> QED  BY <1>3, <1>4 DEF ALREADY_CONSUMED

(* Right sums are never ALREADY_CONSUMED, here those after a step.         *)
LEMMA RightIsNoMarker ==
  ASSUME NEW Control, MatrixTypeOK(Control)', ControlOK', ValuesOK'
  PROVE  NoMarker'
<1>1. \A i \in RowIdx : \A j \in 0 .. Cols : PartialSum[i][j] \in Nat
  BY MatrixAssumption
<1>2. /\ Rows \in Nat /\ Cols \in Nat
      /\ prow' \in 0 .. Rows /\ pcol' \in 0 .. Cols
      /\ crow' \in 0 .. Rows /\ ccol' \in 0 .. Cols
      /\ pcC' \in {"spin", "reread", "mark", "move"} => ccol' < Cols
  BY MatrixAssumption DEF MatrixTypeOK, ControlOK
<1>3. pValue' \in Nat
  <2>1. ASSUME prow' < Rows
        PROVE  prow' \in RowIdx
    BY <1>2, <2>1 DEF RowIdx
  <2> QED  BY <1>1, <1>2, <2>1 DEF ValuesOK
<1>4. cValue' \in Nat
  <2> DEFINE j == IF pcC' \in {"spin", "reread", "mark", "move"}
                  THEN ccol' + 1 ELSE ccol'
  <2>a. \A k \in 0 .. Cols : k < Cols => k + 1 \in 0 .. Cols
    BY <1>2
  <2>1. j \in 0 .. Cols
    BY <1>2, <2>a, Zenon
  <2>2. ASSUME crow' < Rows
        PROVE  crow' \in RowIdx
    BY <1>2, <2>2 DEF RowIdx
  <2>3. cValue' = IF crow' < Rows THEN PartialSum[crow'][j] ELSE 0
    BY DEF ValuesOK
  <2> HIDE DEF j
  <2> QED  BY <1>1, <2>1, <2>2, <2>3
<1> QED  BY <1>3, <1>4 DEF NoMarker, ALREADY_CONSUMED

(* A step that moves no pointer and no column and touches no slot.         *)
LEMMA QueueUnmoved ==
  ASSUME UNCHANGED <<content, enqPtr, deqPtr, prow, pcol, crow, ccol>>,
         pcC = "move" <=> pcC' = "move"
  PROVE  /\ Held' = Held
         /\ PointersOK => PointersOK'
         /\ SlotsOK => SlotsOK'
         /\ EntriesOK => EntriesOK'
<1>1. Held' = Held
  BY DEF Held
<1>2. \A s : Dist(s)' = Dist(s) /\ (Filled(s)' <=> Filled(s))
  BY <1>1 DEF Dist, Filled
<1>3. PointersOK => PointersOK'
  BY <1>1 DEF PointersOK
<1>4. SlotsOK => SlotsOK'
  BY <1>2 DEF SlotsOK
<1>5. EntriesOK => EntriesOK'
  BY <1>1, <1>2 DEF EntriesOK
<1> QED  BY <1>1, <1>3, <1>4, <1>5

-----------------------------------------------------------------------------
(* Types and control.                                                      *)

(* The initial state is well typed and sound.                              *)
LEMMA MatrixInitOK ==
  ASSUME NEW Control, NEW start \in Control,
         start \notin {"done", "raise", "await"}, MatrixInit(start)
  PROVE  MatrixTypeOK(Control) /\ ControlOK /\ InOrder /\ Sound
<1> USE MatrixAssumption, FaultAssumption, QueueSizeAssumption
<1> USE DEF MatrixInit, SimpleSyncQueue_Init
<1>1. MatrixTypeOK(Control)
  <2>1. QueueTypeOK
    BY DEF QueueTypeOK, SlotIdx, ALREADY_CONSUMED
  <2>2. /\ prow \in 0 .. Rows /\ pcol \in 0 .. Cols /\ pValue \in Int
        /\ crow \in 0 .. Rows /\ ccol \in 0 .. Cols /\ cValue \in Int
        /\ faults \in 0 .. MaxFaults /\ pcC \in ConsumerControl
    BY DEF ConsumerControl
  <2>3. /\ producerVectorResult \in [RowIdx -> Int \cup {NoResult}]
        /\ consumerVectorResult \in [RowIdx -> Int \cup {NoResult}]
    OBVIOUS
  <2> QED  BY <2>1, <2>2, <2>3 DEF MatrixTypeOK
<1>2. ControlOK
  BY DEF ControlOK
<1>3. InOrder
  <2>1. PointersOK /\ LockstepOK
    BY DEF PointersOK, LockstepOK, Held
  <2>2. \A s \in SlotIdx : ~Filled(s)
    BY DEF Filled, Held, Dist, SlotIdx
  <2>3. SlotsOK
    BY <2>2 DEF SlotsOK
  <2> QED  BY <2>1, <2>3 DEF InOrder
<1>4. Sound
  <2>1. EntriesOK
    BY DEF EntriesOK, Filled, Held, Dist, SlotIdx
  <2>2. ValuesOK
    BY DEF ValuesOK, RowIdx
  <2> QED  BY <2>1, <2>2 DEF Sound
<1> QED  BY <1>1, <1>2, <1>3, <1>4

(* The consumer keeps the types and the control.                           *)
LEMMA ConsumerTypeOK ==
  ASSUME NEW Control, MatrixTypeOK(Control), ControlOK,
         ConsumerCheckAndMove \/ ConsumerCheckAndMoveImproved \/ CheckRow
  PROVE  MatrixTypeOK(Control)' /\ ControlOK'
<1> USE MatrixAssumption, FaultAssumption, QueueSizeAssumption
<1> USE DEF MatrixTypeOK, QueueTypeOK, ControlOK, ConsumerControl,
            queueVars, producerVars, consumerVars
<1>1. ASSUME NEW match \in {"mark", "move"}, CheckEntry(match)
      PROVE  MatrixTypeOK(Control)' /\ ControlOK'
  <2>1. PICK e \in Sums : SoftError(e) /\ cValue' = cValue + Product[crow][ccol] + e
    BY <1>1 DEF CheckEntry
  <2>2. faults' \in 0 .. MaxFaults
    BY <2>1 DEF SoftError
  <2>3. crow \in RowIdx /\ ccol \in ColIdx
    BY <1>1 DEF CheckEntry, RowIdx, ColIdx
  <2>4. Product[crow][ccol] \in Int /\ e \in Int
    BY <2>3 DEF Sums
  <2>5. cValue' \in Int
    BY <2>1, <2>4
  <2>6. pcC' \in {"spin", match, "check"} /\ exited' \in BOOLEAN
    BY <1>1 DEF CheckEntry, Compare
  <2> QED  BY <1>1, <2>2, <2>5, <2>6 DEF CheckEntry
<1>2. CASE SpinExit
  BY <1>2 DEF SpinExit
<1>3. ASSUME NEW match \in {"mark", "move"}, RereadEntry(match)
      PROVE  MatrixTypeOK(Control)' /\ ControlOK'
  <2>1. pcC' \in {"reread", match} /\ exited' \in BOOLEAN
    BY <1>3 DEF RereadEntry, Compare
  <2> QED  BY <1>3, <2>1 DEF RereadEntry
<1>4. CASE MarkEntry
  BY <1>4 DEF MarkEntry, MarkConsumed, ALREADY_CONSUMED
<1>5. CASE MovePastEntry
  <2>1. deqPtr' \in SlotIdx
    BY <1>5, NextSlotWraps DEF MovePastEntry, MoveDeqPtr
  <2> QED  BY <1>5, <2>1 DEF MovePastEntry
<1>6. CASE AwaitRowResult
  BY <1>6 DEF AwaitRowResult
<1>7. CASE VerifyRowResult
  BY <1>7 DEF VerifyRowResult
<1>8. CASE ReleaseProducer
  BY <1>8 DEF ReleaseProducer
<1>9. CASE ConsumerStoreResult
  BY <1>9 DEF ConsumerStoreResult, RowIdx
<1> QED
  BY <1>1, <1>2, <1>3, <1>4, <1>5, <1>6, <1>7, <1>8, <1>9
  DEF ConsumerCheckAndMove, ConsumerCheckAndMoveImproved, CheckRow

-----------------------------------------------------------------------------
(* The consumer keeps the queue in order.  What is free or full is decided *)
(* by content, so a sum must not be the mark of a free slot.               *)

(* The slot at deqPtr holds the consumer's next entry, or is free when no  *)
(* entry is held.                                                          *)
LEMMA NextEntry ==
  ASSUME NEW Control, MatrixTypeOK(Control), ControlOK, InOrder,
         pcC \in {"check", "spin", "reread", "mark"}
  PROVE  /\ crow \in RowIdx /\ ccol \in ColIdx
         /\ Held > 0 <=> content[deqPtr] # ALREADY_CONSUMED
         /\ Held > 0 => prow = crow
         /\ Held > 0 /\ EntriesOK => content[deqPtr] = PartialSum[crow][ccol + 1]
<1> USE MatrixAssumption, QueueSizeAssumption
<1> USE DEF MatrixTypeOK, QueueTypeOK, ControlOK, InOrder
<1>1. crow \in RowIdx /\ ccol \in ColIdx
  BY SMTT(30) DEF RowIdx, ColIdx
<1>2. deqPtr \in SlotIdx /\ Dist(deqPtr) = 0
  BY DEF Dist, SlotIdx
<1>3. Held > 0 <=> Filled(deqPtr)
  BY <1>2 DEF Filled, PointersOK
<1>4. Held > 0 <=> content[deqPtr] # ALREADY_CONSUMED
  BY <1>2, <1>3 DEF SlotsOK
<1>5. Held > 0 => prow = crow /\ pcol - Held = ccol
  BY DEF Held, LockstepOK
<1>6. ASSUME Held > 0, EntriesOK
      PROVE  content[deqPtr] = PartialSum[crow][ccol + 1]
  <2>1. content[deqPtr] = PartialSum[prow][pcol - Held + Dist(deqPtr) + 1]
    BY <1>2, <1>3, <1>6 DEF EntriesOK
  <2>2. pcol - Held + Dist(deqPtr) + 1 = ccol + 1
    BY <1>2, <1>5, <1>6
  <2> QED  BY <1>5, <1>6, <2>1, <2>2
<1> QED  BY <1>1, <1>4, <1>5, <1>6

(* The consumer waits where no entry is, and compares where one is.        *)
LEMMA CheckEntryOrder ==
  ASSUME NEW Control, MatrixTypeOK(Control), ControlOK, InOrder,
         CheckEntry("mark"), cValue' # ALREADY_CONSUMED
  PROVE  InOrder'
<1>1. pcC = "check"
  BY DEF CheckEntry
<1>2. /\ Held > 0 <=> content[deqPtr] # ALREADY_CONSUMED
      /\ Held > 0 => prow = crow
  BY <1>1, NextEntry
<1>3. \/ pcC' \in {"check", "spin"}
      \/ pcC' = "mark" /\ Held > 0 /\ prow = crow
  BY <1>1, <1>2 DEF CheckEntry, Compare
<1>4. UNCHANGED <<content, enqPtr, deqPtr, checkState, pcP, prow, pcol, crow, ccol>>
  BY DEF CheckEntry, queueVars, producerVars
<1>5. PointersOK' /\ SlotsOK' /\ Held' = Held
  <2>1. pcC = "move" <=> pcC' = "move"
    BY <1>1, <1>3
  <2> QED  BY <1>4, <2>1, QueueUnmoved DEF InOrder
<1>6. LockstepOK'
  BY <1>1, <1>3, <1>4, <1>5 DEF InOrder, LockstepOK
<1> QED  BY <1>5, <1>6 DEF InOrder

(* The consumer's wait ends when an entry is there; the second comparison, *)
(* and the steps of the check of a row result but the last, move nothing.  *)
LEMMA CheckOrder ==
  ASSUME NEW Control, MatrixTypeOK(Control), ControlOK, InOrder,
         \/ SpinExit \/ RereadEntry("mark") \/ AwaitRowResult
         \/ VerifyRowResult \/ ReleaseProducer
  PROVE  InOrder'
<1>1. UNCHANGED <<content, enqPtr, deqPtr, pcP, prow, pcol, crow, ccol>>
  BY DEF SpinExit, RereadEntry, AwaitRowResult, VerifyRowResult,
         ReleaseProducer, queueVars, producerVars
<1>2. /\ checkState \in {0, 1}
      /\ \/ pcC = "spin" /\ pcC' = "reread" /\ checkState' = checkState
         \/ pcC = "reread" /\ pcC' \in {"reread", "mark"} /\ checkState' = checkState
         \/ pcC = "await" /\ pcC' = "verify" /\ checkState = 0 /\ checkState' = 0
         \/ pcC = "verify" /\ pcC' \in {"verify", "release"} /\ checkState' = checkState
         \/ pcC = "release" /\ pcC' = "store" /\ checkState' = 1
  BY DEF SpinExit, RereadEntry, Compare, AwaitRowResult, VerifyRowResult,
         ReleaseProducer, queueVars, MatrixTypeOK, QueueTypeOK
<1>3. PointersOK' /\ SlotsOK' /\ Held' = Held
  <2>1. pcC = "move" <=> pcC' = "move"
    BY <1>2
  <2> QED  BY <1>1, <2>1, QueueUnmoved DEF InOrder
<1>4. SpinExit => prow = crow /\ Held > 0
  BY NextEntry DEF SpinExit
<1>5. LockstepOK'
  <2>1. CASE pcC = "release"
    BY <1>1, <1>2, <2>1 DEF InOrder, LockstepOK, MatrixTypeOK
  <2>2. CASE pcC = "spin"
    <3>1. prow = crow /\ Held > 0
      BY <1>4, <2>2 DEF RereadEntry, AwaitRowResult, VerifyRowResult, ReleaseProducer
    <3> QED  BY <1>1, <1>2, <1>3, <2>2, <3>1 DEF InOrder, LockstepOK
  <2>3. CASE pcC \in {"reread", "await", "verify"}
    BY <1>1, <1>2, <1>3, <2>3 DEF InOrder, LockstepOK
  <2> QED  BY <1>2, <2>1, <2>2, <2>3
<1> QED  BY <1>3, <1>5 DEF InOrder

(* Freeing a slot changes the slot at deqPtr only.                         *)
LEMMA MarkEntryOrder ==
  ASSUME NEW Control, MatrixTypeOK(Control), ControlOK, InOrder, MarkEntry
  PROVE  /\ InOrder'
         /\ EntriesOK => EntriesOK'
<1> USE DEF MatrixTypeOK, QueueTypeOK, InOrder
<1>1. pcC = "mark" /\ pcC' = "move"
  BY DEF MarkEntry
<1>2. UNCHANGED <<enqPtr, deqPtr, checkState, pcP, prow, pcol, crow, ccol>>
  BY DEF MarkEntry, producerVars
<1>3. PointersOK' /\ Held' = Held
  BY <1>2 DEF PointersOK, Held
<1>4. LockstepOK'
  BY <1>1, <1>2, <1>3 DEF LockstepOK
<1>5. \A s : Dist(s)' = Dist(s) /\ (Filled(s)' <=> Filled(s) /\ s # deqPtr)
  BY <1>1, <1>2, <1>3 DEF Dist, Filled
<1>6. \A s \in SlotIdx :
        content'[s] = IF s = deqPtr THEN ALREADY_CONSUMED ELSE content[s]
  BY DEF MarkEntry, MarkConsumed
<1>7. SlotsOK'
  BY <1>5, <1>6 DEF SlotsOK
<1>8. EntriesOK => EntriesOK'
  BY <1>2, <1>3, <1>5, <1>6 DEF EntriesOK
<1> QED  BY <1>3, <1>4, <1>7, <1>8

(* Moving deqPtr past a freed slot: one entry less is held, and every slot *)
(* is one closer to deqPtr.                                                *)
LEMMA MovePastEntryOrder ==
  ASSUME NEW Control, MatrixTypeOK(Control), ControlOK, InOrder, MovePastEntry
  PROVE  /\ InOrder'
         /\ EntriesOK => EntriesOK'
<1> USE MatrixAssumption, QueueSizeAssumption
<1> USE DEF MatrixTypeOK, QueueTypeOK, InOrder
<1>1. /\ pcC = "move" /\ ccol < Cols /\ ccol' = ccol + 1
      /\ pcC' = IF ccol + 1 = Cols THEN "await" ELSE "check"
  BY DEF MovePastEntry, ControlOK
<1>2. UNCHANGED <<content, enqPtr, checkState, pcP, prow, pcol, crow>>
  BY DEF MovePastEntry, producerVars
<1>3. deqPtr' = IF deqPtr + 1 = QueueSize THEN 0 ELSE deqPtr + 1
  BY NextSlotWraps DEF MovePastEntry, MoveDeqPtr
<1>4. prow = crow /\ Held > 0 /\ Held' = Held - 1
  BY <1>1, <1>2 DEF LockstepOK, Held
<1>5. PointersOK'
  BY <1>2, <1>3, <1>4 DEF PointersOK, SlotIdx
<1>6. LockstepOK'
  BY <1>1, <1>2, <1>4 DEF LockstepOK
<1>7. ASSUME NEW s \in SlotIdx
      PROVE  /\ Filled(s)' <=> Filled(s)
             /\ Filled(s) => Dist(s)' = Dist(s) - 1
             /\ Dist(s) \in Int
  <2>1. Dist(s) \in Int /\ Held \in Int
    BY DEF Dist, SlotIdx, PointersOK
  <2>2. Filled(s)' <=> Dist(s)' < Held'
    BY <1>1 DEF Filled
  <2>3. CASE s = deqPtr
    <3>1. ~Filled(s)
      BY <1>1, <2>3 DEF Filled
    <3>2. Dist(s)' = QueueSize - 1
      BY <1>3, <2>3 DEF Dist, SlotIdx
    <3>3. ~(Dist(s)' < Held')
      BY <1>4, <3>2 DEF PointersOK
    <3> QED  BY <2>1, <2>2, <3>1, <3>3
  <2>4. CASE s # deqPtr
    <3>1. Dist(s)' = Dist(s) - 1
      BY <1>3, <2>4 DEF Dist, SlotIdx
    <3>2. Dist(s)' < Held' <=> Dist(s) < Held
      BY <1>4, <2>1, <3>1
    <3> QED  BY <2>1, <2>2, <2>4, <3>1, <3>2 DEF Filled
  <2> QED  BY <2>3, <2>4
<1>8. SlotsOK'
  BY <1>2, <1>7 DEF SlotsOK
<1>9. ASSUME EntriesOK, NEW s \in SlotIdx, Filled(s)'
      PROVE  content'[s] = PartialSum[prow][pcol - Held' + Dist(s)' + 1]
  <2>1. content[s] = PartialSum[prow][pcol - Held + Dist(s) + 1]
    BY <1>7, <1>9 DEF EntriesOK
  <2>2. pcol - Held' + Dist(s)' + 1 = pcol - Held + Dist(s) + 1
    BY <1>4, <1>7, <1>9 DEF PointersOK
  <2> QED  BY <1>2, <2>1, <2>2
<1>10. EntriesOK => EntriesOK'
  BY <1>2, <1>9 DEF EntriesOK
<1> QED  BY <1>5, <1>6, <1>8, <1>10

(* The next row of the consumer begins with what the producer put of it.   *)
LEMMA ConsumerStoreOrder ==
  ASSUME NEW Control, MatrixTypeOK(Control), ControlOK, InOrder,
         ConsumerStoreResult
  PROVE  /\ InOrder'
         /\ EntriesOK => EntriesOK'
<1> USE MatrixAssumption, QueueSizeAssumption
<1> USE DEF MatrixTypeOK, QueueTypeOK, InOrder
<1>1. /\ pcC = "store" /\ crow' = crow + 1 /\ ccol' = 0
      /\ pcC' = IF crow + 1 = Rows THEN "done" ELSE "check"
      /\ UNCHANGED <<content, enqPtr, deqPtr, checkState, pcP, prow, pcol>>
  BY DEF ConsumerStoreResult, queueVars, producerVars
<1>2. \/ prow = crow /\ pcol = Cols /\ pcP = "await" /\ checkState = 1
      \/ prow = crow + 1
  BY <1>1 DEF LockstepOK, ControlOK
<1>3. Held' = Held
  BY <1>1, <1>2 DEF Held, ControlOK
<1>4. PointersOK'
  BY <1>1, <1>3 DEF PointersOK
<1>5. LockstepOK'
  BY <1>1, <1>2, <1>3 DEF LockstepOK
<1>6. \A s : Dist(s)' = Dist(s) /\ (Filled(s)' <=> Filled(s))
  BY <1>1, <1>3 DEF Dist, Filled
<1>7. SlotsOK'
  BY <1>1, <1>6 DEF SlotsOK
<1>8. EntriesOK => EntriesOK'
  BY <1>1, <1>3, <1>6 DEF EntriesOK
<1> QED  BY <1>4, <1>5, <1>7, <1>8

(* Every step of the consumer that frees its slots.                        *)
LEMMA ConsumerOrder ==
  ASSUME NEW Control, MatrixTypeOK(Control), ControlOK, InOrder,
         ConsumerCheckAndMove \/ CheckRow, NoMarker'
  PROVE  InOrder'
<1>1. cValue' # ALREADY_CONSUMED
  BY DEF NoMarker
<1> QED
  BY <1>1, CheckEntryOrder, CheckOrder, MarkEntryOrder, MovePastEntryOrder,
     ConsumerStoreOrder
  DEF ConsumerCheckAndMove, CheckRow

-----------------------------------------------------------------------------
(* The consumer keeps sums and entries right: an entry that is there has   *)
(* the value the consumer computed, and no comparison fails.               *)

(* The comparison of an entry cannot fail.                                 *)
LEMMA CheckEntrySound ==
  ASSUME NEW Control, MatrixTypeOK(Control), ControlOK, InOrder, Sound,
         CheckEntry("mark"), faults' = 0
  PROVE  Sound'
<1> USE MatrixAssumption, QueueSizeAssumption
<1> USE DEF MatrixTypeOK, QueueTypeOK, Sound
<1>1. pcC = "check"
  BY DEF CheckEntry
<1>2. /\ crow \in RowIdx /\ ccol \in ColIdx
      /\ Held > 0 <=> content[deqPtr] # ALREADY_CONSUMED
      /\ Held > 0 => prow = crow /\ content[deqPtr] = PartialSum[crow][ccol + 1]
  BY <1>1, NextEntry
<1>3. cValue' = PartialSum[crow][ccol + 1]
  <2>1. PICK e \in Sums : SoftError(e) /\ cValue' = cValue + Product[crow][ccol] + e
    BY DEF CheckEntry
  <2>2. e = 0
    BY <2>1, FaultAssumption DEF SoftError
  <2>3. cValue = PartialSum[crow][ccol]
    BY <1>1, <1>2 DEF ValuesOK, RowIdx
  <2>4. Product[crow][ccol] \in Nat
    BY <1>2
  <2> QED  BY <1>2, <2>1, <2>2, <2>3, <2>4, PartialSumGrows
<1>4. PartialSum[crow][ccol + 1] # ALREADY_CONSUMED
  BY <1>2, PartialSumGrows
<1>5. pcC' \in {"spin", "mark"} /\ exited' = exited
  BY <1>1, <1>2, <1>3, <1>4 DEF CheckEntry, Compare
<1>6. /\ UNCHANGED <<content, enqPtr, deqPtr, checkState, volatileValue, pcP,
                      prow, pcol, pValue, crow, ccol>>
  BY DEF CheckEntry, queueVars, producerVars
<1>7. EntriesOK'
  <2>1. pcC = "move" <=> pcC' = "move"
    BY <1>1, <1>5
  <2> QED  BY <1>6, <2>1, QueueUnmoved
<1>8. ValuesOK'
  <2>1. crow < Rows
    BY <1>2 DEF RowIdx
  <2> QED  BY <1>3, <1>5, <1>6, <2>1 DEF ValuesOK
<1> QED  BY <1>5, <1>7, <1>8

(* Nor can the second comparison of an entry or the check of a row result. *)
LEMMA CheckSound ==
  ASSUME NEW Control, MatrixTypeOK(Control), ControlOK, InOrder, Sound,
         \/ SpinExit \/ RereadEntry("mark") \/ AwaitRowResult
         \/ VerifyRowResult \/ ReleaseProducer
  PROVE  Sound'
<1> USE MatrixAssumption, QueueSizeAssumption
<1> USE DEF MatrixTypeOK, QueueTypeOK, Sound
<1>1. UNCHANGED <<content, enqPtr, deqPtr, volatileValue, pcP, prow, pcol, pValue,
                  crow, ccol, cValue>>
  BY DEF SpinExit, RereadEntry, AwaitRowResult, VerifyRowResult,
         ReleaseProducer, queueVars, producerVars
<1>2. ASSUME RereadEntry("mark")
      PROVE  content[deqPtr] = cValue'
  <2>1. pcC = "reread" /\ Held > 0
    BY <1>2 DEF RereadEntry, InOrder, LockstepOK
  <2>2. crow \in RowIdx /\ content[deqPtr] = PartialSum[crow][ccol + 1]
    BY <2>1, NextEntry
  <2>3. crow < Rows
    BY <2>2 DEF RowIdx
  <2> QED  BY <1>1, <2>1, <2>2, <2>3 DEF ValuesOK
<1>3. ASSUME VerifyRowResult
      PROVE  cValue = volatileValue
  <2>1. pcC = "verify" /\ checkState = 0 /\ prow = crow /\ crow < Rows /\ ccol = Cols
    BY <1>3 DEF VerifyRowResult, InOrder, LockstepOK, ControlOK
  <2> QED  BY <2>1 DEF ValuesOK
<1>4. /\ exited' = exited
      /\ \/ /\ pcC \in {"spin", "reread"} /\ pcC' \in {"reread", "mark"}
            /\ checkState' = checkState
         \/ /\ pcC \in {"await", "verify"} /\ pcC' \in {"verify", "release"}
            /\ checkState' = checkState
         \/ pcC = "release" /\ pcC' = "store" /\ checkState' = 1
  BY <1>2, <1>3 DEF SpinExit, RereadEntry, Compare, AwaitRowResult,
                    VerifyRowResult, ReleaseProducer, queueVars
<1>5. EntriesOK'
  <2>1. pcC = "move" <=> pcC' = "move"
    BY <1>4
  <2> QED  BY <1>1, <2>1, QueueUnmoved
<1>6. ValuesOK'
  <2>1. pcC \in {"spin", "reread", "mark", "move"}
          <=> pcC' \in {"spin", "reread", "mark", "move"}
    BY <1>4
  <2>2. checkState' = 0 => checkState = 0
    BY <1>4
  <2> QED  BY <1>1, <2>1, <2>2 DEF ValuesOK
<1> QED  BY <1>4, <1>5, <1>6

(* Freeing a slot, moving on, and the store of a row result.               *)
LEMMA MoveSound ==
  ASSUME NEW Control, MatrixTypeOK(Control), ControlOK, InOrder, Sound,
         MarkEntry \/ MovePastEntry \/ ConsumerStoreResult
  PROVE  Sound'
<1> USE MatrixAssumption DEF MatrixTypeOK, Sound
<1>1. EntriesOK'
  BY MarkEntryOrder, MovePastEntryOrder, ConsumerStoreOrder
<1>2. UNCHANGED <<checkState, volatileValue, pcP, prow, pcol, pValue, exited>>
  BY DEF MarkEntry, MovePastEntry, ConsumerStoreResult, queueVars, producerVars
<1>3. CASE MarkEntry \/ MovePastEntry
  <2>1. /\ crow' = crow /\ cValue' = cValue
        /\ \/ pcC = "mark" /\ pcC' = "move" /\ ccol' = ccol
           \/ pcC = "move" /\ pcC' \in {"await", "check"} /\ ccol' = ccol + 1
    BY <1>3 DEF MarkEntry, MovePastEntry
  <2> QED  BY <1>1, <1>2, <2>1 DEF ValuesOK
<1>4. CASE ConsumerStoreResult
  <2>1. /\ crow' = crow + 1 /\ ccol' = 0 /\ cValue' = 0
        /\ pcC' \in {"done", "check"}
    BY <1>4 DEF ConsumerStoreResult
  <2>2. crow' < Rows => PartialSum[crow'][0] = 0
    BY <2>1 DEF RowIdx
  <2> QED  BY <1>1, <1>2, <2>1, <2>2 DEF ValuesOK
<1> QED  BY <1>3, <1>4

(* Every step of the consumer that frees its slots.                        *)
LEMMA ConsumerSound ==
  ASSUME NEW Control, MatrixTypeOK(Control), ControlOK, InOrder, Sound,
         ConsumerCheckAndMove \/ CheckRow, faults' = 0
  PROVE  Sound'
BY CheckEntrySound, CheckSound, MoveSound DEF ConsumerCheckAndMove, CheckRow

-----------------------------------------------------------------------------
(* The consumer does not move the producer and undoes no soft error.       *)
LEMMA ConsumerLeaves ==
  ASSUME NEW Control, MatrixTypeOK(Control), ConsumerCheckAndMove \/ CheckRow
  PROVE  /\ UNCHANGED <<pcP, prow, pcol, pValue, producerVectorResult>>
         /\ faults' = 0 => faults = 0
<1>1. UNCHANGED <<pcP, prow, pcol, pValue, producerVectorResult>>
  BY DEF ConsumerCheckAndMove, CheckRow, CheckEntry, SpinExit, RereadEntry,
         MarkEntry, MovePastEntry, AwaitRowResult, VerifyRowResult,
         ReleaseProducer, ConsumerStoreResult, producerVars
<1>2. faults' = 0 => faults = 0
  BY DEF MatrixTypeOK, ConsumerCheckAndMove, CheckRow, CheckEntry, SoftError,
         SpinExit, RereadEntry, MarkEntry, MovePastEntry, AwaitRowResult,
         VerifyRowResult, ReleaseProducer, ConsumerStoreResult
<1> QED  BY <1>1, <1>2

(* The entries in the queue: the slot of a marked entry is free.           *)
Occupied == Held - (IF pcC = "move" THEN 1 ELSE 0)

(* The consumer never makes the queue fuller.                              *)
LEMMA ConsumerShrinksHeld ==
  ASSUME NEW Control, MatrixTypeOK(Control), ControlOK, InOrder,
         ConsumerCheckAndMove \/ CheckRow
  PROVE  /\ Held' \in {Held, Held - 1}
         /\ Occupied' \in {Occupied, Occupied - 1}
<1> USE DEF MatrixTypeOK, InOrder
<1>1. UNCHANGED <<prow, pcol>>
  BY ConsumerLeaves
<1>2. CASE MovePastEntry
  BY <1>1, <1>2 DEF MovePastEntry, Held, LockstepOK, Occupied
<1>3. CASE ConsumerStoreResult
  BY <1>1, <1>3, MatrixAssumption
  DEF ConsumerStoreResult, Held, LockstepOK, ControlOK, Occupied
<1>4. CASE MarkEntry
  <2>1. Held' = Held
    BY <1>1, <1>4 DEF MarkEntry, Held
  <2>2. pcC = "mark" /\ pcC' = "move"
    BY <1>4 DEF MarkEntry
  <2>3. Held \in Int
    BY QueueSizeAssumption DEF PointersOK
  <2> QED  BY <2>1, <2>2, <2>3 DEF Occupied
<1>5. ASSUME UNCHANGED <<crow, ccol>>, pcC # "move", pcC' # "move"
      PROVE  Held' = Held /\ Occupied' = Occupied
  BY <1>1, <1>5 DEF Held, Occupied
<1>6. /\ UNCHANGED <<crow, ccol>> /\ pcC # "move" /\ pcC' # "move"
      \/ MovePastEntry \/ ConsumerStoreResult \/ MarkEntry
  BY DEF ConsumerCheckAndMove, CheckRow, CheckEntry, Compare, SpinExit,
         RereadEntry, AwaitRowResult, VerifyRowResult, ReleaseProducer
<1> QED  BY <1>2, <1>3, <1>4, <1>5, <1>6

-----------------------------------------------------------------------------
(* The producer.                                                           *)

(* The producer's steps between two rows keep the types and the control.   *)
LEMMA ProducerTypeOK ==
  ASSUME NEW Control, MatrixTypeOK(Control), ControlOK,
         NEW from \in Control, from \notin {"done", "raise", "await"},
         {"done", "raise", "await"} \subseteq Control,
         PublishRowResult(from) \/ RaiseCheck \/ ProducerStoreResult(from)
  PROVE  MatrixTypeOK(Control)' /\ ControlOK'
<1> USE MatrixAssumption, FaultAssumption, QueueSizeAssumption
<1> USE DEF MatrixTypeOK, QueueTypeOK, ControlOK, queueVars, consumerVars
<1>1. CASE PublishRowResult(from)
  BY <1>1 DEF PublishRowResult
<1>2. CASE RaiseCheck
  BY <1>2 DEF RaiseCheck
<1>3. CASE ProducerStoreResult(from)
  BY <1>3 DEF ProducerStoreResult, RowIdx
<1> QED  BY <1>1, <1>2, <1>3

(* Putting a partial sum keeps the types, whatever the sum is.             *)
LEMMA PutTypeOK ==
  ASSUME NEW Control, MatrixTypeOK(Control), ControlOK,
         prow < Rows, pcol < Cols, PutPartialSum
  PROVE  /\ QueueTypeOK' /\ prow' \in 0 .. Rows /\ pcol' \in 0 .. Cols
         /\ pValue' \in Int /\ faults' \in 0 .. MaxFaults
         /\ UNCHANGED <<pcC, crow, ccol, cValue, producerVectorResult,
                        consumerVectorResult, exited>>
<1> USE MatrixAssumption, FaultAssumption, QueueSizeAssumption
<1> USE DEF MatrixTypeOK, QueueTypeOK
<1>1. PICK e \in Sums :
        /\ SoftError(e)
        /\ pValue' = pValue + Product[prow][pcol] + e
        /\ Put(pValue + Product[prow][pcol] + e)
        /\ pcol' = pcol + 1
        /\ UNCHANGED <<prow, producerVectorResult, deqPtr, checkState,
                       volatileValue, consumerVars, exited>>
  BY DEF PutPartialSum
<1>2. faults' \in 0 .. MaxFaults
  BY <1>1 DEF SoftError
<1>3. prow \in RowIdx /\ pcol \in ColIdx
  BY DEF RowIdx, ColIdx
<1>4. Product[prow][pcol] \in Int /\ e \in Int
  BY <1>3 DEF Sums
<1>5. pValue + Product[prow][pcol] + e \in Int
  BY <1>4
<1>6. enqPtr' \in SlotIdx
  BY <1>1, NextSlotWraps DEF Put
<1>7. content' \in [SlotIdx -> Int]
  BY <1>1, <1>5 DEF Put
<1> QED  BY <1>1, <1>2, <1>5, <1>6, <1>7 DEF consumerVars

(* A partial sum goes to the first slot behind the held entries; as long as*)
(* there is one, nothing is overwritten.                                   *)
LEMMA PutPlace ==
  ASSUME NEW Control, MatrixTypeOK(Control), ControlOK, InOrder,
         pcP \notin {"raise", "await", "done"},
         pcol < Cols, Held < QueueSize, PutPartialSum
  PROVE  /\ enqPtr \in SlotIdx /\ Dist(enqPtr) = Held /\ Held' = Held + 1
         /\ content[enqPtr] = ALREADY_CONSUMED
         /\ content' = [content EXCEPT ![enqPtr] = pValue']
         /\ \A s \in SlotIdx :
              Dist(s)' = Dist(s) /\ (Filled(s)' <=> Filled(s) \/ s = enqPtr)
<1> USE MatrixAssumption, QueueSizeAssumption
<1> USE DEF MatrixTypeOK, QueueTypeOK, InOrder
<1>1. /\ content' = [content EXCEPT ![enqPtr] = pValue']
      /\ pcol' = pcol + 1
      /\ UNCHANGED <<prow, deqPtr, pcC, crow, ccol>>
  BY DEF PutPartialSum, Put, consumerVars
<1>2. Held \in Int /\ Held >= 0 /\ Held' = Held + 1
  BY <1>1 DEF Held, LockstepOK, PointersOK
<1>3. Dist(enqPtr) = Held /\ ~(pcC = "move" /\ enqPtr = deqPtr)
  <2>1. Dist(enqPtr) = Held
    BY DEF Dist, PointersOK, SlotIdx
  <2>2. enqPtr = deqPtr => Held = 0
    BY DEF PointersOK, SlotIdx
  <2> QED  BY <2>1, <2>2 DEF LockstepOK
<1>4. \A s \in SlotIdx : s # enqPtr => Dist(s) \in Int /\ Dist(s) # Held
  BY <1>3 DEF Dist, SlotIdx
<1>5. \A s \in SlotIdx : Dist(s)' = Dist(s)
  BY <1>1 DEF Dist
<1>6. ASSUME NEW s \in SlotIdx
      PROVE  Filled(s)' <=> Filled(s) \/ s = enqPtr
  <2>1. Filled(s)' <=> Dist(s) < Held + 1 /\ ~(pcC = "move" /\ s = deqPtr)
    BY <1>1, <1>2, <1>5 DEF Filled
  <2>2. CASE s = enqPtr
    <3>1. Dist(s) < Held + 1
      BY <1>2, <1>3, <2>2
    <3> QED  BY <1>3, <2>1, <2>2, <3>1
  <2>3. CASE s # enqPtr
    <3>1. Dist(s) < Held + 1 <=> Dist(s) < Held
      BY <1>2, <1>4, <2>3
    <3> QED  BY <2>1, <2>3, <3>1 DEF Filled
  <2> QED  BY <2>2, <2>3
<1>7. content[enqPtr] = ALREADY_CONSUMED
  <2>1. ~(Dist(enqPtr) < Held)
    BY <1>2, <1>3
  <2> QED  BY <2>1 DEF SlotsOK, Filled
<1> QED  BY <1>1, <1>2, <1>3, <1>5, <1>6, <1>7

(* A sum other than the mark of a free slot leaves the queue in order.     *)
LEMMA PutOrder ==
  ASSUME NEW Control, MatrixTypeOK(Control), ControlOK, InOrder,
         pcP \notin {"raise", "await", "done"},
         pcP' \notin {"raise", "await", "done"},
         pcol < Cols, Held < QueueSize, PutPartialSum,
         pValue' # ALREADY_CONSUMED
  PROVE  InOrder'
<1> USE MatrixAssumption, QueueSizeAssumption
<1> USE DEF MatrixTypeOK, QueueTypeOK, InOrder
<1>1. /\ enqPtr \in SlotIdx /\ Held' = Held + 1
      /\ content' = [content EXCEPT ![enqPtr] = pValue']
      /\ \A s \in SlotIdx : Filled(s)' <=> Filled(s) \/ s = enqPtr
  BY PutPlace
<1>2. /\ enqPtr' = NextSlot(enqPtr)
      /\ UNCHANGED <<prow, deqPtr, checkState, pcC, crow, ccol>>
  BY DEF PutPartialSum, Put, consumerVars
<1>3. PointersOK'
  <2>1. enqPtr' = IF enqPtr + 1 = QueueSize THEN 0 ELSE enqPtr + 1
    BY <1>2, NextSlotWraps
  <2> QED  BY <1>1, <1>2, <2>1 DEF PointersOK, SlotIdx
<1>4. LockstepOK'
  <2>1. Held \in Int /\ (Held > 0 => Held + 1 > 0)
    BY DEF PointersOK
  <2> QED  BY <1>1, <1>2, <2>1 DEF LockstepOK
<1>5. \A s \in SlotIdx :
        content'[s] = IF s = enqPtr THEN pValue' ELSE content[s]
  BY <1>1
<1>6. SlotsOK'
  BY <1>1, <1>5 DEF SlotsOK
<1> QED  BY <1>3, <1>4, <1>6

(* The right sum goes to its place.                                        *)
LEMMA PutSound ==
  ASSUME NEW Control, MatrixTypeOK(Control), ControlOK, InOrder, Sound,
         pcP \notin {"raise", "await", "done"},
         pcP' \notin {"raise", "await", "done"},
         pcol < Cols, Held < QueueSize, PutPartialSum, faults' = 0
  PROVE  Sound'
<1> USE MatrixAssumption, QueueSizeAssumption
<1> USE DEF MatrixTypeOK, QueueTypeOK, Sound
<1>1. prow \in RowIdx /\ pcol \in ColIdx /\ prow < Rows
  BY DEF RowIdx, ColIdx, ControlOK
<1>2. PICK e \in Sums :
        /\ SoftError(e)
        /\ pValue' = pValue + Product[prow][pcol] + e
        /\ pcol' = pcol + 1
        /\ UNCHANGED <<prow, deqPtr, checkState, volatileValue, consumerVars,
                       exited>>
  BY DEF PutPartialSum
<1>3. pValue' = PartialSum[prow][pcol + 1]
  <2>1. e = 0
    BY <1>2, FaultAssumption DEF SoftError
  <2>2. pValue = PartialSum[prow][pcol]
    BY <1>1 DEF ValuesOK
  <2>3. Product[prow][pcol] \in Nat
    BY <1>1
  <2> QED  BY <1>1, <1>2, <2>1, <2>2, <2>3, PartialSumGrows
<1>4. /\ enqPtr \in SlotIdx /\ Dist(enqPtr) = Held /\ Held' = Held + 1
      /\ content' = [content EXCEPT ![enqPtr] = pValue']
      /\ \A s \in SlotIdx :
           Dist(s)' = Dist(s) /\ (Filled(s)' <=> Filled(s) \/ s = enqPtr)
  BY PutPlace
<1>a. Held \in Int
  BY DEF InOrder, PointersOK
<1>5. ASSUME NEW s \in SlotIdx, Filled(s)'
      PROVE  content'[s] = PartialSum[prow'][pcol' - Held' + Dist(s)' + 1]
  <2>1. Dist(s) \in Int
    BY DEF Dist, SlotIdx
  <2>2. pcol' - Held' + Dist(s)' + 1 = pcol - Held + Dist(s) + 1
    BY <1>2, <1>4, <1>a, <2>1
  <2>3. CASE s = enqPtr
    <3>1. content'[s] = PartialSum[prow][pcol + 1]
      BY <1>3, <1>4, <1>a, <2>3
    <3>2. pcol - Held + Dist(s) + 1 = pcol + 1
      BY <1>4, <1>a, <2>3
    <3> QED  BY <1>2, <2>2, <3>1, <3>2
  <2>4. CASE s # enqPtr
    <3>1. content'[s] = content[s] /\ Filled(s)
      BY <1>4, <1>a, <1>5, <2>4
    <3> QED  BY <1>2, <2>2, <3>1 DEF EntriesOK
  <2> QED  BY <2>3, <2>4
<1>6. EntriesOK'
  BY <1>5 DEF EntriesOK
<1>7. ValuesOK'
  <2>1. checkState # 0
    BY DEF InOrder, LockstepOK
  <2> QED  BY <1>1, <1>2, <1>3, <2>1 DEF ValuesOK, consumerVars
<1> QED  BY <1>2, <1>6, <1>7

(* The producer waits for a slot other than the one it fills.              *)
LEMMA NextIsFreeLeavesOne ==
  ASSUME NEW Control, MatrixTypeOK(Control), InOrder, NextIsFree
  PROVE  Held < QueueSize
<1> USE QueueSizeAssumption
<1> USE DEF MatrixTypeOK, QueueTypeOK, InOrder
<1> SUFFICES ASSUME Held = QueueSize
             PROVE  FALSE
  BY DEF PointersOK
<1> DEFINE s == NextSlot(enqPtr)
<1>1. s \in SlotIdx /\ s = IF enqPtr + 1 = QueueSize THEN 0 ELSE enqPtr + 1
  BY NextSlotWraps
<1>2. enqPtr = deqPtr
  BY DEF PointersOK, SlotIdx
<1>3. Dist(s) = 1 /\ s # deqPtr
  BY <1>1, <1>2 DEF Dist, SlotIdx
<1>4. Filled(s)
  BY <1>3 DEF Filled
<1> QED  BY <1>1, <1>4 DEF SlotsOK, NextIsFree

(* A step of the producer that is none of the row's end and puts nothing.  *)
LEMMA ProducerIdle ==
  ASSUME UNCHANGED <<queueVars, prow, pcol, pValue, consumerVars, exited>>,
         {pcP, pcP'} \cap {"raise", "await"} = {}
  PROVE  /\ Held' = Held /\ Occupied' = Occupied
         /\ InOrder => InOrder'
         /\ Sound => Sound'
<1>1. Held' = Held /\ Occupied' = Occupied
  BY DEF Held, Occupied, consumerVars
<1>2. /\ PointersOK => PointersOK'
      /\ SlotsOK => SlotsOK'
      /\ EntriesOK => EntriesOK'
  BY QueueUnmoved DEF queueVars, consumerVars
<1>3. LockstepOK => LockstepOK'
  BY <1>1 DEF LockstepOK, queueVars, consumerVars
<1>4. ValuesOK => ValuesOK'
  BY DEF ValuesOK, queueVars, consumerVars
<1> QED  BY <1>1, <1>2, <1>3, <1>4 DEF InOrder, Sound

(* Offering the row result, raising the flag, storing the result: the next *)
(* row begins with an empty queue.                                         *)
LEMMA RowEndOrder ==
  ASSUME NEW Control, MatrixTypeOK(Control), ControlOK, InOrder,
         NEW from, from \notin {"done", "raise", "await"},
         PublishRowResult(from) \/ RaiseCheck \/ ProducerStoreResult(from)
  PROVE  /\ InOrder' /\ Held' \in {Held, 0}
         /\ ProducerStoreResult(from) => Held' = 0
         /\ EntriesOK => EntriesOK'
<1> USE MatrixAssumption, QueueSizeAssumption
<1> USE DEF MatrixTypeOK, QueueTypeOK, InOrder
<1>1. CASE PublishRowResult(from) \/ RaiseCheck
  <2>1. /\ \/ pcP = from /\ pcP' = "raise" /\ checkState' = checkState
           \/ pcP = "raise" /\ pcP' = "await" /\ checkState' = 0
        /\ UNCHANGED <<content, enqPtr, deqPtr, prow, pcol, pcC, crow, ccol>>
    BY <1>1 DEF PublishRowResult, RaiseCheck, consumerVars
  <2>2. PointersOK' /\ SlotsOK' /\ Held' = Held /\ (EntriesOK => EntriesOK')
    BY <2>1, QueueUnmoved
  <2>3. LockstepOK'
    BY <2>1, <2>2 DEF LockstepOK
  <2>4. ~ProducerStoreResult(from)
    BY <2>1 DEF ProducerStoreResult
  <2> QED  BY <2>2, <2>3, <2>4
<1>2. CASE ProducerStoreResult(from)
  <2>1. /\ pcP = "await" /\ checkState = 1 /\ pcol = Cols
        /\ prow' = prow + 1 /\ pcol' = 0
        /\ pcP' = IF prow + 1 = Rows THEN "done" ELSE from
        /\ UNCHANGED <<content, enqPtr, deqPtr, checkState, pcC, crow, ccol>>
    BY <1>2 DEF ProducerStoreResult, CheckDone, queueVars, consumerVars, ControlOK
  <2>2. crow = prow + 1 \/ (crow = prow /\ pcC = "store" /\ ccol = Cols)
    BY <2>1 DEF LockstepOK, ControlOK
  <2>3. Held = 0 /\ Held' = 0
    BY <2>1, <2>2 DEF Held, LockstepOK
  <2>4. PointersOK'
    BY <2>1, <2>3 DEF PointersOK, SlotIdx
  <2>5. LockstepOK'
    BY <2>1, <2>2, <2>3 DEF LockstepOK
  <2>6. \A s \in SlotIdx : ~Filled(s) /\ ~Filled(s)'
    BY <2>1, <2>3 DEF Filled, Dist, SlotIdx
  <2>7. SlotsOK' /\ EntriesOK'
    BY <2>1, <2>6 DEF SlotsOK, EntriesOK
  <2> QED  BY <2>3, <2>4, <2>5, <2>7
<1> QED  BY <1>1, <1>2

(* The row result that is offered is right.                                *)
LEMMA RowEndSound ==
  ASSUME NEW Control, MatrixTypeOK(Control), ControlOK, InOrder, Sound,
         NEW from, from \notin {"done", "raise", "await"},
         PublishRowResult(from) \/ RaiseCheck \/ ProducerStoreResult(from)
  PROVE  Sound'
<1> USE MatrixAssumption DEF MatrixTypeOK, QueueTypeOK, Sound
<1>1. EntriesOK'
  BY RowEndOrder
<1>2. UNCHANGED <<pcC, crow, ccol, cValue, exited>>
  BY DEF PublishRowResult, RaiseCheck, ProducerStoreResult, consumerVars
<1>3. CASE PublishRowResult(from)
  <2>1. /\ pcP' = "raise" /\ pcol = Cols /\ prow < Rows
        /\ volatileValue' = pValue
        /\ UNCHANGED <<prow, pcol, pValue>>
    BY <1>3 DEF PublishRowResult, ControlOK
  <2> QED  BY <1>1, <1>2, <2>1 DEF ValuesOK
<1>4. CASE RaiseCheck
  <2>1. /\ pcP = "raise" /\ pcP' = "await"
        /\ UNCHANGED <<volatileValue, prow, pcol, pValue>>
    BY <1>4 DEF RaiseCheck
  <2> QED  BY <1>1, <1>2, <2>1 DEF ValuesOK
<1>5. CASE ProducerStoreResult(from)
  <2>1. /\ prow' = prow + 1 /\ pcol' = 0 /\ pValue' = 0
        /\ checkState # 0 /\ checkState' = checkState /\ pcP' # "raise"
    BY <1>5 DEF ProducerStoreResult, CheckDone, queueVars
  <2>2. prow' < Rows => PartialSum[prow'][0] = 0
    BY <2>1 DEF RowIdx
  <2> QED  BY <1>1, <1>2, <2>1, <2>2 DEF ValuesOK
<1> QED  BY <1>3, <1>4, <1>5

-----------------------------------------------------------------------------
(* Held and Occupied are what the counts of the whole execution say.       *)
LEMMA HeldIsSentNotTaken ==
  ASSUME NEW Control, MatrixTypeOK(Control), ControlOK, InOrder
  PROVE  Sent - Taken = Held /\ Sent - Cleared = Occupied
<1> USE MatrixAssumption
<1>1. prow \in Int /\ pcol \in Int /\ crow \in Int /\ ccol \in Int /\ Cols \in Int
  BY DEF MatrixTypeOK
<1>2. prow * Cols \in Int /\ crow * Cols \in Int
  BY <1>1
<1>3. Sent - Taken = Held
  <2>1. CASE prow = crow
    BY <1>1, <1>2, <2>1 DEF Sent, Taken, Held
  <2>2. CASE prow = crow + 1
    <3>1. prow * Cols = crow * Cols + Cols
      BY <1>1, <2>2
    <3>2. ccol = Cols
      BY <2>2 DEF InOrder, LockstepOK, ControlOK
    <3> QED  BY <1>1, <1>2, <2>2, <3>1, <3>2 DEF Sent, Taken, Held
  <2>3. CASE crow = prow + 1
    <3>1. crow * Cols = prow * Cols + Cols
      BY <1>1, <2>3
    <3>2. pcol = Cols /\ ccol = 0
      BY <2>3 DEF InOrder, LockstepOK, ControlOK
    <3> QED  BY <1>1, <1>2, <2>3, <3>1, <3>2 DEF Sent, Taken, Held
  <2> QED  BY <1>1, <2>1, <2>2, <2>3 DEF InOrder, LockstepOK
<1>4. Sent \in Int /\ Taken \in Int
  BY <1>1, <1>2 DEF Sent, Taken
<1>5. Sent - Cleared = Occupied
  <2>1. CASE pcC = "move"
    BY <1>3, <1>4, <2>1 DEF Cleared, Occupied
  <2>2. CASE pcC # "move"
    BY <1>3, <1>4, <2>2 DEF Cleared, Occupied
  <2> QED  BY <2>1, <2>2
<1> QED  BY <1>3, <1>5

-----------------------------------------------------------------------------
(* The handover of the row results.  It does not depend on the queue, so   *)
(* what follows holds for every producer, also where the consumer overtakes*)
(* it, and whatever soft errors strike.                                    *)

(* A thread is one row ahead only between the check of a row result and    *)
(* the store of it by the other thread.                                    *)
RowsInStep ==
  /\ prow \in {crow - 1, crow, crow + 1}
  /\ prow > crow => pcC = "store"
  /\ crow > prow => /\ pcP = "await" /\ checkState = 1
                        /\ pcC \notin {"verify", "release", "store"}
  /\ checkState = 0 => pcP = "await"
  /\ pcP = "await" /\ checkState = 1 =>
       crow > prow \/ (crow = prow /\ pcC = "store")
  /\ pcC = "store" /\ crow = prow => pcP = "await" /\ checkState = 1
  /\ pcC \in {"verify", "release"} => checkState = 0

(* The row result under check is the producer's, and the copies of a       *)
(* checked result are equal, whether they are stored already or not.       *)
CopiesAgree ==
  /\ pcP = "raise" \/ checkState = 0 => volatileValue = pValue
  /\ prow = crow /\ pcC \in {"release", "store"} => cValue = pValue
  /\ crow > prow => consumerVectorResult[prow] = pValue
  /\ prow > crow => producerVectorResult[crow] = cValue

(* Exactly the results of the rows that a thread left are stored.          *)
StoredOK ==
  \A r \in RowIdx :
    /\ producerVectorResult[r] = NoResult <=> r >= prow
    /\ consumerVectorResult[r] = NoResult <=> r >= crow

(* The running sums are the partial sums of the matrix.                    *)
ProducerRight == prow < Rows => pValue = PartialSum[prow][pcol]
ConsumerRight ==
  crow < Rows =>
    cValue = PartialSum[crow][IF pcC \in {"spin", "reread", "mark", "move"}
                              THEN ccol + 1 ELSE ccol]

(* One soft error makes one thread wrong, and none that passed the check of*)
(* its row.                                                                *)
OneErrorOK ==
  /\ faults = 0 => ProducerRight /\ ConsumerRight
  /\ faults < 2 => ProducerRight \/ ConsumerRight
  /\ faults = 1 => ~ProducerRight \/ ~ConsumerRight
  /\ faults < 2 /\ prow > crow => ConsumerRight
  /\ faults < 2 /\ crow > prow => ProducerRight
  /\ faults < 2 /\ prow = crow /\ pcC \in {"release", "store"} =>
       ProducerRight /\ ConsumerRight

HandoverInv ==
  /\ RowsInStep
  /\ CopiesAgree
  /\ StoredOK
  /\ ~exited => OneErrorOK

-----------------------------------------------------------------------------
LEMMA HandoverInit ==
  ASSUME NEW start, start \notin {"done", "raise", "await"}, MatrixInit(start)
  PROVE  HandoverInv
<1> USE MatrixAssumption, FaultAssumption
<1> USE DEF MatrixInit, SimpleSyncQueue_Init
<1>1. RowsInStep /\ CopiesAgree
  BY DEF RowsInStep, CopiesAgree
<1>2. StoredOK
  BY DEF StoredOK, RowIdx
<1>3. OneErrorOK
  BY DEF OneErrorOK, ProducerRight, ConsumerRight, RowIdx
<1> QED  BY <1>1, <1>2, <1>3 DEF HandoverInv

(* Adding a product: without a soft error a right sum stays right and a    *)
(* wrong one wrong; a soft error makes a right one wrong.                  *)
LEMMA AddedProduct ==
  ASSUME NEW i \in RowIdx, NEW j \in ColIdx, NEW sum \in Int, NEW e \in Sums,
         SoftError(e), faults \in 0 .. MaxFaults
  PROVE  LET new == sum + Product[i][j] + e IN
         /\ new \in Int
         /\ faults' \in {faults, faults + 1}
         /\ faults' = faults =>
              (new = PartialSum[i][j + 1] <=> sum = PartialSum[i][j])
         /\ faults' = faults + 1 /\ sum = PartialSum[i][j] =>
              new # PartialSum[i][j + 1]
         /\ faults' = faults + 1 => e # 0 /\ faults < MaxFaults
         /\ faults' # faults + 1 => faults' = faults
<1>1. Product[i][j] \in Nat /\ e \in Int /\ MaxFaults \in Nat
  BY MatrixAssumption, FaultAssumption DEF Sums
<1>2. PartialSum[i][j + 1] = PartialSum[i][j] + Product[i][j] /\ PartialSum[i][j] \in Nat
  BY PartialSumGrows
<1> QED  BY <1>1, <1>2 DEF SoftError

(* A step of a producer's loop that moves no more than its control.        *)
LEMMA HandoverIdle ==
  ASSUME HandoverInv, pcP \notin {"raise", "await"}, pcP' \notin {"raise", "await"},
         UNCHANGED <<queueVars, prow, pcol, pValue, producerVectorResult,
                     consumerVars, exited, faults>>
  PROVE  HandoverInv'
<1> USE DEF queueVars, consumerVars, HandoverInv
<1>1. RowsInStep' /\ CopiesAgree'
  BY DEF RowsInStep, CopiesAgree
<1>2. StoredOK' /\ (~exited => OneErrorOK')
  BY DEF StoredOK, OneErrorOK, ProducerRight, ConsumerRight
<1> QED  BY <1>1, <1>2

LEMMA HandoverPut ==
  ASSUME NEW Control, MatrixTypeOK(Control), ControlOK, HandoverInv,
         ~exited, pcol < Cols, PutPartialSum,
         pcP \notin {"raise", "await", "done"},
         pcP' \notin {"raise", "await", "done"}
  PROVE  HandoverInv'
<1> USE MatrixAssumption
<1> USE DEF MatrixTypeOK, QueueTypeOK, HandoverInv
<1>1. prow \in RowIdx /\ pcol \in ColIdx
  BY DEF ControlOK, RowIdx, ColIdx
<1>2. PICK e \in Sums :
        /\ SoftError(e)
        /\ pValue' = pValue + Product[prow][pcol] + e
        /\ pcol' = pcol + 1
        /\ UNCHANGED <<prow, producerVectorResult, checkState, volatileValue,
                       pcC, crow, ccol, cValue, consumerVectorResult, exited>>
  BY DEF PutPartialSum, consumerVars
<1>3. /\ faults' \in {faults, faults + 1}
      /\ faults' = faults => (ProducerRight' <=> ProducerRight)
      /\ faults' = faults + 1 /\ ProducerRight => ~ProducerRight'
  <2>1. /\ faults' \in {faults, faults + 1}
        /\ faults' = faults => (pValue' = PartialSum[prow][pcol + 1] <=>
                                 pValue = PartialSum[prow][pcol])
        /\ faults' = faults + 1 /\ pValue = PartialSum[prow][pcol] =>
             pValue' # PartialSum[prow][pcol + 1]
    BY <1>1, <1>2, AddedProduct
  <2>2. prow < Rows
    BY <1>1 DEF RowIdx
  <2>3. ProducerRight <=> pValue = PartialSum[prow][pcol]
    BY <2>2, Zenon DEF ProducerRight
  <2>4. ProducerRight' <=> pValue' = PartialSum[prow][pcol + 1]
    BY <1>2, <2>2, Zenon DEF ProducerRight
  <2> QED  BY <2>1, <2>3, <2>4, Zenon
<1>4. ConsumerRight' <=> ConsumerRight
  BY <1>2 DEF ConsumerRight
<1>5. RowsInStep' /\ CopiesAgree'
  BY <1>2 DEF RowsInStep, CopiesAgree
<1>6. StoredOK'
  BY <1>2 DEF StoredOK
<1>7. OneErrorOK'
  BY <1>2, <1>3, <1>4 DEF OneErrorOK, RowsInStep
<1> QED  BY <1>5, <1>6, <1>7

LEMMA HandoverRowEnd ==
  ASSUME NEW Control, MatrixTypeOK(Control), ControlOK, HandoverInv, ~exited,
         NEW from, from \notin {"done", "raise", "await"},
         PublishRowResult(from) \/ RaiseCheck \/ ProducerStoreResult(from)
  PROVE  HandoverInv'
<1> USE MatrixAssumption, FaultAssumption
<1> USE DEF MatrixTypeOK, QueueTypeOK, HandoverInv
<1>1. CASE PublishRowResult(from)
  <2>1. /\ pcP = from /\ pcP' = "raise" /\ volatileValue' = pValue
        /\ UNCHANGED <<checkState, prow, pcol, pValue, producerVectorResult,
                       pcC, crow, ccol, cValue, consumerVectorResult, exited,
                       faults>>
    BY <1>1 DEF PublishRowResult, consumerVars
  <2>2. RowsInStep' /\ CopiesAgree' /\ StoredOK'
    BY <2>1 DEF RowsInStep, CopiesAgree, StoredOK
  <2>3. OneErrorOK'
    BY <2>1 DEF OneErrorOK, ProducerRight, ConsumerRight
  <2> QED  BY <2>2, <2>3
<1>2. CASE RaiseCheck
  <2>1. /\ pcP = "raise" /\ pcP' = "await" /\ checkState' = 0
        /\ UNCHANGED <<volatileValue, prow, pcol, pValue, producerVectorResult,
                       pcC, crow, ccol, cValue, consumerVectorResult, exited,
                       faults>>
    BY <1>2 DEF RaiseCheck, consumerVars
  <2>2. RowsInStep' /\ CopiesAgree' /\ StoredOK'
    BY <2>1 DEF RowsInStep, CopiesAgree, StoredOK
  <2>3. OneErrorOK'
    BY <2>1 DEF OneErrorOK, ProducerRight, ConsumerRight
  <2> QED  BY <2>2, <2>3
<1>3. CASE ProducerStoreResult(from)
  <2>1. /\ pcP = "await" /\ checkState = 1 /\ prow \in RowIdx
        /\ prow' = prow + 1 /\ pcol' = 0 /\ pValue' = 0
        /\ producerVectorResult' = [producerVectorResult EXCEPT ![prow] = pValue]
        /\ pcP' = IF prow + 1 = Rows THEN "done" ELSE from
        /\ UNCHANGED <<checkState, volatileValue, pcC, crow, ccol, cValue,
                       consumerVectorResult, exited, faults>>
    BY <1>3 DEF ProducerStoreResult, CheckDone, queueVars, consumerVars,
                ControlOK, RowIdx
  <2>2. crow = prow + 1 \/ (crow = prow /\ pcC = "store")
    BY <2>1 DEF RowsInStep
  <2>a. prow \in Int /\ crow \in Int /\ prow' = prow + 1 /\ crow' = crow
    BY <2>1
  <2>3. pValue # NoResult
    BY FaultAssumption
  <2>4. RowsInStep'
    BY <2>1, <2>2 DEF RowsInStep
  <2>5. CopiesAgree'
    BY <2>1, <2>2 DEF RowsInStep, CopiesAgree, RowIdx
  <2>6. StoredOK'
    BY <2>1, <2>3 DEF StoredOK, RowIdx
  <2>7. ProducerRight'
    BY <2>1 DEF ProducerRight, RowIdx
  <2>8. ConsumerRight' <=> ConsumerRight
    BY <2>1 DEF ConsumerRight
  <2>9. OneErrorOK'
    <3>1. faults < 2 /\ crow = prow => ConsumerRight
      BY <2>2 DEF OneErrorOK
    <3>2. faults = 0 => ConsumerRight
      BY DEF OneErrorOK
    <3>3. \/ prow' = crow' /\ pcC' \notin {"release", "store"}
          \/ prow' > crow' /\ crow = prow
      BY <2>1, <2>2, <2>a DEF RowsInStep
    <3>4. prow' \in Int /\ crow' \in Int
      BY <2>a
    <3>5. faults' = faults
      BY <2>1
    <3>6. faults' = 0 => ConsumerRight'
      BY <2>8, <3>2, <3>5
    <3>7. faults' < 2 /\ prow' > crow' => ConsumerRight'
      BY <2>8, <3>1, <3>3, <3>4, <3>5
    <3>8. ~(prow' = crow' /\ pcC' \in {"release", "store"})
      BY <3>3, <3>4
    <3>9. faults = 1 => ProducerRight
      BY <2>2, <2>a DEF OneErrorOK
    <3>10. faults' = 1 => ~ConsumerRight'
      BY <2>8, <3>5, <3>9 DEF OneErrorOK
    <3> QED  BY <2>7, <3>6, <3>7, <3>8, <3>10 DEF OneErrorOK
  <2> QED  BY <2>4, <2>5, <2>6, <2>9
<1> QED  BY <1>1, <1>2, <1>3

LEMMA HandoverCheckEntry ==
  ASSUME NEW Control, MatrixTypeOK(Control), ControlOK, HandoverInv, ~exited,
         NEW match \in {"mark", "move"}, CheckEntry(match)
  PROVE  HandoverInv'
<1> USE MatrixAssumption
<1> USE DEF MatrixTypeOK, QueueTypeOK, HandoverInv
<1>1. pcC = "check" /\ crow \in RowIdx /\ ccol \in ColIdx
  BY DEF CheckEntry, ControlOK, RowIdx, ColIdx
<1>2. PICK e \in Sums :
        /\ SoftError(e)
        /\ cValue' = cValue + Product[crow][ccol] + e
  BY DEF CheckEntry
<1>3. /\ \/ exited'
         \/ ~exited' /\ pcC' \in {"spin", match}
      /\ pcC' \in {"check", "spin", match}
      /\ UNCHANGED <<pcP, prow, pcol, pValue, producerVectorResult, checkState,
                     volatileValue, crow, ccol, consumerVectorResult>>
  BY <1>1 DEF CheckEntry, Compare, queueVars, producerVars
<1>4. /\ faults' \in {faults, faults + 1}
      /\ faults' = faults => (cValue' = PartialSum[crow][ccol + 1] <=>
                               cValue = PartialSum[crow][ccol])
      /\ faults' = faults + 1 /\ cValue = PartialSum[crow][ccol] =>
           cValue' # PartialSum[crow][ccol + 1]
  BY <1>1, <1>2, AddedProduct
<1>5. ProducerRight' <=> ProducerRight
  BY <1>3 DEF ProducerRight
<1>6. ~exited' =>
        /\ faults' = faults => (ConsumerRight' <=> ConsumerRight)
        /\ faults' = faults + 1 /\ ConsumerRight => ~ConsumerRight'
  <2>1. crow < Rows /\ pcC \notin {"spin", "reread", "mark", "move"}
    BY <1>1 DEF RowIdx
  <2>2. ConsumerRight <=> cValue = PartialSum[crow][ccol]
    BY <2>1, Zenon DEF ConsumerRight
  <2>3. ~exited' => pcC' \in {"spin", "reread", "mark", "move"}
    BY <1>3
  <2>4. ~exited' => (ConsumerRight' <=> cValue' = PartialSum[crow][ccol + 1])
    BY <1>3, <2>1, <2>3, Zenon DEF ConsumerRight
  <2> QED  BY <1>4, <2>2, <2>4, Zenon
<1>7. RowsInStep' /\ CopiesAgree' /\ StoredOK'
  BY <1>1, <1>3 DEF RowsInStep, CopiesAgree, StoredOK
<1>8. ~exited' => OneErrorOK'
  BY <1>1, <1>3, <1>4, <1>5, <1>6 DEF OneErrorOK, RowsInStep
<1> QED  BY <1>7, <1>8

LEMMA HandoverConsumer ==
  ASSUME NEW Control, MatrixTypeOK(Control), ControlOK, HandoverInv, ~exited,
         ConsumerCheckAndMove \/ ConsumerCheckAndMoveImproved \/ CheckRow
  PROVE  HandoverInv'
<1> USE MatrixAssumption, FaultAssumption
<1> USE DEF MatrixTypeOK, QueueTypeOK, HandoverInv, queueVars, producerVars
<1>1. ASSUME NEW match \in {"mark", "move"}, CheckEntry(match)
      PROVE  HandoverInv'
  <2>1. ControlOK /\ ~exited
    OBVIOUS
  <2> QED  BY <1>1, <2>1, HandoverCheckEntry
<1>2. ASSUME \/ SpinExit \/ MarkEntry \/ MovePastEntry \/ AwaitRowResult
             \/ \E match \in {"mark", "move"} : RereadEntry(match)
      PROVE  HandoverInv'
  <2>1. /\ UNCHANGED <<pcP, prow, pcol, pValue, producerVectorResult, checkState,
                       volatileValue, crow, cValue, consumerVectorResult, faults>>
        /\ \/ exited' /\ pcC' = pcC /\ pcC = "reread"
           \/ /\ ~exited'
              /\ \/ /\ ccol' = ccol
                    /\ pcC \in {"spin", "reread", "mark"}
                    /\ pcC' \in {"reread", "mark", "move"}
                 \/ /\ ccol' = ccol + 1 /\ pcC = "move"
                    /\ pcC' \in {"check", "await"}
                 \/ /\ ccol' = ccol /\ pcC = "await" /\ pcC' = "verify"
                    /\ checkState = 0
    BY <1>2 DEF SpinExit, RereadEntry, Compare, MarkEntry, MovePastEntry,
                AwaitRowResult
  <2>2. ProducerRight' <=> ProducerRight
    BY <2>1 DEF ProducerRight
  <2>3. ~exited' => (ConsumerRight' <=> ConsumerRight)
    BY <2>1 DEF ConsumerRight
  <2>4. RowsInStep' /\ CopiesAgree' /\ StoredOK'
    BY <2>1 DEF RowsInStep, CopiesAgree, StoredOK
  <2>5. ~exited' => OneErrorOK'
    BY <2>1, <2>2, <2>3 DEF OneErrorOK
  <2> QED  BY <2>4, <2>5
<1>3. CASE VerifyRowResult
  <2>1. /\ pcC = "verify" /\ pcC' \in {"verify", "release"}
        /\ ~exited' => cValue = volatileValue
        /\ pcC' = "release" => cValue = volatileValue
        /\ UNCHANGED <<pcP, prow, pcol, pValue, producerVectorResult, checkState,
                       volatileValue, crow, ccol, cValue, consumerVectorResult,
                       faults>>
    BY <1>3 DEF VerifyRowResult
  <2>2. checkState = 0 /\ pcP = "await" /\ prow = crow
    BY <2>1 DEF RowsInStep
  <2>3. RowsInStep' /\ CopiesAgree' /\ StoredOK'
    BY <2>1, <2>2 DEF RowsInStep, CopiesAgree, StoredOK
  <2>4. ~exited' => pValue = cValue /\ pcol = Cols /\ ccol = Cols
    BY <2>1, <2>2 DEF CopiesAgree, ControlOK
  <2>5. (ProducerRight' <=> ProducerRight) /\ (ConsumerRight' <=> ConsumerRight)
    BY <2>1 DEF ProducerRight, ConsumerRight
  <2>6. ~exited' => (ProducerRight <=> ConsumerRight)
    BY <2>1, <2>2, <2>4 DEF ProducerRight, ConsumerRight
  <2>7. ~exited' => OneErrorOK'
    BY <2>1, <2>2, <2>5, <2>6 DEF OneErrorOK
  <2> QED  BY <2>3, <2>7
<1>4. CASE ReleaseProducer
  <2>1. /\ pcC = "release" /\ pcC' = "store" /\ checkState' = 1
        /\ UNCHANGED <<pcP, prow, pcol, pValue, producerVectorResult,
                       volatileValue, crow, ccol, cValue, consumerVectorResult,
                       exited, faults>>
    BY <1>4 DEF ReleaseProducer
  <2>2. checkState = 0 /\ pcP = "await" /\ prow = crow
    BY <2>1 DEF RowsInStep
  <2>3. RowsInStep' /\ CopiesAgree' /\ StoredOK'
    BY <2>1, <2>2 DEF RowsInStep, CopiesAgree, StoredOK
  <2>4. OneErrorOK'
    BY <2>1, <2>2 DEF OneErrorOK, ProducerRight, ConsumerRight
  <2> QED  BY <2>3, <2>4
<1>5. CASE ConsumerStoreResult
  <2>1. /\ pcC = "store" /\ crow \in RowIdx
        /\ consumerVectorResult' = [consumerVectorResult EXCEPT ![crow] = cValue]
        /\ crow' = crow + 1 /\ ccol' = 0 /\ cValue' = 0
        /\ pcC' = IF crow + 1 = Rows THEN "done" ELSE "check"
        /\ UNCHANGED <<pcP, prow, pcol, pValue, producerVectorResult, checkState,
                       volatileValue, exited, faults>>
    BY <1>5 DEF ConsumerStoreResult, ControlOK, RowIdx
  <2>2. prow = crow + 1 \/ (prow = crow /\ pcP = "await" /\ checkState = 1)
    BY <2>1 DEF RowsInStep
  <2>3. cValue # NoResult
    BY FaultAssumption
  <2>4. RowsInStep'
    BY <2>1, <2>2 DEF RowsInStep
  <2>5. CopiesAgree'
    BY <2>1, <2>2 DEF RowsInStep, CopiesAgree, RowIdx
  <2>6. StoredOK'
    BY <2>1, <2>3 DEF StoredOK, RowIdx
  <2>7. ConsumerRight'
    BY <2>1 DEF ConsumerRight, RowIdx
  <2>8. ProducerRight' <=> ProducerRight
    BY <2>1 DEF ProducerRight
  <2>9. OneErrorOK'
    <3>1. faults < 2 /\ crow = prow => ProducerRight
      BY <2>1, <2>2 DEF OneErrorOK
    <3>2. faults = 0 => ProducerRight
      BY DEF OneErrorOK
    <3>3. faults' = faults /\ pcC' \notin {"release", "store"}
      BY <2>1
    <3>4. crow' > prow' => crow = prow
      BY <2>1, <2>2
    <3>5. faults' < 2 /\ crow' > prow' => ProducerRight'
      BY <2>8, <3>1, <3>3, <3>4
    <3>6. faults' = 0 => ProducerRight'
      BY <2>8, <3>2, <3>3
    <3>7. faults = 1 => ConsumerRight
      BY <2>1, <2>2 DEF OneErrorOK
    <3>8. faults' = 1 => ~ProducerRight'
      BY <2>8, <3>3, <3>7 DEF OneErrorOK
    <3> QED  BY <2>7, <3>3, <3>5, <3>6, <3>8 DEF OneErrorOK
  <2> QED  BY <2>4, <2>5, <2>6, <2>9
<1> QED
  BY <1>1, <1>2, <1>3, <1>4, <1>5
  DEF ConsumerCheckAndMove, ConsumerCheckAndMoveImproved, CheckRow

(* When both threads are done no sum is wrong any more, so the one soft    *)
(* error that struck was announced.                                        *)
LEMMA HandoverMissesNone ==
  ASSUME NEW Control, MatrixTypeOK(Control), ControlOK, HandoverInv
  PROVE  NoErrorMissed
<1> SUFFICES ASSUME AllDone, faults = 1, ~exited
             PROVE  FALSE
  BY DEF NoErrorMissed
<1>1. prow = Rows /\ crow = Rows /\ Rows \in Nat
  BY MatrixAssumption DEF AllDone, ControlOK
<1>2. ProducerRight /\ ConsumerRight
  BY <1>1 DEF ProducerRight, ConsumerRight
<1> QED  BY <1>2 DEF HandoverInv, OneErrorOK

-----------------------------------------------------------------------------
(* The steps of ReplicatedRows that the steps of the threads are.          *)
Promise(spuriousAlarms) ==
  INSTANCE ReplicatedRows WITH
    RowSum <- [i \in RowIdx |-> PartialSum[i][Cols]],
    SpuriousAlarms <- spuriousAlarms,
    verified <- IF pcC = "store" THEN crow + 1 ELSE crow

(* An initial state shows an execution that has verified nothing.          *)
LEMMA PromiseInit ==
  ASSUME NEW spurious \in BOOLEAN, NEW start, MatrixInit(start)
  PROVE  Promise(spurious)!Init
BY DEF MatrixInit, Promise!Init, Promise!RowIdx, RowIdx

(* A step of a loop of the producer: a soft error strikes, or nothing      *)
(* happens to the rows.                                                    *)
LEMMA PromisePut ==
  ASSUME NEW spurious \in BOOLEAN, NEW Control, MatrixTypeOK(Control),
         ControlOK, HandoverInv, ~exited, pcP # "await", prow < Rows,
         pcol < Cols, PutPartialSum
  PROVE  [Promise(spurious)!Next]_(Promise(spurious)!rowVars)
<1> USE DEF MatrixTypeOK
<1>1. prow \in RowIdx /\ pcol \in ColIdx
  BY MatrixAssumption DEF RowIdx, ColIdx
<1>2. PICK e \in Sums :
        /\ SoftError(e)
        /\ UNCHANGED <<producerVectorResult, pcC, crow, consumerVectorResult, exited>>
  BY DEF PutPartialSum, consumerVars
<1>3. faults' = faults \/ (faults < MaxFaults /\ faults' = faults + 1)
  BY <1>2 DEF SoftError
<1>4. CASE faults' = faults
  BY <1>2, <1>4 DEF Promise!rowVars
<1>5. CASE faults < MaxFaults /\ faults' = faults + 1
  <2>1. (IF pcC = "store" THEN crow + 1 ELSE crow) < Rows
    BY <1>1 DEF HandoverInv, RowsInStep, RowIdx
  <2> QED  BY <1>2, <1>5, <2>1 DEF Promise!Next, Promise!Strike
<1> QED  BY <1>3, <1>4, <1>5

(* The producer stores the result of the row verified last.                *)
LEMMA PromiseRowEnd ==
  ASSUME NEW spurious \in BOOLEAN, NEW Control, MatrixTypeOK(Control),
         ControlOK, HandoverInv, ~exited, NEW from,
         PublishRowResult(from) \/ RaiseCheck \/ ProducerStoreResult(from)
  PROVE  [Promise(spurious)!Next]_(Promise(spurious)!rowVars)
<1> USE MatrixAssumption, FaultAssumption
<1> USE DEF MatrixTypeOK, QueueTypeOK, HandoverInv
<1>1. CASE PublishRowResult(from) \/ RaiseCheck
  BY <1>1 DEF PublishRowResult, RaiseCheck, consumerVars, Promise!rowVars
<1>2. CASE ProducerStoreResult(from)
  <2> DEFINE r == (IF pcC = "store" THEN crow + 1 ELSE crow) - 1
  <2>1. /\ pcP = "await" /\ checkState = 1 /\ prow \in RowIdx /\ pcol = Cols
        /\ producerVectorResult' = [producerVectorResult EXCEPT ![prow] = pValue]
        /\ UNCHANGED <<pcC, crow, consumerVectorResult, exited, faults>>
    BY <1>2 DEF ProducerStoreResult, CheckDone, queueVars, consumerVars,
                ControlOK, RowIdx
  <2>2. crow = prow + 1 \/ (crow = prow /\ pcC = "store")
    BY <2>1 DEF RowsInStep
  <2>3. r = prow
    BY <2>2 DEF RowsInStep
  <2>4. producerVectorResult[prow] = NoResult /\ producerVectorResult'[prow] = pValue
    BY <2>1 DEF StoredOK
  <2>5. pValue = PartialSum[prow][Cols] \/ faults > 1
    <3>1. faults < 2 => ProducerRight
      BY <2>2 DEF OneErrorOK
    <3> QED  BY <2>1, <3>1 DEF ProducerRight, RowIdx
  <2>6. consumerVectorResult[prow] \in {NoResult, pValue}
    BY <2>1, <2>2 DEF CopiesAgree, StoredOK
  <2>7. [i \in RowIdx |-> PartialSum[i][Cols]][prow] = PartialSum[prow][Cols]
    BY <2>1
  <2>8. Promise(spurious)!Admissible(prow, pValue, consumerVectorResult[prow])
    BY <2>5, <2>6, <2>7 DEF Promise!Admissible
  <2>9. (IF pcC = "store" THEN crow + 1 ELSE crow) > 0
    BY <2>2
  <2>10. Promise(spurious)!StoreProducer
    BY <2>1, <2>3, <2>4, <2>8, <2>9 DEF Promise!StoreProducer
  <2> QED  BY <2>10 DEF Promise!Next
<1> QED  BY <1>1, <1>2

(* The consumer verifies a row when it releases the producer, then stores  *)
(* its result; its alarms are soft errors noticed, or spurious.            *)
LEMMA PromiseConsumer ==
  ASSUME NEW spurious \in BOOLEAN, NEW Control, MatrixTypeOK(Control),
         MatrixTypeOK(Control)', ControlOK, HandoverInv, ~exited,
         exited' => spurious \/ faults' > 0,
         ConsumerCheckAndMove \/ ConsumerCheckAndMoveImproved \/ CheckRow
  PROVE  [Promise(spurious)!Next]_(Promise(spurious)!rowVars)
<1> USE MatrixAssumption, FaultAssumption
<1> USE DEF MatrixTypeOK, QueueTypeOK, HandoverInv, queueVars, producerVars
<1>1. ASSUME NEW match \in {"mark", "move"}, CheckEntry(match)
      PROVE  [Promise(spurious)!Next]_(Promise(spurious)!rowVars)
  <2>1. PICK e \in Sums : SoftError(e)
    BY <1>1 DEF CheckEntry
  <2>2. faults' = faults \/ (faults < MaxFaults /\ faults' = faults + 1)
    BY <2>1 DEF SoftError
  <2>3. /\ pcC # "store" /\ pcC' # "store" /\ crow < Rows
        /\ exited' = TRUE \/ exited' = exited
        /\ UNCHANGED <<producerVectorResult, crow, consumerVectorResult>>
    BY <1>1 DEF CheckEntry, Compare, ControlOK
  <2>4. CASE faults' = faults /\ exited' = TRUE
    BY <2>3, <2>4 DEF Promise!Next, Promise!Alarm
  <2>5. CASE faults' = faults /\ exited' = exited
    BY <2>3, <2>5 DEF Promise!rowVars
  <2>6. CASE faults < MaxFaults /\ faults' = faults + 1
    BY <2>3, <2>6 DEF Promise!Next, Promise!Strike
  <2> QED  BY <2>2, <2>3, <2>4, <2>5, <2>6
<1>2. ASSUME \/ SpinExit \/ MarkEntry \/ MovePastEntry \/ AwaitRowResult
             \/ VerifyRowResult
             \/ \E match \in {"mark", "move"} : RereadEntry(match)
      PROVE  [Promise(spurious)!Next]_(Promise(spurious)!rowVars)
  <2>1. /\ pcC # "store" /\ pcC' # "store"
        /\ exited' = TRUE \/ exited' = exited
        /\ UNCHANGED <<producerVectorResult, crow, consumerVectorResult, faults>>
    BY <1>2 DEF SpinExit, MarkEntry, MovePastEntry, AwaitRowResult,
                VerifyRowResult, RereadEntry, Compare
  <2>2. CASE exited' = TRUE
    BY <2>1, <2>2 DEF Promise!Next, Promise!Alarm
  <2>3. CASE exited' = exited
    BY <2>1, <2>3 DEF Promise!rowVars
  <2> QED  BY <2>1, <2>2, <2>3
<1>3. CASE ReleaseProducer
  <2>1. /\ pcC = "release" /\ pcC' = "store" /\ prow = crow /\ crow < Rows
        /\ UNCHANGED <<producerVectorResult, crow, consumerVectorResult, exited,
                       faults>>
    BY <1>3 DEF ReleaseProducer, RowsInStep, ControlOK
  <2>2. crow > 0 => Promise(spurious)!Stored(crow - 1)
    <3>1. ASSUME crow > 0
          PROVE  crow - 1 \in RowIdx /\ ~(crow - 1 >= prow) /\ ~(crow - 1 >= crow)
      BY <2>1, <3>1 DEF RowIdx
    <3> QED  BY <3>1 DEF Promise!Stored, StoredOK
  <2>3. faults # 1
    BY <2>1 DEF OneErrorOK
  <2>4. Promise(spurious)!Verify
    BY <2>1, <2>2, <2>3 DEF Promise!Verify
  <2> QED  BY <2>4 DEF Promise!Next
<1>4. CASE ConsumerStoreResult
  <2>1. /\ pcC = "store" /\ pcC' # "store" /\ crow' = crow + 1
        /\ crow \in RowIdx /\ ccol = Cols
        /\ consumerVectorResult' = [consumerVectorResult EXCEPT ![crow] = cValue]
        /\ UNCHANGED <<producerVectorResult, exited, faults>>
    BY <1>4 DEF ConsumerStoreResult, ControlOK, RowIdx
  <2>2. prow = crow + 1 \/ (prow = crow /\ pcP = "await" /\ checkState = 1)
    BY <2>1 DEF RowsInStep
  <2>3. consumerVectorResult[crow] = NoResult /\ consumerVectorResult'[crow] = cValue
    BY <2>1 DEF StoredOK
  <2>4. cValue = PartialSum[crow][Cols] \/ faults > 1
    <3>1. faults < 2 => ConsumerRight
      BY <2>1, <2>2 DEF OneErrorOK
    <3> QED  BY <2>1, <3>1 DEF ConsumerRight, RowIdx
  <2>5. producerVectorResult[crow] \in {NoResult, cValue}
    BY <2>1, <2>2 DEF CopiesAgree, StoredOK
  <2>6. [i \in RowIdx |-> PartialSum[i][Cols]][crow] = PartialSum[crow][Cols]
    BY <2>1
  <2>7. Promise(spurious)!Admissible(crow, cValue, producerVectorResult[crow])
    BY <2>4, <2>5, <2>6 DEF Promise!Admissible
  <2>8. (IF pcC = "store" THEN crow + 1 ELSE crow) - 1 = crow /\ crow + 1 > 0
    BY <2>1
  <2>9. Promise(spurious)!StoreConsumer
    BY <2>1, <2>3, <2>7, <2>8 DEF Promise!StoreConsumer
  <2> QED  BY <2>9 DEF Promise!Next
<1> QED
  BY <1>1, <1>2, <1>3, <1>4
  DEF ConsumerCheckAndMove, ConsumerCheckAndMoveImproved, CheckRow

=============================================================================
