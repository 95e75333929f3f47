--------------------------- MODULE SimpleSyncQueue ---------------------------
(***************************************************************************)
(* The ring buffer that the replicated threads share (Queues.h, Queues.c): *)
(* the fields of SimpleSyncQueue and the accesses that the threads make to *)
(* them.  There is no count of the elements: a slot that holds             *)
(* ALREADY_CONSUMED is free, any other value is an entry.                  *)
(*                                                                         *)
(* enqPtr is written and read by the producer only, so a store to a slot   *)
(* and the step of enqPtr that follows it are one step here.  deqPtr is    *)
(* written by the consumer and read by the batching producers, so clearing *)
(* a slot and stepping deqPtr are two steps.                               *)
(***************************************************************************)
EXTENDS Integers

CONSTANT QueueSize                   \* SIMPLE_SYNC_QUEUE_SIZE

ASSUME QueueSizeAssumption == QueueSize \in Nat /\ QueueSize > 1

VARIABLES
  content,        \* the slots
  enqPtr,         \* the slot the producer fills next
  deqPtr,         \* the slot the consumer reads next
  checkState,     \* 0: a row result waits for its check, 1: it was checked
  volatileValue   \* the row result under check

queueVars == <<content, enqPtr, deqPtr, checkState, volatileValue>>

ALREADY_CONSUMED == -1

SlotIdx == 0 .. QueueSize - 1

NextSlot(ptr) == (ptr + 1) % QueueSize

QueueTypeOK ==
  /\ content \in [SlotIdx -> Int]
  /\ enqPtr \in SlotIdx
  /\ deqPtr \in SlotIdx
  /\ checkState \in {0, 1}
  /\ volatileValue \in Int

SimpleSyncQueue_Init ==
  /\ content = [s \in SlotIdx |-> ALREADY_CONSUMED]
  /\ enqPtr = 0
  /\ deqPtr = 0
  /\ checkState = 1
  /\ volatileValue = ALREADY_CONSUMED

\* A bug that looks at the slot to fill instead of the one after it.
NextIsFree_OwnSlot == content[enqPtr] = ALREADY_CONSUMED

\* A bug that never waits for the consumer.
NextIsFree_Always == TRUE

(* The exit condition of the producers' busy wait: the slot after the one  *)
(* to fill is free.                                                        *)
NextIsFree == content[NextSlot(enqPtr)] = ALREADY_CONSUMED

Put(value) ==
  /\ content' = [content EXCEPT ![enqPtr] = value]
  /\ enqPtr' = NextSlot(enqPtr)

MarkConsumed == content' = [content EXCEPT ![deqPtr] = ALREADY_CONSUMED]

\* A bug that forgets the modulo.
MoveDeqPtr_NoWrap == deqPtr' = deqPtr + 1

MoveDeqPtr == deqPtr' = NextSlot(deqPtr)

=============================================================================
