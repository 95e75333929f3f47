----------------------------- MODULE SimpleQueue -----------------------------
(***************************************************************************)
(* SimpleQueue of Queues.c between one producer and one consumer: a ring   *)
(* whose two pointers are the only synchronisation.  Equal pointers mean   *)
(* an empty queue; the producer keeps one slot free, so that a full queue  *)
(* never looks like an empty one.                                          *)
(*                                                                         *)
(* The producer is the loop of TestSimpleQueue_Producer that enqueues the  *)
(* values of the iterations 0, 1, ..., Count - 1, here the numbers; the    *)
(* consumer dequeues as many.                                              *)
(***************************************************************************)
EXTENDS QueueParameters, Sequences

VARIABLES
  content, enqPtr, deqPtr,
  pcP, sent,       \* the producer: control, entries enqueued
  pcC, value, got  \* the consumer: control, value read, entries received

producerVars == <<pcP, sent>>
consumerVars == <<pcC, value, got>>
vars == <<content, enqPtr, deqPtr, producerVars, consumerVars>>

SlotIdx == 0 .. MaxElements - 1
Entries == 0 .. Count - 1

NextSlot(ptr) == (ptr + 1) % MaxElements

TypeOK ==
  /\ content \in [SlotIdx -> Entries \cup {Uninitialized}]
  /\ enqPtr \in SlotIdx /\ deqPtr \in SlotIdx
  /\ pcP \in {"wait", "store", "publish"} /\ sent \in 0 .. Count
  /\ pcC \in {"wait", "read", "release"}
  /\ value \in Entries \cup {Uninitialized}
  /\ got \in Seq(Entries \cup {Uninitialized})

Init ==
  /\ content = [s \in SlotIdx |-> Uninitialized]
  /\ enqPtr = 0 /\ deqPtr = 0
  /\ pcP = "wait" /\ sent = 0
  /\ pcC = "wait" /\ value = Uninitialized /\ got = <<>>

(* The exit condition of the producer's busy wait.                         *)
HasRoom == NextSlot(enqPtr) # deqPtr

(* SimpleQueue_Enqueue.                                                    *)
EnqueueWait ==
  /\ pcP = "wait"
  /\ sent < Count
  /\ HasRoom
  /\ pcP' = "store"
  /\ UNCHANGED <<content, enqPtr, deqPtr, sent, consumerVars>>

\* A bug that stores the entry one slot ahead, as after an early publication.
EnqueueStore_NextSlot ==
  /\ pcP = "store"
  /\ content' = [content EXCEPT ![NextSlot(enqPtr)] = sent]
  /\ pcP' = "publish"
  /\ UNCHANGED <<enqPtr, deqPtr, sent, consumerVars>>

EnqueueStore ==
  /\ pcP = "store"
  /\ content' = [content EXCEPT ![enqPtr] = sent]
  /\ pcP' = "publish"
  /\ UNCHANGED <<enqPtr, deqPtr, sent, consumerVars>>

EnqueuePublish ==
  /\ pcP = "publish"
  /\ enqPtr' = NextSlot(enqPtr)
  /\ sent' = sent + 1
  /\ pcP' = "wait"
  /\ UNCHANGED <<content, deqPtr, consumerVars>>

\* A bug that looks for an entry one slot ahead.
HasEntry_Ahead == NextSlot(deqPtr) # enqPtr

(* The exit condition of the consumer's busy wait.                         *)
HasEntry == deqPtr # enqPtr

(* SimpleQueue_Dequeue.                                                    *)
DequeueWait ==
  /\ pcC = "wait"
  /\ Len(got) < Count
  /\ HasEntry
  /\ pcC' = "read"
  /\ UNCHANGED <<content, enqPtr, deqPtr, producerVars, value, got>>

DequeueRead ==
  /\ pcC = "read"
  /\ value' = content[deqPtr]
  /\ pcC' = "release"
  /\ UNCHANGED <<content, enqPtr, deqPtr, producerVars, got>>

DequeueRelease ==
  /\ pcC = "release"
  /\ deqPtr' = NextSlot(deqPtr)
  /\ got' = Append(got, value)
  /\ pcC' = "wait"
  /\ UNCHANGED <<content, enqPtr, producerVars, value>>

Producer == EnqueueWait \/ EnqueueStore \/ EnqueuePublish
Consumer == DequeueWait \/ DequeueRead \/ DequeueRelease

(* Both loops ended.                                                       *)
Ended == sent = Count /\ Len(got) = Count /\ UNCHANGED vars

Next == Producer \/ Consumer \/ Ended

(* The operating system runs both threads.                                 *)
Fairness == WF_vars(Producer) /\ WF_vars(Consumer)

Spec == Init /\ [][Next]_vars /\ Fairness

-----------------------------------------------------------------------------
(* The slots from deqPtr up to enqPtr, in the order of the ring.           *)
Held == [k \in 1 .. (enqPtr - deqPtr) % MaxElements |->
           content[(deqPtr + k - 1) % MaxElements]]

(* The queue is a channel: with the two pointers for its only              *)
(* synchronisation, no entry is lost, doubled, overtaken or read before it *)
(* was written.  The temporal part: the consumer receives all Count.       *)
Channel == INSTANCE SpscChannel WITH
             Capacity <- MaxElements - 1,
             chan <- Held

ImplementsChannel == Channel!Spec

(* From the end of its busy wait on, the producer works on a slot that the *)
(* consumer does not work on: content is not volatile, so two accesses at  *)
(* the same time would be a data race on the entry itself.                 *)
NoSharedSlot == pcP # "wait" /\ pcC # "wait" => enqPtr # deqPtr

(* The types, above all that the pointers stay in the ring, and            *)
(* NoSharedSlot.                                                           *)
QueueInv == TypeOK /\ NoSharedSlot

=============================================================================
