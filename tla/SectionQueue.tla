---------------------------- MODULE SectionQueue -----------------------------
(***************************************************************************)
(* SectionQueue of Queues.c between one producer and one consumer: the     *)
(* slots form NumSections sections, and isReadMode says of each section    *)
(* whose turn it is.  The threads synchronise once per section only.       *)
(*                                                                         *)
(* The producer is the loop of TestSectionQueue_Producer that enqueues the *)
(* values of the iterations 0, 1, ..., Count - 1, here the numbers; the    *)
(* consumer dequeues as many.  enqPtr and enqueueSection are the           *)
(* producer's own, deqPtr and dequeueSection the consumer's.               *)
(***************************************************************************)
EXTENDS QueueParameters, Sequences

VARIABLES
  content, isReadMode,
  enqPtr, enqueueSection, pcP, sent,
  deqPtr, dequeueSection, pcC, got

sectionVars  == <<content, isReadMode>>
producerVars == <<enqPtr, enqueueSection, pcP, sent>>
consumerVars == <<deqPtr, dequeueSection, pcC, got>>
vars == <<sectionVars, producerVars, consumerVars>>

SectionIdx == 0 .. NumSections - 1
SlotIdx    == 0 .. SectionSize - 1
Entries    == 0 .. Count - 1

TypeOK ==
  /\ content \in [SectionIdx -> [SlotIdx -> Entries \cup {Uninitialized}]]
  /\ isReadMode \in [SectionIdx -> BOOLEAN]
  /\ enqPtr \in SlotIdx /\ enqueueSection \in SectionIdx
  /\ pcP \in {"wait", "store", "hand over"} /\ sent \in 0 .. Count
  /\ deqPtr \in SlotIdx /\ dequeueSection \in SectionIdx
  /\ pcC \in {"wait", "read", "hand back"}
  /\ got \in Seq(Entries \cup {Uninitialized})

Init ==
  /\ content = [s \in SectionIdx |-> [k \in SlotIdx |-> Uninitialized]]
  /\ isReadMode = [s \in SectionIdx |-> FALSE]
  /\ enqPtr = 0 /\ enqueueSection = 0 /\ pcP = "wait" /\ sent = 0
  /\ deqPtr = 0 /\ dequeueSection = 0 /\ pcC = "wait" /\ got = <<>>

(* SectionQueue_Enqueue.                                                   *)
EnqueueWait ==
  /\ pcP = "wait"
  /\ sent < Count
  /\ ~isReadMode[enqueueSection]
  /\ pcP' = "store"
  /\ UNCHANGED <<sectionVars, enqPtr, enqueueSection, sent, consumerVars>>

EnqueueStore ==
  /\ pcP = "store"
  /\ content' = [content EXCEPT ![enqueueSection][enqPtr] = sent]
  /\ enqPtr' = (enqPtr + 1) % SectionSize
  /\ sent' = sent + 1
  /\ pcP' = IF enqPtr' = 0 THEN "hand over" ELSE "wait"
  /\ UNCHANGED <<isReadMode, enqueueSection, consumerVars>>

HandOver ==
  /\ pcP = "hand over"
  /\ isReadMode' = [isReadMode EXCEPT ![enqueueSection] = TRUE]
  /\ enqueueSection' = (enqueueSection + 1) % NumSections
  /\ pcP' = "wait"
  /\ UNCHANGED <<content, enqPtr, sent, consumerVars>>

\* A bug that does not wait for a section to be filled.
DequeueWait_Never ==
  /\ pcC = "wait"
  /\ Len(got) < Count
  /\ pcC' = "read"
  /\ UNCHANGED <<sectionVars, producerVars, deqPtr, dequeueSection, got>>

(* SectionQueue_Dequeue.                                                   *)
DequeueWait ==
  /\ pcC = "wait"
  /\ Len(got) < Count
  /\ isReadMode[dequeueSection]
  /\ pcC' = "read"
  /\ UNCHANGED <<sectionVars, producerVars, deqPtr, dequeueSection, got>>

DequeueRead ==
  /\ pcC = "read"
  /\ got' = Append(got, content[dequeueSection][deqPtr])
  /\ deqPtr' = (deqPtr + 1) % SectionSize
  /\ pcC' = IF deqPtr' = 0 THEN "hand back" ELSE "wait"
  /\ UNCHANGED <<sectionVars, producerVars, dequeueSection>>

\* A bug that leaves a section that was read in read mode.
HandBack_Forgotten ==
  /\ pcC = "hand back"
  /\ dequeueSection' = (dequeueSection + 1) % NumSections
  /\ pcC' = "wait"
  /\ UNCHANGED <<sectionVars, producerVars, deqPtr, got>>

HandBack ==
  /\ pcC = "hand back"
  /\ isReadMode' = [isReadMode EXCEPT ![dequeueSection] = FALSE]
  /\ dequeueSection' = (dequeueSection + 1) % NumSections
  /\ pcC' = "wait"
  /\ UNCHANGED <<content, producerVars, deqPtr, got>>

Producer == EnqueueWait \/ EnqueueStore \/ HandOver
Consumer == DequeueWait \/ DequeueRead \/ HandBack

(* Both loops ended.                                                       *)
Ended ==
  /\ sent = Count /\ pcP = "wait"
  /\ Len(got) = Count /\ pcC = "wait"
  /\ UNCHANGED vars

Next == Producer \/ Consumer \/ Ended

(* The operating system runs both threads.                                 *)
Fairness == WF_vars(Producer) /\ WF_vars(Consumer)

Spec == Init /\ [][Next]_vars /\ Fairness

-----------------------------------------------------------------------------
(* The slots that were filled and not yet read, in the order of the ring.  *)
Position(k) == (Len(got) + k - 1) % (NumSections * SectionSize)

Held == [k \in 1 .. sent - Len(got) |->
           content[Position(k) \div SectionSize][Position(k) % SectionSize]]

(* The queue is a channel: the threads may fill one section while they     *)
(* read another, and yet no entry is lost, doubled, overtaken or read      *)
(* before it was written.  The temporal part: the consumer receives all    *)
(* Count, if SectionSize divides it, as 1000 divides NUM_VALUES and        *)
(* NUM_VALUES / MODULO.                                                    *)
Channel == INSTANCE SpscChannel WITH
             Capacity <- NumSections * SectionSize,
             chan <- Held

ImplementsChannel == Channel!Spec

(* From the end of its busy wait on, a thread works on a section that the  *)
(* other thread does not work on.                                          *)
OneOwner == pcP # "wait" /\ pcC # "wait" => enqueueSection # dequeueSection

(* The consumer gets whole sections: the entries of one that the producer  *)
(* has not filled to its end are not handed over.                          *)
WholeSections == Len(got) <= sent - (sent % SectionSize)

(* The types, above all that no position leaves its section, OneOwner and  *)
(* WholeSections.                                                          *)
SectionInv == TypeOK /\ OneOwner /\ WholeSections

=============================================================================
