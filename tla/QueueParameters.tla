--------------------------- MODULE QueueParameters ---------------------------
(* The sizes of the two queues of Queues.h, and what the streams of        *)
(* FirstTestHyperThreads.c send through them.                              *)
EXTENDS Integers

CONSTANTS
  MaxElements,     \* SIMPLE_QUEUE_MAX_ELEMENTS
  SectionSize,     \* SECTION_SIZE
  NumSections,     \* NUM_SECTIONS
  Count,           \* entries that the loops send
  Uninitialized    \* what SimpleQueue_Init and SectionQueue_Init leave in
                   \* the slots

ASSUME SimpleQueueAssumption ==
  /\ MaxElements \in Nat /\ MaxElements > 1
  /\ Count \in Nat
  /\ Uninitialized \notin Nat

ASSUME SectionQueueAssumption ==
  /\ SectionSize \in Nat \ {0}
  /\ NumSections \in Nat /\ NumSections > 1
  /\ Count \in Nat
  /\ Uninitialized \notin Nat

=============================================================================
