------------------------------ MODULE MCQueues -------------------------------
(***************************************************************************)
(* Both queues for TLC, each with its own variables: the loops of          *)
(* SimpleQueue, and when they have ended, those of SectionQueue.           *)
(***************************************************************************)
EXTENDS SectionQueue

VARIABLES
  simpleContent, simpleEnqPtr, simpleDeqPtr,
  simplePcP, simpleSent,
  simplePcC, value, simpleGot

simpleVars == <<simpleContent, simpleEnqPtr, simpleDeqPtr,
                simplePcP, simpleSent, simplePcC, value, simpleGot>>

Simple == INSTANCE SimpleQueue WITH
            content <- simpleContent, enqPtr <- simpleEnqPtr, deqPtr <- simpleDeqPtr,
            pcP <- simplePcP, sent <- simpleSent,
            pcC <- simplePcC, got <- simpleGot

QueuesInit == Simple!Init /\ Init

SimpleEnded == simpleSent = Count /\ Len(simpleGot) = Count

QueuesNext ==
  \/ Simple!Next /\ UNCHANGED vars
  \/ SimpleEnded /\ Next /\ UNCHANGED simpleVars

QueuesSpec ==
  /\ QueuesInit
  /\ [][QueuesNext]_<<simpleVars, vars>>
  /\ Simple!Fairness
  /\ Fairness

-----------------------------------------------------------------------------
(* SimpleQueue: the pointers stay in the ring, and no slot is worked on by *)
(* both threads.                                                           *)
QueueInv == Simple!QueueInv

(* SimpleQueue is a channel.                                               *)
SimpleImplementsChannel == Simple!ImplementsChannel

=============================================================================
