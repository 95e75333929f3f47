----------------------------- MODULE SpscChannel -----------------------------
(***************************************************************************)
(* What a queue between one producer and one consumer promises: every      *)
(* entry arrives, once, in the order of the puts, and at most Capacity are *)
(* under way.  The n-th entry is the number n.                             *)
(***************************************************************************)
EXTENDS Naturals, Sequences

CONSTANTS
  Count,       \* how many entries the producer sends
  Capacity

VARIABLES
  chan,        \* the entries under way
  got          \* what the consumer received so far

channelVars == <<chan, got>>

Init == chan = <<>> /\ got = <<>>

Put ==
  /\ Len(chan) < Capacity
  /\ Len(got) + Len(chan) < Count
  /\ chan' = Append(chan, Len(got) + Len(chan))
  /\ UNCHANGED got

Get ==
  /\ chan # <<>>
  /\ got' = Append(got, Head(chan))
  /\ chan' = Tail(chan)

Next == Put \/ Get

Spec == Init /\ [][Next]_channelVars /\ WF_channelVars(Put) /\ WF_channelVars(Get)

=============================================================================
