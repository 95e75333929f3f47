----------------------------- MODULE MCStreams ------------------------------
EXTENDS QueueStreams

(* Values of two bits; neighbours differ, and so do the groups.            *)
MCCalcFunction ==
  [i \in Iterations |-> CASE i % 4 = 0 -> {} [] i % 4 = 1 -> {0}
                          [] i % 4 = 2 -> {1} [] OTHER -> {0, 1}]

MCFlips == {{0}, {1}}

=============================================================================
