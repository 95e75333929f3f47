--------------------------- MODULE ReplicatedRows ----------------------------
(***************************************************************************)
(* What a replicated execution promises, without queue, pointers or        *)
(* flags: the rows are verified one after the other; a row is stored, by   *)
(* either thread, only after it was verified and before the next one is;   *)
(* both copies agree and are right as long as at most one soft error       *)
(* struck; a single soft error lets no further row be verified; and the    *)
(* execution is abandoned only because of a soft error.                    *)
(*                                                                         *)
(* With SpuriousAlarms = TRUE the last promise is dropped: an execution    *)
(* may be abandoned although nothing went wrong.                           *)
(***************************************************************************)
EXTENDS Integers

CONSTANTS Rows, RowSum, MaxFaults, NoResult, SpuriousAlarms

VARIABLES verified, producerVectorResult, consumerVectorResult, exited, faults

rowVars ==
  <<verified, producerVectorResult, consumerVectorResult, exited, faults>>

RowIdx == 0 .. Rows - 1

Init ==
  /\ verified = 0
  /\ producerVectorResult = [r \in RowIdx |-> NoResult]
  /\ consumerVectorResult = [r \in RowIdx |-> NoResult]
  /\ exited = FALSE
  /\ faults = 0

Stored(r) ==
  producerVectorResult[r] # NoResult /\ consumerVectorResult[r] # NoResult

Strike ==
  /\ ~exited
  /\ verified < Rows
  /\ faults < MaxFaults
  /\ faults' = faults + 1
  /\ \/ exited' = TRUE
     \/ UNCHANGED exited
  /\ UNCHANGED <<verified, producerVectorResult, consumerVectorResult>>

Alarm ==
  /\ ~exited
  /\ faults > 0 \/ SpuriousAlarms
  /\ exited' = TRUE
  /\ UNCHANGED <<verified, producerVectorResult, consumerVectorResult, faults>>

(* One soft error makes the sums of its row differ.                        *)
Verify ==
  /\ ~exited
  /\ verified < Rows
  /\ faults # 1
  /\ verified > 0 => Stored(verified - 1)
  /\ verified' = verified + 1
  /\ UNCHANGED <<producerVectorResult, consumerVectorResult, exited, faults>>

(* Two soft errors may agree on a wrong sum; one cannot.                   *)
Admissible(r, value, other) ==
  /\ value # NoResult
  /\ value = RowSum[r] \/ faults > 1
  /\ other \in {NoResult, value}

StoreProducer ==
  LET r == verified - 1
      value == producerVectorResult'[r]
  IN /\ ~exited
     /\ verified > 0
     /\ producerVectorResult[r] = NoResult
     /\ producerVectorResult' = [producerVectorResult EXCEPT ![r] = value]
     /\ Admissible(r, value, consumerVectorResult[r])
     /\ UNCHANGED <<verified, consumerVectorResult, exited, faults>>

StoreConsumer ==
  LET r == verified - 1
      value == consumerVectorResult'[r]
  IN /\ ~exited
     /\ verified > 0
     /\ consumerVectorResult[r] = NoResult
     /\ consumerVectorResult' = [consumerVectorResult EXCEPT ![r] = value]
     /\ Admissible(r, value, producerVectorResult[r])
     /\ UNCHANGED <<verified, producerVectorResult, exited, faults>>

Next == Strike \/ Alarm \/ Verify \/ StoreProducer \/ StoreConsumer

Spec == Init /\ [][Next]_rowVars

=============================================================================
