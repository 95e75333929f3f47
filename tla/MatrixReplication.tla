-------------------------- MODULE MatrixReplication --------------------------
(***************************************************************************)
(* What the replicated matrix-vector products of VectorMatrixMult.c have   *)
(* in common.  A producer and a consumer thread compute the same rows;     *)
(* the producer sends every partial sum through the queue, the consumer    *)
(* compares it with its own and calls exit(1) on a difference.  At the end *)
(* of a row the producer hands the row result over in volatileValue and    *)
(* waits (checkState = 0) until the consumer has checked it (checkState =  *)
(* 1); only then do the threads store their copy of the result.            *)
(*                                                                         *)
(* The ways to fill the queue differ and are the modules VolatileReplica-  *)
(* tion, RhtReplication and RhtImprovedReplication.                        *)
(*                                                                         *)
(* A soft error corrupts the running sum of a thread when a product is     *)
(* added to it.  It is what the program exists to detect; the hardware,    *)
(* not the code, decides when it strikes.  faults counts the errors.       *)
(***************************************************************************)
EXTENDS SimpleSyncQueue

CONSTANTS
  Rows,          \* MATRIX_ROWS
  Cols,          \* MATRIX_COLS
  Product,       \* Product[i][j] = vector[j] * matrix[i][j]
  PartialSum,    \* PartialSum[i][j] = the sum of the first j products of row i
  Corruptions,   \* what a soft error may add to a running sum
  MaxFaults,     \* bound on the number of soft errors
  NoResult       \* a result that was not stored yet

RowIdx == 0 .. Rows - 1
ColIdx == 0 .. Cols - 1

(* Vector_Matrix_Init draws the factors from 1 .. 10000: every product is  *)
(* positive and the partial sums of a row increase.                        *)
ASSUME MatrixAssumption ==
  /\ Rows \in Nat \ {0}
  /\ Cols \in Nat \ {0}
  /\ Product \in [RowIdx -> [ColIdx -> Nat \ {0}]]
  /\ PartialSum \in [RowIdx -> [0 .. Cols -> Nat]]
  /\ \A i \in RowIdx :
       /\ PartialSum[i][0] = 0
       /\ \A j \in ColIdx :
            PartialSum[i][j + 1] = PartialSum[i][j] + Product[i][j]

ASSUME FaultAssumption ==
  /\ Corruptions \subseteq Int \ {0}
  /\ MaxFaults \in Nat
  /\ NoResult \notin Int

VARIABLES
  pcP, prow, pcol, pValue,   \* the producer: control, i, j, thisValue
  pcC, crow, ccol, cValue,   \* the consumer: control, i, j, thisValue
  producerVectorResult,
  consumerVectorResult,
  exited,                    \* exit(1) was called
  faults                     \* the number of soft errors so far

producerVars == <<pcP, prow, pcol, pValue, producerVectorResult>>
consumerVars == <<pcC, crow, ccol, cValue, consumerVectorResult>>
matrixVars   == <<queueVars, producerVars, consumerVars, exited, faults>>

ConsumerControl ==
  {"check", "spin", "reread", "mark", "move", "await", "verify", "release",
   "store", "done"}

MatrixTypeOK(producerControl) ==
  /\ QueueTypeOK
  /\ pcP \in producerControl
  /\ prow \in 0 .. Rows
  /\ pcol \in 0 .. Cols
  /\ pValue \in Int
  /\ pcC \in ConsumerControl
  /\ crow \in 0 .. Rows
  /\ ccol \in 0 .. Cols
  /\ cValue \in Int
  /\ producerVectorResult \in [RowIdx -> Int \cup {NoResult}]
  /\ consumerVectorResult \in [RowIdx -> Int \cup {NoResult}]
  /\ exited \in BOOLEAN
  /\ faults \in 0 .. MaxFaults

MatrixInit(start) ==
  /\ SimpleSyncQueue_Init
  /\ pcP = start /\ prow = 0 /\ pcol = 0 /\ pValue = 0
  /\ pcC = "check" /\ crow = 0 /\ ccol = 0 /\ cValue = 0
  /\ producerVectorResult = [i \in RowIdx |-> NoResult]
  /\ consumerVectorResult = [i \in RowIdx |-> NoResult]
  /\ exited = FALSE
  /\ faults = 0

(* Entries put by the producer, and entries whose slot the consumer freed. *)
Sent    == prow * Cols + pcol
Taken   == crow * Cols + ccol
Cleared == Taken + (IF pcC = "move" THEN 1 ELSE 0)

-----------------------------------------------------------------------------
(* The environment: e = 0 is a correct addition.                           *)
SoftError(e) ==
  /\ e # 0 => faults < MaxFaults
  /\ faults' = IF e = 0 THEN faults ELSE faults + 1

Sums == Corruptions \cup {0}

-----------------------------------------------------------------------------
(* The producer.                                                           *)

(* One turn of a loop over the columns: add the product, put the sum.      *)
PutPartialSum ==
  \E e \in Sums :
    LET sum == pValue + Product[prow][pcol] + e IN
    /\ SoftError(e)
    /\ pValue' = sum
    /\ Put(sum)
    /\ pcol' = pcol + 1
    /\ UNCHANGED <<prow, producerVectorResult, deqPtr, checkState,
                   volatileValue, consumerVars, exited>>

PublishRowResult(from) ==
  /\ pcP = from
  /\ pcol >= Cols
  /\ volatileValue' = pValue
  /\ pcP' = "raise"
  /\ UNCHANGED <<content, enqPtr, deqPtr, checkState, prow, pcol, pValue,
                 producerVectorResult, consumerVars, exited, faults>>

RaiseCheck ==
  /\ pcP = "raise"
  /\ checkState' = 0
  /\ pcP' = "await"
  /\ UNCHANGED <<content, enqPtr, deqPtr, volatileValue, prow, pcol, pValue,
                 producerVectorResult, consumerVars, exited, faults>>

\* A bug that does not wait for the check of the row result.
CheckDone_Always == TRUE

(* The exit condition of while(checkState == 0).                           *)
CheckDone == checkState # 0

(* Leave the wait, store the result and begin the next row.                *)
ProducerStoreResult(start) ==
  /\ pcP = "await"
  /\ CheckDone
  /\ producerVectorResult' = [producerVectorResult EXCEPT ![prow] = pValue]
  /\ prow' = prow + 1
  /\ pcol' = 0
  /\ pValue' = 0
  /\ pcP' = IF prow + 1 = Rows THEN "done" ELSE start
  /\ UNCHANGED <<queueVars, consumerVars, exited, faults>>

-----------------------------------------------------------------------------
(* The consumer.  match is where ConsumerCheckAndMove goes on equality:    *)
(* "mark", or "move" in the variant that does not free the slot.           *)

\* A bug that accepts an entry without comparing it.
Compare_Accept(match) ==
  /\ pcC' = match
  /\ UNCHANGED exited

\* A bug that takes every difference for a producer that is behind.
Compare_Retry(match) ==
  /\ pcC' = IF cValue' = content[deqPtr] THEN match ELSE "spin"
  /\ UNCHANGED exited

Compare(match) ==
  \/ /\ cValue' = content[deqPtr]
     /\ pcC' = match
     /\ UNCHANGED exited
  \/ /\ cValue' # content[deqPtr]
     /\ exited' = TRUE
     /\ UNCHANGED pcC

(* Add the product; read the slot.  A free slot that differs from the sum  *)
(* means that the producer is behind: wait.                                *)
CheckEntry(match) ==
  /\ pcC = "check"
  /\ \E e \in Sums :
       /\ SoftError(e)
       /\ cValue' = cValue + Product[crow][ccol] + e
  /\ IF content[deqPtr] = ALREADY_CONSUMED /\ cValue' # ALREADY_CONSUMED
     THEN pcC' = "spin" /\ UNCHANGED exited
     ELSE Compare(match)
  /\ UNCHANGED <<queueVars, producerVars, crow, ccol, consumerVectorResult>>

SpinExit ==
  /\ pcC = "spin"
  /\ content[deqPtr] # ALREADY_CONSUMED
  /\ pcC' = "reread"
  /\ UNCHANGED <<queueVars, producerVars, crow, ccol, cValue,
                 consumerVectorResult, exited, faults>>

RereadEntry(match) ==
  /\ pcC = "reread"
  /\ UNCHANGED cValue
  /\ Compare(match)
  /\ UNCHANGED <<queueVars, producerVars, crow, ccol, consumerVectorResult,
                 faults>>

MarkEntry ==
  /\ pcC = "mark"
  /\ MarkConsumed
  /\ pcC' = "move"
  /\ UNCHANGED <<enqPtr, deqPtr, checkState, volatileValue, producerVars,
                 crow, ccol, cValue, consumerVectorResult, exited, faults>>

MovePastEntry ==
  /\ pcC = "move"
  /\ MoveDeqPtr
  /\ ccol' = ccol + 1
  /\ pcC' = IF ccol + 1 = Cols THEN "await" ELSE "check"
  /\ UNCHANGED <<content, enqPtr, checkState, volatileValue, producerVars,
                 crow, cValue, consumerVectorResult, exited, faults>>

AwaitRowResult ==
  /\ pcC = "await"
  /\ checkState # 1
  /\ pcC' = "verify"
  /\ UNCHANGED <<queueVars, producerVars, crow, ccol, cValue,
                 consumerVectorResult, exited, faults>>

VerifyRowResult ==
  /\ pcC = "verify"
  /\ IF cValue # volatileValue
     THEN exited' = TRUE /\ UNCHANGED pcC
     ELSE pcC' = "release" /\ UNCHANGED exited
  /\ UNCHANGED <<queueVars, producerVars, crow, ccol, cValue,
                 consumerVectorResult, faults>>

ReleaseProducer ==
  /\ pcC = "release"
  /\ checkState' = 1
  /\ pcC' = "store"
  /\ UNCHANGED <<content, enqPtr, deqPtr, volatileValue, producerVars, crow,
                 ccol, cValue, consumerVectorResult, exited, faults>>

ConsumerStoreResult ==
  /\ pcC = "store"
  /\ consumerVectorResult' = [consumerVectorResult EXCEPT ![crow] = cValue]
  /\ crow' = crow + 1
  /\ ccol' = 0
  /\ cValue' = 0
  /\ pcC' = IF crow + 1 = Rows THEN "done" ELSE "check"
  /\ UNCHANGED <<queueVars, producerVars, exited, faults>>

CheckRow ==
  AwaitRowResult \/ VerifyRowResult \/ ReleaseProducer \/ ConsumerStoreResult

ConsumerCheckAndMove ==
  \/ CheckEntry("mark") \/ SpinExit \/ RereadEntry("mark")
  \/ MarkEntry \/ MovePastEntry

ConsumerCheckAndMoveImproved ==
  CheckEntry("move") \/ SpinExit \/ RereadEntry("move") \/ MovePastEntry

AllDone == pcP = "done" /\ pcC = "done"

-----------------------------------------------------------------------------
(* The threads are never both done with one soft error, and no second one  *)
(* that could hide it, unannounced: each row is checked before it is left. *)
NoErrorMissed == AllDone /\ faults = 1 => exited

=============================================================================
