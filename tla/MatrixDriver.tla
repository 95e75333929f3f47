----------------------------- MODULE MatrixDriver -----------------------------
(***************************************************************************)
(* Vector_Matrix_Mult of VectorMatrixMult.c, which main calls: it executes *)
(* one mode after the other, each NUM_RUNS times, with an element sum of   *)
(* the result after every run.  The queue's content and the array of       *)
(* thread handles are allocated in the replicated runs, but released after *)
(* every run.                                                              *)
(*                                                                         *)
(* A replicated run is one step here, with the outcome that ReplicatedRows *)
(* allows and SoftErrorDetected promises; that the alarm may be a false    *)
(* one is the finding of the improved mode.  A result vector is "zero",    *)
(* "right" or "wrong", and so is a sum of one.                             *)
(***************************************************************************)
EXTENDS Naturals, Sequences

CONSTANTS
  NumRuns,     \* NUM_RUNS
  Schedules,   \* sequences of execution modes
  MaxFaults    \* how many soft errors strike a run at most

Modes == {"notReplicated", "replicatedSameThread", "replicatedThreads"}

(* What the release after every run is right for: there is nothing to      *)
(* release before the first replicated run, and a new allocation in each   *)
(* later one.  The first mode gives the time the others are related to.    *)
ASSUME ScheduleAssumption ==
  /\ NumRuns \in Nat \ {0} /\ MaxFaults \in Nat
  /\ \A s \in Schedules :
       /\ s \in Seq(Modes) /\ Len(s) > 0
       /\ s[1] = "notReplicated"
       /\ \A k \in 2 .. Len(s) :
            s[k - 1] = "replicatedThreads" => s[k] = "replicatedThreads"

VARIABLES
  schedule, mode, n, pc,
  matrix, content, threads,                     \* the state of heap blocks
  producerVectorResult, consumerVectorResult, matrixSum,
  baseLineMean,                                 \* known or not
  faults                                        \* soft errors of this run

heap == <<matrix, content, threads>>
results == <<producerVectorResult, consumerVectorResult>>
vars == <<schedule, mode, n, pc, heap, results, matrixSum, baseLineMean, faults>>

Vectors == {"zero", "right", "wrong"}
Misuse  == {"leaked", "freed twice"}
Blocks  == {"null", "live", "freed"} \cup Misuse

Malloc(block) == IF block = "live" THEN "leaked" ELSE "live"
Free(block) ==
  CASE block = "null"  -> "null"
    [] block = "live"  -> "freed"
    [] block = "freed" -> "freed twice"
    [] OTHER           -> block

TypeOK ==
  /\ schedule \in Schedules /\ mode \in 1 .. Len(schedule) + 1 /\ n \in 0 .. NumRuns
  /\ pc \in {"init", "run", "sum", "destroy", "release", "done", "exit"}
  /\ {matrix, content, threads} \subseteq Blocks
  /\ {producerVectorResult, consumerVectorResult, matrixSum} \subseteq Vectors
  /\ baseLineMean \in BOOLEAN
  /\ faults \in 0 .. MaxFaults

Init ==
  /\ schedule \in Schedules /\ mode = 1 /\ n = 0 /\ pc = "init"
  /\ matrix = "null" /\ content = "null" /\ threads = "null"
  /\ producerVectorResult = "zero" /\ consumerVectorResult = "zero"
  /\ matrixSum = "zero" /\ baseLineMean = FALSE /\ faults = 0

-----------------------------------------------------------------------------
Vector_Matrix_Init ==
  /\ pc = "init" /\ pc' = "run"
  /\ matrix' = Malloc(matrix)
  /\ UNCHANGED <<schedule, mode, n, content, threads, results, matrixSum,
                 baseLineMean, faults>>

Runs(executionMode) ==
  /\ pc = "run" /\ schedule[mode] = executionMode
  /\ faults' \in 0 .. MaxFaults
  /\ UNCHANGED <<schedule, mode, n, matrix, matrixSum, baseLineMean>>

(* A soft error goes unnoticed.                                            *)
Vector_Matrix_NotReplicated ==
  /\ Runs("notReplicated")
  /\ pc' = "sum"
  /\ producerVectorResult' = IF faults' = 0 THEN "right" ELSE "wrong"
  /\ UNCHANGED <<content, threads, consumerVectorResult>>

(* An error in one of two products ends the process, one in the sum is not *)
(* noticed; the result of the consumer is not written.                     *)
Vector_Matrix_ReplicatedSameThread ==
  /\ Runs("replicatedSameThread")
  /\ \/ pc' = "sum" /\ producerVectorResult' = IF faults' = 0 THEN "right" ELSE "wrong"
     \/ faults' > 0 /\ pc' = "exit" /\ producerVectorResult' = "wrong"
  /\ UNCHANGED <<content, threads, consumerVectorResult>>

\* A bug that takes the queue of the run before, if there is one.
InitQueue_Once == IF content = "null" THEN "live" ELSE content

InitQueue == Malloc(content)

(* Both threads end with the right results, or the alarm ends the process; *)
(* two errors may hide each other.                                         *)
Vector_Matrix_ReplicatedThreads ==
  /\ Runs("replicatedThreads")
  /\ content' = InitQueue /\ threads' = Malloc(threads)
  /\ \/ /\ pc' = "sum" /\ faults' # 1
        /\ \E result \in {"right"} \cup (IF faults' = 0 THEN {} ELSE {"wrong"}) :
             producerVectorResult' = result /\ consumerVectorResult' = result
     \/ pc' = "exit" /\ UNCHANGED results

-----------------------------------------------------------------------------
(* For replicatedSameThread, what the two results agree on.                *)
Sum ==
  IF schedule[mode] = "replicatedSameThread" /\ producerVectorResult # consumerVectorResult
  THEN "zero" ELSE producerVectorResult

SumUp ==
  /\ pc = "sum" /\ pc' = "destroy"
  /\ matrixSum' = Sum
  /\ UNCHANGED <<schedule, mode, n, heap, results, baseLineMean, faults>>

(* SimpleSyncQueue_Destroy and THREAD_UTILS_DestroyThreads; neither forgets*)
(* its pointer.  After the last run the mean is printed, in relation to the*)
(* base line, and the next mode begins.                                    *)
DestroyAndGoOn ==
  LET last == n + 1 = NumRuns IN
  /\ pc = "destroy"
  /\ content' = Free(content) /\ threads' = Free(threads)
  /\ n' = IF last THEN 0 ELSE n + 1
  /\ mode' = IF last THEN mode + 1 ELSE mode
  /\ pc' = IF mode' > Len(schedule) THEN "release" ELSE "run"
  /\ baseLineMean' = (baseLineMean \/ (last /\ schedule[mode] = "notReplicated"))
  /\ UNCHANGED <<schedule, matrix, results, matrixSum, faults>>

ReleaseMatrix ==
  /\ pc = "release" /\ pc' = "done"
  /\ matrix' = Free(matrix)
  /\ UNCHANGED <<schedule, mode, n, content, threads, results, matrixSum,
                 baseLineMean, faults>>

Next ==
  \/ Vector_Matrix_Init
  \/ Vector_Matrix_NotReplicated
  \/ Vector_Matrix_ReplicatedSameThread
  \/ Vector_Matrix_ReplicatedThreads
  \/ SumUp
  \/ DestroyAndGoOn
  \/ ReleaseMatrix
  \/ pc \in {"done", "exit"} /\ UNCHANGED vars

Spec == Init /\ [][Next]_vars

-----------------------------------------------------------------------------
(* Every block is allocated and released in turns over the runs and modes, *)
(* though the release does not ask whether the run allocated anything.     *)
HeapSound ==
  /\ {matrix, content, threads} \cap Misuse = {}
  /\ pc = "done" => "live" \notin {matrix, content, threads}

(* The sum printed after a replicated run is right in spite of a soft      *)
(* error; one printed after a run that is not replicated is right without. *)
(* After replicatedSameThread it is no more than what agrees with a result *)
(* of the consumer, which that mode does not calculate.                    *)
PrintedSumIsRight ==
  pc = "destroy" =>
    CASE schedule[mode] = "replicatedThreads"    -> faults <= 1 => matrixSum = "right"
      [] schedule[mode] = "notReplicated"        -> faults = 0 => matrixSum = "right"
      [] schedule[mode] = "replicatedSameThread" -> matrixSum \in {"zero", "right"}
                                                      \/ faults > 0

(* The types, HeapSound, PrintedSumIsRight, and no mean is related to an   *)
(* unknown base line.                                                      *)
DriverInv ==
  /\ TypeOK /\ HeapSound /\ PrintedSumIsRight
  /\ mode > 1 => baseLineMean

=============================================================================
