------------------------------ MODULE MCPrograms ------------------------------
(***************************************************************************)
(* The driver of the matrix product, and the tests of TestAtomicOps.c,     *)
(* TestCoreAffinity.c and of ThreadUtils.c for TLC: a behaviour is one of  *)
(* them.  Variables of the programs that do not run are 0.                 *)
(***************************************************************************)
EXTENDS MatrixDriver, ThreadTestParameters

VARIABLES
  program,
  executionType, hoisted, i, tempResult, localTempResult, globalTempResults,
  hyperThreadsFinished, waiting,                           \* CoreAffinity
  func, counter, numAborts, hyperThreadFinished,           \* AtomicOps
  numThreads, memory, slot, handle, index                  \* ThreadUtils

driverOnly   == <<schedule, mode, n, heap, results, matrixSum, baseLineMean>>
affinityOnly == <<executionType, tempResult, localTempResult, globalTempResults,
                  hyperThreadsFinished>>
atomicOnly   == <<func, counter, numAborts, hyperThreadFinished>>
utilsOnly    == <<numThreads, memory, slot, handle, index>>
twoThreads   == <<hoisted, i, waiting>>    \* of CoreAffinity and AtomicOps
allVars == <<program, driverOnly, affinityOnly, atomicOnly, utilsOnly, twoThreads, pc, faults>>

Affinity == INSTANCE CoreAffinity
Atomic   == INSTANCE AtomicOps
Utils    == INSTANCE ThreadUtils

(* The schedule of Vector_Matrix_Mult, and one with the mode that it does  *)
(* not execute at present.                                                 *)
MCSchedules ==
  {<<"notReplicated", "replicatedThreads", "replicatedThreads">>,
   <<"notReplicated", "replicatedSameThread", "replicatedThreads">>}

NoDriver ==
  /\ schedule = 0 /\ mode = 0 /\ n = 0 /\ matrix = 0 /\ content = 0 /\ threads = 0
  /\ producerVectorResult = 0 /\ consumerVectorResult = 0
  /\ matrixSum = 0 /\ baseLineMean = 0
NoAffinity ==
  /\ executionType = 0 /\ tempResult = 0 /\ localTempResult = 0
  /\ globalTempResults = 0 /\ hyperThreadsFinished = 0
NoAtomic == func = 0 /\ counter = 0 /\ numAborts = 0 /\ hyperThreadFinished = 0
NoUtils  == numThreads = 0 /\ memory = 0 /\ slot = 0 /\ handle = 0 /\ index = 0
NoTwoThreads == hoisted = 0 /\ i = 0 /\ waiting = 0

InDriver   == program = "MatrixDriver"
InAffinity == program = "CoreAffinity"
InAtomic   == program = "AtomicOps"
InUtils    == program = "ThreadUtils"

ProgramInit ==
  \/ program = "MatrixDriver" /\ Init
       /\ NoAffinity /\ NoAtomic /\ NoUtils /\ NoTwoThreads
  \/ program = "CoreAffinity" /\ Affinity!Init
       /\ NoDriver /\ NoAtomic /\ NoUtils
  \/ program = "AtomicOps" /\ Atomic!Init
       /\ NoDriver /\ NoAffinity /\ NoUtils /\ faults = 0
  \/ program = "ThreadUtils" /\ Utils!Init
       /\ NoDriver /\ NoAffinity /\ NoAtomic /\ NoTwoThreads /\ faults = 0

(* A step of a program leaves the variables of the others alone.           *)
DriverStep(A) ==
  InDriver /\ A /\ UNCHANGED <<program, affinityOnly, atomicOnly, utilsOnly, twoThreads>>
AffinityStep(A) ==
  InAffinity /\ A /\ UNCHANGED <<program, driverOnly, atomicOnly, utilsOnly>>
AtomicStep(A) ==
  InAtomic /\ A /\ UNCHANGED <<program, driverOnly, affinityOnly, utilsOnly, faults>>
UtilsStep(A) ==
  InUtils /\ A
    /\ UNCHANGED <<program, driverOnly, affinityOnly, atomicOnly, twoThreads, faults>>

ProgramNext ==
  \/ DriverStep(Next)
  \/ AffinityStep(Affinity!Next)
  \/ AtomicStep(Atomic!Next)
  \/ UtilsStep(Utils!Next)

(* The fairness of the programs.                                           *)
Fairness ==
  /\ \A t \in 0 .. 3 : WF_allVars(AffinityStep(Affinity!ThreadStep(t)))
  /\ WF_allVars(AtomicStep(Atomic!MainStep))
  /\ WF_allVars(AtomicStep(Atomic!ReplicaStep))

ProgramSpec == ProgramInit /\ [][ProgramNext]_allVars /\ Fairness

-----------------------------------------------------------------------------
(* MatrixDriver: blocks are allocated and released in turns, and the sums  *)
(* printed after replicated runs are right.                                *)
MatrixDriverInv == InDriver => DriverInv

(* CoreAffinity: without a soft error on its core a main thread compares   *)
(* the results of one iteration and loses none.                            *)
AffinityInv == InAffinity => Affinity!AffinityInv

(* CoreAffinity: a single soft error on a core never gets into a sum.      *)
AddedIsRight == InAffinity => Affinity!AddedIsRight

(* CoreAffinity: the threads end, in builds that read the flag each time.  *)
AffinityEnds ==
  [](InAffinity => Affinity!NoneStuck) => <>(InAffinity => Affinity!AllEnded)

(* AtomicOps: the functions 1 to 4 lose no iteration and function 6 counts *)
(* none twice; no barrier is overrun; and a transaction that saw the       *)
(* replica's flag finds its result.                                        *)
AtomicOpsInv == InAtomic => Atomic!AtomicOpsInv

(* AtomicOps: the threads end unless the main thread had to wait after an  *)
(* abort, in builds that read the shared variable each time.               *)
AtomicOpsEnds ==
  [](InAtomic => Atomic!NoneStuck) => <>(InAtomic => Atomic!AllEnded)

(* ThreadUtils: no thread gets the index of another child.                 *)
IndexInv == InUtils => Utils!IndexInv

=============================================================================
