--------------------------- MODULE MCPrograms_proofs ---------------------------
(***************************************************************************)
(* The safety of the matrix driver and of the tests of TestAtomicOps.c,    *)
(* TestCoreAffinity.c and ThreadUtils.c, for all the constants: one part   *)
(* per program with its inductive invariant, and at the end the invariants *)
(* of the behaviours of any of them.                                       *)
(***************************************************************************)
EXTENDS MCPrograms, FiniteSetTheorems, SequenceTheorems, TLAPS

(* The instances of the tests count as this module does.                   *)
LEMMA SameCount ==
  ASSUME NEW S
  PROVE  /\ Affinity!Cardinality(S) = Cardinality(S)
         /\ Atomic!Cardinality(S) = Cardinality(S)
         /\ Utils!Cardinality(S) = Cardinality(S)
BY DEF Affinity!Cardinality, Atomic!Cardinality, Utils!Cardinality, Cardinality

-----------------------------------------------------------------------------
(* MatrixDriver.  What of the heap is allocated: the matrix from the start *)
(* to the release, the queue and the handles in a replicated run.  Once    *)
(* they are not null any more, all runs to come allocate them again.       *)
DriverHeap ==
  /\ matrix = CASE pc = "init" -> "null" [] pc = "done" -> "freed" [] OTHER -> "live"
  /\ threads = content
  /\ content = "null" \/ content = "freed" \/ content = "live"
  /\ content = "live" => pc = "sum" \/ pc = "destroy" \/ pc = "exit"
  /\ content # "null" /\ mode <= Len(schedule) => schedule[mode] = "replicatedThreads"
  /\ (pc = "sum" \/ pc = "destroy") /\ schedule[mode] = "replicatedThreads" =>
       content = "live"

(* A run leaves a right result if it is to.                                *)
DriverResults ==
  pc = "sum" =>
    IF schedule[mode] = "replicatedThreads"
    THEN faults <= 1 => producerVectorResult = "right"
    ELSE faults = 0 => producerVectorResult = "right"

DriverCounts ==
  /\ pc = "init" => mode = 1 /\ n = 0
  /\ pc = "run" \/ pc = "sum" \/ pc = "destroy" => mode <= Len(schedule) /\ n < NumRuns
  /\ mode > 1 => baseLineMean

DriverIInv ==
  /\ TypeOK /\ PrintedSumIsRight /\ DriverHeap /\ DriverResults /\ DriverCounts

(* The invariant holds at first.                                           *)
LEMMA DriverInit == Init => DriverIInv
<1> SUFFICES ASSUME Init
             PROVE  DriverIInv
  OBVIOUS
<1> USE DEF Init
<1>1. /\ NumRuns \in Nat \ {0} /\ MaxFaults \in Nat
      /\ schedule \in Seq(Modes) /\ Len(schedule) > 0 /\ schedule[1] = "notReplicated"
  BY ScheduleAssumption
<1>2. Len(schedule) \in Nat
  BY <1>1, LenProperties
<1>3. TypeOK
  <2>1. 1 \in 1 .. Len(schedule) + 1 /\ 0 \in 0 .. NumRuns /\ 0 \in 0 .. MaxFaults
    BY <1>1, <1>2
  <2> QED  BY <2>1 DEF TypeOK, Blocks, Vectors
<1>4. PrintedSumIsRight /\ DriverHeap /\ DriverResults /\ DriverCounts
  BY DEF PrintedSumIsRight, DriverHeap, DriverResults, DriverCounts
<1> QED  BY <1>3, <1>4 DEF DriverIInv

(* It implies what the runs check of Vector_Matrix_Mult.                   *)
LEMMA DriverSound == DriverIInv => DriverInv
<1> SUFFICES ASSUME DriverIInv
             PROVE  DriverInv
  OBVIOUS
<1>1. HeapSound
  BY DEF DriverIInv, DriverHeap, HeapSound, Misuse
<1>2. TypeOK /\ PrintedSumIsRight /\ (mode > 1 => baseLineMean)
  BY DEF DriverIInv, DriverCounts
<1> QED  BY <1>1, <1>2 DEF DriverInv

(* Every run of a mode, sum and release keeps it.                          *)
LEMMA DriverNext == DriverIInv /\ [Next]_vars => DriverIInv'
<1> SUFFICES ASSUME DriverIInv, [Next]_vars
             PROVE  DriverIInv'
  OBVIOUS
<1> USE DEF DriverIInv, heap, results
<1>1. /\ NumRuns \in Nat \ {0} /\ MaxFaults \in Nat
      /\ schedule \in Seq(Modes) /\ Len(schedule) > 0 /\ schedule[1] = "notReplicated"
      /\ \A k \in 2 .. Len(schedule) :
           schedule[k - 1] = "replicatedThreads" => schedule[k] = "replicatedThreads"
  BY ScheduleAssumption DEF TypeOK
<1>2. Len(schedule) \in Nat \ {0} /\ mode \in 1 .. Len(schedule) + 1 /\ n \in 0 .. NumRuns
  BY <1>1, LenProperties DEF TypeOK
<1>3. ASSUME mode <= Len(schedule)
      PROVE  schedule[mode] \in Modes
  BY <1>1, <1>2, <1>3, ElementOfSeq
<1>4. CASE Vector_Matrix_Init
  <2> USE <1>4 DEF Vector_Matrix_Init
  <2>1. matrix' = "live"
    BY DEF Malloc, DriverHeap
  <2>2. TypeOK'
    BY <2>1 DEF TypeOK, Blocks
  <2>3. DriverHeap' /\ DriverResults' /\ PrintedSumIsRight'
    BY <2>1 DEF DriverHeap, DriverResults, PrintedSumIsRight
  <2>4. DriverCounts'
    BY <1>1, <1>2 DEF DriverCounts
  <2> QED  BY <2>2, <2>3, <2>4
<1>5. ASSUME NEW executionMode \in {"notReplicated", "replicatedSameThread"},
             Runs(executionMode), UNCHANGED <<content, threads, consumerVectorResult>>,
             pc' = "sum" \/ pc' = "exit", producerVectorResult' \in {"right", "wrong"},
             pc' = "sum" /\ faults' = 0 => producerVectorResult' = "right"
      PROVE  DriverIInv'
  <2> USE <1>5 DEF Runs
  <2>1. TypeOK'
    BY DEF TypeOK, Vectors
  <2>2. DriverHeap'
    BY <1>2 DEF DriverHeap, DriverCounts
  <2>3. DriverResults' /\ PrintedSumIsRight'
    BY DEF DriverResults, PrintedSumIsRight
  <2>4. DriverCounts'
    BY DEF DriverCounts
  <2> QED  BY <2>1, <2>2, <2>3, <2>4
<1>6. CASE Vector_Matrix_NotReplicated
  BY <1>5, <1>6 DEF Vector_Matrix_NotReplicated
<1>7. CASE Vector_Matrix_ReplicatedSameThread
  BY <1>5, <1>7 DEF Vector_Matrix_ReplicatedSameThread
<1>8. CASE Vector_Matrix_ReplicatedThreads
  <2> USE <1>8 DEF Vector_Matrix_ReplicatedThreads, Runs
  <2>1. content' = "live" /\ threads' = "live"
    BY DEF InitQueue, Malloc, DriverHeap
  <2>2. TypeOK'
    BY <2>1 DEF TypeOK, Vectors, Blocks
  <2>3. DriverHeap'
    BY <1>2, <2>1 DEF DriverHeap, DriverCounts
  <2>4. DriverResults' /\ PrintedSumIsRight'
    <3>1. faults' \in Nat
      BY <1>1
    <3>2. \/ pc' = "sum" /\ faults' # 1 /\ (faults' = 0 => producerVectorResult' = "right")
          \/ pc' = "exit"
      OBVIOUS
    <3>3. faults' <= 1 /\ pc' = "sum" => faults' = 0
      BY <3>1, <3>2
    <3> HIDE <1>8 DEF Vector_Matrix_ReplicatedThreads, Runs
    <3> QED  BY <3>2, <3>3 DEF DriverResults, PrintedSumIsRight
  <2>5. DriverCounts'
    BY DEF DriverCounts
  <2> QED  BY <2>2, <2>3, <2>4, <2>5
<1>9. CASE SumUp
  <2> USE <1>9 DEF SumUp
  <2>1. schedule[mode] \in Modes
    BY <1>3 DEF DriverCounts
  <2>2. matrixSum' = Sum /\ Sum \in {"zero", producerVectorResult}
    BY DEF Sum
  <2>3. TypeOK'
    BY <2>2 DEF TypeOK, Vectors
  <2>4. DriverHeap' /\ DriverResults' /\ DriverCounts'
    BY DEF DriverHeap, DriverResults, DriverCounts
  <2>5. PrintedSumIsRight'
    <3>1. faults \in Nat
      BY <1>1 DEF TypeOK
    <3>2. CASE schedule[mode] = "replicatedThreads"
      BY <2>2, <3>2 DEF Sum, DriverResults, PrintedSumIsRight
    <3>3. CASE schedule[mode] = "notReplicated"
      BY <2>2, <3>3 DEF Sum, DriverResults, PrintedSumIsRight
    <3>4. CASE schedule[mode] = "replicatedSameThread"
      BY <2>2, <3>1, <3>4 DEF Sum, DriverResults, PrintedSumIsRight
    <3> QED  BY <2>1, <3>2, <3>3, <3>4 DEF Modes
  <2> QED  BY <2>3, <2>4, <2>5
<1>10. CASE DestroyAndGoOn
  <2> USE <1>10 DEF DestroyAndGoOn
  <2>1. /\ mode \in Nat \ {0} /\ mode <= Len(schedule) /\ n \in Nat /\ n < NumRuns
        /\ mode' \in {mode, mode + 1} /\ n' \in 0 .. NumRuns - 1
        /\ pc' = IF mode' > Len(schedule) THEN "release" ELSE "run"
    BY <1>1, <1>2 DEF DriverCounts
  <2>2. content' \in {"null", "freed"} /\ threads' = content'
        /\ (content' = "null" <=> content = "null")
    <3>1. content = "null" \/ content = "freed" \/ content = "live"
      BY DEF DriverHeap
    <3>2. content # "freed"
      BY <2>1 DEF DriverHeap
    <3> QED  BY <3>1, <3>2 DEF DriverHeap, Free
  <2>3. TypeOK'
    BY <1>1, <1>2, <2>1, <2>2 DEF TypeOK, Blocks
  <2>4. PrintedSumIsRight' /\ DriverResults'
    BY <2>1 DEF PrintedSumIsRight, DriverResults
  <2>5. DriverHeap'
    <3>1. ASSUME content' # "null", mode' <= Len(schedule)
          PROVE  schedule[mode'] = "replicatedThreads"
      <4>1. schedule[mode] = "replicatedThreads"
        BY <2>1, <2>2, <3>1 DEF DriverHeap
      <4>2. CASE mode' = mode
        BY <4>1, <4>2
      <4>3. CASE mode' = mode + 1
        <5>1. mode' \in 2 .. Len(schedule) /\ mode' - 1 = mode
          BY <1>2, <2>1, <3>1, <4>3
        <5> QED  BY <1>1, <4>1, <5>1
      <4> QED  BY <2>1, <4>2, <4>3
    <3> QED  BY <2>1, <2>2, <3>1 DEF DriverHeap
  <2>6. DriverCounts'
    <3>1. mode' > 1 => baseLineMean'
      <4>1. CASE mode > 1
        BY <4>1 DEF DriverCounts
      <4>2. CASE mode = 1 /\ mode' > 1
        <5>1. n + 1 = NumRuns /\ schedule[mode] = "notReplicated"
          BY <1>1, <4>2
        <5> QED  BY <5>1
      <4> QED  BY <2>1, <4>1, <4>2
    <3>2. pc' = "run" => mode' <= Len(schedule)
      BY <1>2, <2>1
    <3> QED  BY <1>1, <2>1, <3>1, <3>2 DEF DriverCounts
  <2> QED  BY <2>3, <2>4, <2>5, <2>6
<1>11. CASE ReleaseMatrix
  <2> USE <1>11 DEF ReleaseMatrix
  <2>1. matrix' = "freed"
    BY DEF Free, DriverHeap
  <2>2. TypeOK'
    BY <2>1 DEF TypeOK, Blocks
  <2>3. DriverHeap' /\ DriverResults' /\ PrintedSumIsRight' /\ DriverCounts'
    BY <2>1 DEF DriverHeap, DriverResults, PrintedSumIsRight, DriverCounts
  <2> QED  BY <2>2, <2>3
<1>12. CASE UNCHANGED vars
  BY <1>12
  DEF vars, TypeOK, DriverHeap, DriverResults, PrintedSumIsRight, DriverCounts
<1> QED
  BY <1>4, <1>6, <1>7, <1>8, <1>9, <1>10, <1>11, <1>12 DEF Next

-----------------------------------------------------------------------------
(* ThreadUtils.  While a test runs, the threads 0 .. k were started; those *)
(* of them that are not joined have a handle.                              *)
UtilsStarted ==
  /\ memory = "live"
  /\ slot \in [1 .. numThreads - 1 -> Handles]
  /\ \E k \in 0 .. numThreads - 1 :
       DOMAIN index = 0 .. k /\ (pc # "start" => k = numThreads - 1)
  /\ DOMAIN handle \subseteq DOMAIN index
  /\ pc = "start" => DOMAIN handle = DOMAIN index
  /\ pc = "run" => DOMAIN handle = DOMAIN index
  /\ pc = "destroy" => DOMAIN handle = {0}

(* The entries of the threads that were started are different, also after  *)
(* a thread was joined; the others hold anything.                          *)
UtilsSlots ==
  /\ \A t \in DOMAIN handle : t # 0 => slot[t] = handle[t]
  /\ \A t \in DOMAIN index : t # 0 =>
       /\ slot[t] # handle[0]
       /\ \A u \in DOMAIN index : u # 0 /\ u # t => slot[u] # slot[t]

UtilsIInv ==
  /\ Utils!IndexInv
  /\ index \in [DOMAIN index -> 0 .. MaxThreads - 1 \cup {-1}]
  /\ pc # "idle" => numThreads > 0
  /\ IF pc = "idle" \/ pc = "create"
     THEN DOMAIN handle = {0} /\ (pc = "create" => DOMAIN index = {0})
     ELSE UtilsStarted /\ UtilsSlots

(* Before the first test there are no threads but the main one.            *)
LEMMA UtilsInit == Utils!Init => UtilsIInv
<1> SUFFICES ASSUME Utils!Init
             PROVE  UtilsIInv
  OBVIOUS
<1> USE DEF Utils!Init, Utils!Unknown
<1>1. MaxThreads \in Nat \ {0}
  BY ThreadTestAssumption
<1>2. PICK h \in Handles : handle = [t \in {0} |-> h]
  OBVIOUS
<1>3. Utils!TypeOK
  BY <1>1, <1>2 DEF Utils!TypeOK
<1>4. Utils!OwnIndexOrZero /\ Utils!ArrayOutlivesThreads
  BY <1>2 DEF Utils!OwnIndexOrZero, Utils!ArrayOutlivesThreads, Utils!LookedUp
<1> QED  BY <1>1, <1>2, <1>3, <1>4 DEF UtilsIInv, Utils!IndexInv

(* The search finds a started thread at its own entry or at the first one: *)
(* the entries before its own are those of other threads.                  *)
LEMMA FirstMatch ==
  ASSUME UtilsIInv, pc \in {"start", "run", "join"},
         NEW t \in DOMAIN handle, t = 0 => pc = "run", NEW dead
  PROVE  Utils!THREAD_UTILS_GetThreadIndex(handle[t], dead) \in {0, t}
<1> DEFINE M == Utils!Matches(handle[t], dead)
           first == CHOOSE j \in M : \A k \in M : j <= k
<1>1. /\ numThreads \in Nat \ {0}
      /\ UtilsStarted /\ UtilsSlots
  BY ThreadTestAssumption DEF UtilsIInv, Utils!IndexInv, Utils!TypeOK
<1>2. PICK k \in 0 .. numThreads - 1 :
        DOMAIN index = 0 .. k /\ (pc # "start" => k = numThreads - 1)
  BY <1>1 DEF UtilsStarted
<1>3. t \in 0 .. k /\ k \in Nat
  BY <1>1, <1>2 DEF UtilsStarted
<1>4. \A j \in M : j \in 0 .. numThreads - 1 /\ (j # 0 => handle[t] = slot[j])
  BY DEF Utils!Matches, Utils!Threads
<1>5. ASSUME NEW j \in M, j # 0, j # t
      PROVE  t # 0 /\ j > t
  <2>1. ASSUME j \in 0 .. k
        PROVE  FALSE
    <3>1. CASE t = 0
      BY <1>1, <1>2, <1>4, <1>5, <2>1, <3>1 DEF UtilsSlots
    <3>2. CASE t # 0
      BY <1>1, <1>2, <1>3, <1>4, <1>5, <2>1, <3>2 DEF UtilsSlots
    <3> QED  BY <3>1, <3>2
  <2>2. j > k /\ pc = "start"
    BY <1>1, <1>2, <1>4, <2>1
  <2> QED  BY <1>3, <1>4, <2>2
<1>6. t # 0 => t \in M
  BY <1>1, <1>2, <1>3 DEF UtilsSlots, Utils!Matches, Utils!Threads
<1>7. ASSUME M # {}
      PROVE  \E j \in M : j \in {0, t} /\ \A l \in M : j <= l
  <2>1. CASE 0 \in M
    BY <1>4, <2>1
  <2>2. CASE 0 \notin M
    <3>1. t # 0 /\ t \in M
      BY <1>5, <1>6, <1>7, <2>2
    <3>2. \A l \in M : t <= l
      BY <1>3, <1>4, <1>5, <2>2
    <3> QED  BY <3>1, <3>2
  <2> QED  BY <2>1, <2>2
<1>8. M # {} => first \in {0, t}
  <2> SUFFICES ASSUME M # {}
               PROVE  first \in {0, t}
    OBVIOUS
  <2>1. PICK j \in M : j \in {0, t} /\ \A l \in M : j <= l
    BY <1>7
  <2>2. first \in M /\ \A l \in M : first <= l
    BY <2>1
  <2> HIDE DEF first, M
  <2>3. first \in Int /\ j \in Int
    BY <1>4, <2>1, <2>2
  <2>4. first <= j /\ j <= first
    BY <2>1, <2>2
  <2> QED  BY <2>1, <2>3, <2>4
<1> QED  BY <1>8 DEF Utils!THREAD_UTILS_GetThreadIndex

(* Every step of ThreadUtils.c, and every look-up by a thread, keeps it.   *)
LEMMA UtilsNext == UtilsIInv /\ [Utils!Next]_(Utils!vars) => UtilsIInv'
<1> SUFFICES ASSUME UtilsIInv, [Utils!Next]_(Utils!vars)
             PROVE  UtilsIInv'
  OBVIOUS
<1> DEFINE Results == 0 .. MaxThreads - 1 \cup {-1}
<1>1. /\ MaxThreads \in Nat \ {0} /\ numThreads \in 0 .. MaxThreads
      /\ pc \in {"idle", "create", "start", "run", "join", "destroy"}
      /\ \A j \in DOMAIN slot : slot[j] \in Handles
      /\ 0 \in DOMAIN handle /\ DOMAIN handle \subseteq 0 .. numThreads - 1 \cup {0}
      /\ \A s, t \in DOMAIN handle : s # t => handle[s] # handle[t]
      /\ index \in [DOMAIN index -> Results]
      /\ \A t \in DOMAIN index : index[t] # -1 => index[t] \in {0, t}
      /\ memory \in {"null", "live", "freed"}
      /\ memory = "live" \/ DOMAIN handle = {0}
      /\ pc # "idle" => numThreads > 0
  BY ThreadTestAssumption
  DEF UtilsIInv, Utils!IndexInv, Utils!TypeOK, Utils!Threads, Utils!OwnIndexOrZero,
      Utils!LookedUp, Utils!Unknown, Utils!ArrayOutlivesThreads
(* What is left to show of a step.                                         *)
<1>2. ASSUME /\ numThreads' \in 0 .. MaxThreads
             /\ pc' \in {"idle", "create", "start", "run", "join", "destroy"}
             /\ \A j \in DOMAIN slot' : slot'[j] \in Handles
             /\ 0 \in DOMAIN handle' /\ DOMAIN handle' \subseteq 0 .. numThreads' - 1 \cup {0}
             /\ \A s, t \in DOMAIN handle' : s # t => handle'[s] # handle'[t]
             /\ index' \in [DOMAIN index' -> Results]
             /\ \A t \in DOMAIN index' : index'[t] # -1 => index'[t] \in {0, t}
             /\ memory' \in {"null", "live", "freed"}
             /\ pc' # "idle" => numThreads' > 0,
             IF pc' = "idle" \/ pc' = "create"
             THEN DOMAIN handle' = {0} /\ (pc' = "create" => DOMAIN index' = {0})
             ELSE UtilsStarted' /\ UtilsSlots'
      PROVE  UtilsIInv'
  <2>1. Utils!TypeOK'
    BY <1>2 DEF Utils!TypeOK, Utils!Threads, Utils!Unknown
  <2>2. Utils!OwnIndexOrZero'
    BY <1>2 DEF Utils!OwnIndexOrZero, Utils!LookedUp, Utils!Unknown
  <2>3. Utils!ArrayOutlivesThreads'
    BY <1>2 DEF Utils!ArrayOutlivesThreads, UtilsStarted
  <2> QED  BY <1>2, <2>1, <2>2, <2>3 DEF UtilsIInv, Utils!IndexInv
(* The first branch of the invariant's last conjunct, or the second.       *)
<1>3. /\ pc = "idle" \/ pc = "create" => DOMAIN handle = {0}
      /\ pc = "create" => DOMAIN index = {0}
      /\ pc \notin {"idle", "create"} => UtilsStarted /\ UtilsSlots
  BY DEF UtilsIInv
<1>4. CASE Utils!THREAD_UTILS_SetNumThreads
  <2>1. /\ pc = "idle" /\ pc' = "create" /\ numThreads' \in 1 .. MaxThreads
        /\ index' = [t \in {0} |-> -1] /\ UNCHANGED <<memory, slot, handle>>
    BY <1>4 DEF Utils!THREAD_UTILS_SetNumThreads, Utils!Unknown
  <2> QED  BY <1>1, <1>2, <1>3, <2>1
<1>5. CASE Utils!THREAD_UTILS_CreateThreads
  <2>1. /\ pc = "create" /\ pc' = "start" /\ memory' = "live"
        /\ slot' \in [1 .. numThreads - 1 -> Handles]
        /\ UNCHANGED <<numThreads, handle, index>>
    BY <1>5 DEF Utils!THREAD_UTILS_CreateThreads, Utils!Children
  <2>2. DOMAIN handle = {0} /\ DOMAIN index = {0} /\ numThreads \in Nat \ {0}
    BY <1>1, <1>3, <2>1
  <2>3. UtilsStarted'
    <3>1. 0 \in 0 .. numThreads - 1 /\ {0} = 0 .. 0
      BY <2>2
    <3> QED  BY <2>1, <2>2, <3>1 DEF UtilsStarted
  <2>4. UtilsSlots'
    BY <2>1, <2>2 DEF UtilsSlots
  <2> QED  BY <1>1, <1>2, <2>1, <2>2, <2>3, <2>4
<1>6. ASSUME NEW j \in Utils!Children, Utils!StartThread(j)
      PROVE  UtilsIInv'
  <2>1. /\ pc = "start" /\ j \in 1 .. numThreads - 1
        /\ j = Cardinality(DOMAIN handle)
        /\ index' = [t \in DOMAIN index \cup {j} |-> IF t = j THEN -1 ELSE index[t]]
        /\ UNCHANGED <<pc, numThreads, memory>>
    BY <1>6, SameCount DEF Utils!StartThread, Utils!Unknown, Utils!Children
  <2>2. PICK h \in Handles \ {handle[t] : t \in DOMAIN handle} :
          /\ slot' = [slot EXCEPT ![j] = h]
          /\ handle' = [t \in DOMAIN handle \cup {j} |-> IF t = j THEN h ELSE handle[t]]
    BY <1>6 DEF Utils!StartThread
  <2>3. UtilsStarted /\ UtilsSlots /\ DOMAIN handle = DOMAIN index
    BY <1>3, <2>1 DEF UtilsStarted
  <2>4. PICK k \in 0 .. numThreads - 1 : DOMAIN index = 0 .. k
    BY <2>3 DEF UtilsStarted
  <2>5. j = k + 1 /\ k \in Nat
    <3>1. k \in Nat /\ 0 \in Int /\ k \in Int /\ 0 <= k
      OBVIOUS
    <3>2. Cardinality(0 .. k) = k - 0 + 1
      BY <3>1, FS_Interval
    <3> QED  BY <2>1, <2>3, <2>4, <3>1, <3>2
  <2>6. DOMAIN index' = 0 .. j /\ DOMAIN handle' = 0 .. j /\ j \notin DOMAIN index
    <3>1. (0 .. k) \cup {j} = 0 .. j /\ j \notin 0 .. k
      BY <2>5
    <3> QED  BY <2>1, <2>2, <2>3, <2>4, <3>1
  <2>7. /\ slot' \in [1 .. numThreads - 1 -> Handles] /\ slot'[j] = h
        /\ \A t \in 1 .. numThreads - 1 : t # j => slot'[t] = slot[t]
    BY <2>1, <2>2, <2>3 DEF UtilsStarted
  <2>8. /\ handle'[j] = h /\ index'[j] = -1
        /\ \A t \in DOMAIN index : /\ t # j /\ t \in DOMAIN index'
                                   /\ handle'[t] = handle[t] /\ index'[t] = index[t]
                                   /\ h # handle[t] /\ (t # 0 => slot'[t] = slot[t])
        /\ \A t \in DOMAIN index' : t = j \/ t \in DOMAIN index
    BY <2>1, <2>2, <2>3, <2>4, <2>5, <2>6, <2>7
  <2>9. UtilsStarted'
    <3>1. j \in 0 .. numThreads - 1
      BY <2>1
    <3> QED  BY <2>1, <2>3, <2>6, <2>7, <3>1 DEF UtilsStarted
  <2>10. UtilsSlots'
    <3>1. 0 \in DOMAIN index /\ j # 0
      BY <1>1, <2>1, <2>3
    <3>2. ASSUME NEW t \in DOMAIN handle', t # 0
          PROVE  slot'[t] = handle'[t]
      BY <2>3, <2>6, <2>7, <2>8, <3>2 DEF UtilsSlots
    <3>3. ASSUME NEW t \in DOMAIN index', t # 0
          PROVE  slot'[t] # handle'[0]
      BY <2>3, <2>7, <2>8, <3>1, <3>3 DEF UtilsSlots
    <3>4. ASSUME NEW t \in DOMAIN index', t # 0, NEW u \in DOMAIN index', u # 0, u # t
          PROVE  slot'[u] # slot'[t]
      <4>1. \A v \in DOMAIN index : v # 0 => slot'[v] = slot[v] /\ slot[v] = handle[v]
        BY <2>3, <2>8 DEF UtilsSlots
      <4> QED  BY <2>3, <2>7, <2>8, <3>4, <4>1 DEF UtilsSlots
    <3> QED  BY <3>2, <3>3, <3>4 DEF UtilsSlots
  <2>11. index' \in [DOMAIN index' -> Results]
    BY <1>1, <2>1, <2>6
  <2>12. \A s, t \in DOMAIN handle' : s # t => handle'[s] # handle'[t]
    BY <1>1, <2>3, <2>6, <2>8
  <2>13. DOMAIN handle' \subseteq 0 .. numThreads - 1
    BY <1>1, <2>1, <2>6
  <2>14. \A t \in DOMAIN index' : index'[t] # -1 => index'[t] \in {0, t}
    BY <1>1, <2>8
  <2> QED
    BY <1>1, <1>2, <2>1, <2>3, <2>6, <2>7, <2>9, <2>10, <2>11, <2>12, <2>13, <2>14
<1>7. CASE Utils!RunInMain
  <2>1. /\ pc = "start" /\ pc' = "run" /\ DOMAIN handle = 0 .. numThreads - 1
        /\ UNCHANGED <<numThreads, memory, slot, handle, index>>
    BY <1>7 DEF Utils!RunInMain, Utils!Threads
  <2>2. UtilsStarted /\ UtilsSlots
    BY <1>3, <2>1
  <2>3. UtilsStarted'
    <3>1. numThreads - 1 \in 0 .. numThreads - 1
      BY <1>1, <2>1
    <3> QED  BY <2>1, <2>2, <3>1 DEF UtilsStarted
  <2>4. UtilsSlots'
    BY <2>1, <2>2 DEF UtilsSlots
  <2> QED  BY <1>1, <1>2, <2>1, <2>3, <2>4
<1>8. ASSUME NEW t \in Utils!Threads, Utils!LookUp(t)
      PROVE  UtilsIInv'
  <2>1. /\ t \in DOMAIN handle /\ index[t] = -1 /\ (t = 0 => pc = "run")
        /\ t \in 0 .. numThreads - 1
        /\ UNCHANGED <<pc, numThreads, memory, slot, handle>>
    BY <1>8 DEF Utils!LookUp, Utils!Unknown, Utils!Threads
  <2>2. PICK dead \in Handles :
          index' = [index EXCEPT ![t] = Utils!THREAD_UTILS_GetThreadIndex(handle[t], dead)]
    BY <1>8 DEF Utils!LookUp
  <2>3. UtilsStarted /\ UtilsSlots /\ pc \in {"start", "run", "join"}
    <3>1. pc \notin {"idle", "create"}
      BY <1>3, <2>1
    <3>2. pc # "destroy"
      BY <1>3, <2>1, <3>1 DEF UtilsStarted
    <3> QED  BY <1>1, <1>3, <3>1, <3>2
  <2> DEFINE found == Utils!THREAD_UTILS_GetThreadIndex(handle[t], dead)
  <2>4. found \in {0, t}
    BY <2>1, <2>3, FirstMatch
  <2>5. t \in DOMAIN index /\ t \in Results /\ 0 \in Results
    BY <1>1, <2>1, <2>3 DEF UtilsStarted
  <2> HIDE DEF found, Results
  <2>6. /\ index' \in [DOMAIN index -> Results] /\ DOMAIN index' = DOMAIN index
        /\ index'[t] = found
        /\ \A u \in DOMAIN index : u # t => index'[u] = index[u]
    BY <1>1, <2>2, <2>4, <2>5 DEF found
  <2>7. \A u \in DOMAIN index' : index'[u] # -1 => index'[u] \in {0, u}
    BY <1>1, <2>4, <2>6
  <2>8. UtilsStarted' /\ UtilsSlots'
    BY <2>1, <2>3, <2>6 DEF UtilsStarted, UtilsSlots
  <2> QED  BY <1>1, <1>2, <2>1, <2>3, <2>6, <2>7, <2>8
<1>9. CASE Utils!RoutineEnds
  <2>1. /\ pc = "run" /\ pc' = "join"
        /\ UNCHANGED <<numThreads, memory, slot, handle, index>>
    BY <1>9 DEF Utils!RoutineEnds
  <2>2. UtilsStarted' /\ UtilsSlots'
    BY <1>3, <2>1 DEF UtilsStarted, UtilsSlots
  <2> QED  BY <1>1, <1>2, <2>1, <2>2
<1>10. ASSUME NEW j \in Utils!Children, Utils!Join(j)
       PROVE  UtilsIInv'
  <2>1. /\ pc = "join" /\ j > 0 /\ handle' = [t \in DOMAIN handle \ {j} |-> handle[t]]
        /\ UNCHANGED <<pc, numThreads, memory, slot, index>>
        /\ j \in 1 .. numThreads - 1
    BY <1>10 DEF Utils!Join, Utils!Children
  <2>2. /\ DOMAIN handle' = DOMAIN handle \ {j}
        /\ \A t \in DOMAIN handle' : handle'[t] = handle[t]
        /\ 0 \in DOMAIN handle'
    BY <1>1, <2>1
  <2>3. UtilsStarted'
    BY <1>3, <2>1, <2>2 DEF UtilsStarted
  <2>4. UtilsSlots'
    BY <1>3, <2>1, <2>2 DEF UtilsSlots
  <2>5. DOMAIN handle' \subseteq 0 .. numThreads - 1 \cup {0}
    BY <1>1, <2>2
  <2>6. \A s, t \in DOMAIN handle' : s # t => handle'[s] # handle'[t]
    BY <1>1, <2>2
  <2> QED  BY <1>1, <1>2, <2>1, <2>2, <2>3, <2>4, <2>5, <2>6
<1>11. CASE Utils!AllJoined
  <2>1. /\ pc = "join" /\ pc' = "destroy" /\ DOMAIN handle = {0}
        /\ UNCHANGED <<numThreads, memory, slot, handle, index>>
    BY <1>11 DEF Utils!AllJoined
  <2>2. UtilsStarted' /\ UtilsSlots'
    BY <1>3, <2>1 DEF UtilsStarted, UtilsSlots
  <2> QED  BY <1>1, <1>2, <2>1, <2>2
<1>12. CASE Utils!THREAD_UTILS_DestroyThreads
  <2>1. /\ pc = "destroy" /\ pc' = "idle" /\ memory' = "freed"
        /\ UNCHANGED <<numThreads, slot, handle, index>>
    BY <1>12 DEF Utils!THREAD_UTILS_DestroyThreads
  <2>2. DOMAIN handle = {0}
    BY <1>3, <2>1 DEF UtilsStarted
  <2> QED  BY <1>1, <1>2, <2>1, <2>2
<1>13. CASE UNCHANGED Utils!vars
  <2>1. UNCHANGED <<pc, numThreads, memory, slot, handle, index>>
    BY <1>13 DEF Utils!vars
  <2>2. UtilsStarted' <=> UtilsStarted
    BY <2>1 DEF UtilsStarted
  <2>3. UtilsSlots' <=> UtilsSlots
    BY <2>1 DEF UtilsSlots
  <2> QED  BY <1>1, <1>2, <1>3, <2>1, <2>2, <2>3
<1> QED
  BY <1>4, <1>5, <1>6, <1>7, <1>8, <1>9, <1>10, <1>11, <1>12, <1>13 DEF Utils!Next

-----------------------------------------------------------------------------
(* A barrier for two: the first thread stays, the second one lets it go.   *)
LEMMA ArriveAtBarrier ==
  ASSUME NEW t, NEW u, NEW W \in {{}, {u}}
  PROVE  /\ Atomic!Arrive(W, t, 2) = IF W = {} THEN {t} ELSE {}
         /\ Affinity!Arrive(W, t, 2) = IF W = {} THEN {t} ELSE {}
<1>1. Cardinality({}) = 0 /\ Cardinality({u}) = 1
  BY FS_EmptySet, FS_Singleton
<1>2. CASE W = {}
  <2>1. Atomic!Cardinality(W) + 1 # 2 /\ Affinity!Cardinality(W) + 1 # 2
    BY <1>1, <1>2, SameCount
  <2> QED  BY <1>2, <2>1 DEF Atomic!Arrive, Affinity!Arrive
<1>3. CASE W = {u}
  <2>1. Atomic!Cardinality(W) + 1 = 2 /\ Affinity!Cardinality(W) + 1 = 2
    BY <1>1, <1>3, SameCount
  <2> QED  BY <1>3, <2>1 DEF Atomic!Arrive, Affinity!Arrive
<1> QED  BY <1>2, <1>3

-----------------------------------------------------------------------------
(* AtomicOps.  The functions that count: thread 0 of function 4 does not.  *)
AtomicCounting ==
  /\ \A t \in 0 .. 1 : pc[t] \in {"begin", "loop", "spin", "stuck", "ended"}
  /\ func = 4 => pc[0] # "loop"

(* Function 5, where the threads meet.  The replica hands its result over  *)
(* before it says so, and it says so before the main thread's second       *)
(* barrier lets anybody go: a transaction that spins is the first one.     *)
AtomicMeeting ==
  /\ pc[0] \in {"begin", "start", "tx", "txspin", "compare", "committed", "aborted",
                "wait", "last", "return", "ended"}
  /\ pc[1] \in {"begin", "start", "flag", "last", "return", "ended"}
  /\ \A t \in waiting : pc[t] \in {"start", "return"}
  /\ pc[1] \in {"flag", "last", "return", "ended"} => counter["sharedVariable"] = 1
  /\ hyperThreadFinished <=> pc[1] \in {"last", "return", "ended"}
  /\ pc[0] \in {"compare", "committed"} => hyperThreadFinished
  /\ pc[0] = "begin" =>
       numAborts = 0 /\ (pc[1] = "begin" \/ (pc[1] = "start" /\ 1 \in waiting))
  /\ pc[1] = "begin" =>
       pc[0] = "begin" \/ (pc[0] = "start" /\ 0 \in waiting /\ numAborts = 0)
  /\ pc[1] = "start" /\ 1 \in waiting => pc[0] = "begin"
  /\ pc[0] = "txspin" => numAborts = 0
  /\ pc[0] \in {"start", "tx"} /\ 0 \notin waiting /\ ~hyperThreadFinished => numAborts = 0
  /\ numAborts <= MaxAborts + 1

AtomicIInv ==
  /\ Atomic!TypeOK /\ Atomic!AllAccounted
  /\ pc \in [0 .. 1 -> {"begin", "start", "tx", "txspin", "compare", "committed", "aborted",
                        "wait", "last", "return", "ended", "flag", "loop", "spin", "stuck"}]
  /\ IF func = 5 THEN AtomicMeeting ELSE AtomicCounting

(* Two threads, of which one may wait.                                     *)
LEMMA AtomicWaiting == Atomic!TypeOK => waiting \in {{}, {0}, {1}}
<1> SUFFICES ASSUME waiting \subseteq 0 .. 1, waiting # 0 .. 1
             PROVE  waiting \in {{}, {0}, {1}}
  BY DEF Atomic!TypeOK, Atomic!Threads
<1>1. 0 .. 1 = {0, 1}
  OBVIOUS
<1>2. CASE 0 \in waiting
  <2>1. 1 \notin waiting
    BY <1>1, <1>2
  <2>2. waiting = {0}
    BY <1>1, <1>2, <2>1
  <2> QED  BY <2>2
<1>3. CASE 0 \notin waiting
  <2>1. waiting = {} \/ waiting = {1}
    BY <1>1, <1>3
  <2> QED  BY <2>1
<1> QED  BY <1>2, <1>3

(* The invariant holds at first, whichever function is tested.             *)
LEMMA AtomicInit == Atomic!Init => AtomicIInv
<1> SUFFICES ASSUME Atomic!Init
             PROVE  AtomicIInv
  OBVIOUS
<1> USE DEF Atomic!Init, Atomic!Threads, Atomic!Counters
<1>1. NumValues \in Nat \ {0} /\ MaxAborts \in Nat
  BY ThreadTestAssumption
<1>2. Atomic!TypeOK
  <2>1. i \in [0 .. 1 -> 0 .. NumValues] /\ 0 \in 0 .. 2 * NumValues
        /\ 0 \in 0 .. 2 * NumValues + MaxAborts + 1
    BY <1>1
  <2>2. counter \in [Atomic!Counters -> 0 .. 2 * NumValues]
    BY <2>1
  <2>3. {} # 0 .. 1
    OBVIOUS
  <2> QED  BY <2>1, <2>2, <2>3 DEF Atomic!TypeOK
<1>3. Atomic!AllAccounted
  BY <1>1 DEF Atomic!AllAccounted, Atomic!Counted
<1>4. AtomicMeeting /\ AtomicCounting
  BY <1>1 DEF AtomicMeeting, AtomicCounting
<1> QED  BY <1>2, <1>3, <1>4 DEF AtomicIInv

(* It implies what the runs check of AtomicOps_Test.                       *)
LEMMA AtomicSafe == AtomicIInv => Atomic!AtomicOpsInv
<1> SUFFICES ASSUME AtomicIInv
             PROVE  Atomic!AtomicOpsInv
  OBVIOUS
<1>1. Atomic!CommitSeesPartner
  BY DEF AtomicIInv, AtomicMeeting, AtomicCounting, Atomic!CommitSeesPartner,
         Atomic!CalculatedValue
<1> QED  BY <1>1 DEF AtomicIInv, Atomic!AtomicOpsInv

(* One more, in one of the counters that are added up.                     *)
LEMMA CountedMore ==
  ASSUME counter \in [Atomic!Counters -> Nat],
         NEW c \in {"globalCount", "own0", "own1"}, Atomic!Count(c)
  PROVE  /\ counter' \in [Atomic!Counters -> Nat]
         /\ Atomic!Counted \in Nat /\ Atomic!Counted' = Atomic!Counted + 1
         /\ \A d \in {"globalCount", "own0", "own1"} : counter'[d] <= Atomic!Counted'
         /\ counter'["sharedVariable"] = counter["sharedVariable"]
<1>1. /\ counter' = [counter EXCEPT ![c] = @ + 1]
      /\ {"globalCount", "own0", "own1", "sharedVariable"} = Atomic!Counters
  BY DEF Atomic!Count, Atomic!Counters
<1>2. /\ counter' \in [Atomic!Counters -> Nat] /\ counter'[c] = counter[c] + 1
      /\ \A d \in Atomic!Counters : d # c => counter'[d] = counter[d]
  BY <1>1
<1>3. /\ counter["globalCount"] \in Nat /\ counter["own0"] \in Nat /\ counter["own1"] \in Nat
  BY <1>1
<1>4. CASE c = "globalCount"
  BY <1>1, <1>2, <1>3, <1>4 DEF Atomic!Counted
<1>5. CASE c = "own0"
  BY <1>1, <1>2, <1>3, <1>5 DEF Atomic!Counted
<1>6. CASE c = "own1"
  BY <1>1, <1>2, <1>3, <1>6 DEF Atomic!Counted
<1> QED  BY <1>4, <1>5, <1>6

(* The facts about a state of AtomicOps that the steps use.                *)
LEMMA AtomicFacts ==
  ASSUME AtomicIInv
  PROVE  /\ NumValues \in Nat \ {0} /\ MaxAborts \in Nat
         /\ func \in 1 .. 6
         /\ i \in [0 .. 1 -> 0 .. NumValues]
         /\ counter \in [Atomic!Counters -> 0 .. 2 * NumValues]
         /\ counter \in [Atomic!Counters -> Nat]
         /\ numAborts \in Nat /\ numAborts <= 2 * NumValues + MaxAborts + 1
         /\ waiting \in {{}, {0}, {1}}
         /\ Atomic!TypeOK /\ Atomic!AllAccounted
<1>1. NumValues \in Nat \ {0} /\ MaxAborts \in Nat
  BY ThreadTestAssumption
<1>2. Atomic!TypeOK /\ Atomic!AllAccounted /\ waiting \in {{}, {0}, {1}}
  BY AtomicWaiting DEF AtomicIInv
<1>3. counter \in [Atomic!Counters -> 0 .. 2 * NumValues]
  BY <1>2 DEF Atomic!TypeOK
<1>4. counter \in [Atomic!Counters -> Nat]
  BY <1>1, <1>3
<1> QED  BY <1>1, <1>2, <1>3, <1>4 DEF Atomic!TypeOK, Atomic!Threads

(* The steps of the functions that count.                                  *)
LEMMA AtomicCounts ==
  ASSUME AtomicIInv, func # 5, NEW t \in 0 .. 1,
         Atomic!CountCommits(t) \/ Atomic!CountAborts(t)
  PROVE  AtomicIInv'
<1>0. /\ AtomicCounting
      /\ pc[t] = "loop" /\ i[t] \in 0 .. NumValues - 1
      /\ i' = [i EXCEPT ![t] = @ + 1]
      /\ UNCHANGED <<func, hoisted, pc, hyperThreadFinished, waiting>>
  BY AtomicFacts
  DEF AtomicIInv, Atomic!CountCommits, Atomic!CountAborts, Atomic!InLoop, Atomic!Threads
<1>1. /\ NumValues \in Nat \ {0} /\ MaxAborts \in Nat /\ numAborts \in Nat
      /\ func \in {1, 2, 3, 4, 6} /\ i[0] \in 0 .. NumValues /\ i[1] \in 0 .. NumValues
      /\ counter \in [Atomic!Counters -> 0 .. 2 * NumValues]
      /\ counter \in [Atomic!Counters -> Nat]
  BY AtomicFacts
<1>2. /\ i' \in [0 .. 1 -> 0 .. NumValues] /\ i'[t] = i[t] + 1
      /\ \A u \in 0 .. 1 : u # t => i'[u] = i[u]
  <2>1. i[t] + 1 \in 0 .. NumValues
    BY <1>0, <1>1
  <2> QED  BY <1>0, <2>1, AtomicFacts
<1>3. i'[0] + i'[1] = i[0] + i[1] + 1 /\ i'[0] + i'[1] <= 2 * NumValues
  <2>1. i'[0] \in 0 .. NumValues /\ i'[1] \in 0 .. NumValues
    BY <1>2
  <2>2. CASE t = 0
    BY <1>1, <1>2, <2>1, <2>2
  <2>3. CASE t = 1
    BY <1>1, <1>2, <2>1, <2>3
  <2> QED  BY <2>2, <2>3
<1>4. ASSUME counter' \in [Atomic!Counters -> 0 .. 2 * NumValues],
             numAborts' \in 0 .. 2 * NumValues, Atomic!AllAccounted'
      PROVE  AtomicIInv'
  <2>1. numAborts' \in 0 .. 2 * NumValues + MaxAborts + 1
    BY <1>1, <1>4
  <2>2. Atomic!TypeOK'
    BY <1>0, <1>2, <1>4, <2>1, AtomicFacts DEF Atomic!TypeOK, Atomic!Threads
  <2> QED  BY <1>0, <1>4, <2>2 DEF AtomicIInv, AtomicCounting
<1>5. CASE func = 4
  <2>1. t = 1 /\ Atomic!Counter(t) = "sharedVariable"
    BY <1>0, <1>5 DEF AtomicCounting, Atomic!Counter
  <2>2. counter["sharedVariable"] = i[1] /\ numAborts <= i[1]
    BY <1>5, AtomicFacts DEF Atomic!AllAccounted
  <2>3. counter' = [counter EXCEPT !["sharedVariable"] = @ + 1]
    BY <1>5, <2>1
    DEF Atomic!CountCommits, Atomic!CountAborts, Atomic!FallbackCounts, Atomic!Count
  <2>4. numAborts' = numAborts \/ numAborts' = numAborts + 1
    BY DEF Atomic!CountCommits, Atomic!CountAborts, Atomic!AtomicOps_IncAbort
  <2>5. i'[1] = i[1] + 1 /\ i'[1] <= NumValues
    BY <1>1, <1>2, <2>1
  <2>6. i[1] + 1 \in 0 .. 2 * NumValues
    BY <1>1, <2>5
  <2>7. /\ counter' \in [Atomic!Counters -> 0 .. 2 * NumValues]
        /\ counter'["sharedVariable"] = i'[1]
    BY <1>1, <2>2, <2>3, <2>5, <2>6 DEF Atomic!Counters
  <2>8. numAborts' <= i'[1] /\ numAborts' \in 0 .. 2 * NumValues
    BY <1>1, <2>2, <2>4, <2>5
  <2>9. Atomic!AllAccounted'
    BY <1>0, <1>5, <2>7, <2>8 DEF Atomic!AllAccounted
  <2> QED  BY <1>4, <2>7, <2>8, <2>9
<1>6. CASE func # 4
  <2>0. Atomic!Counter(t) \in {"globalCount", "own0", "own1"}
    <3>1. CASE func \in {1, 3}
      BY <3>1 DEF Atomic!Counter
    <3>2. CASE func \in {2, 6}
      BY <3>2 DEF Atomic!Counter
    <3> QED  BY <1>1, <1>6, <3>1, <3>2
  <2>1. /\ Atomic!Counted \in Nat
        /\ func \in 1 .. 3 => Atomic!Counted + numAborts = i[0] + i[1]
        /\ Atomic!Counted + numAborts <= i[0] + i[1]
    <3>1. /\ counter["globalCount"] \in Nat /\ counter["own0"] \in Nat
          /\ counter["own1"] \in Nat
      BY <1>1 DEF Atomic!Counters
    <3>2. Atomic!Counted \in Nat
      BY <3>1 DEF Atomic!Counted
    <3>3. /\ func \in 1 .. 3 => Atomic!Counted + numAborts = i[0] + i[1]
          /\ func = 6 => Atomic!Counted + numAborts <= i[0] + i[1]
      BY AtomicFacts DEF Atomic!AllAccounted
    <3> QED  BY <1>1, <1>6, <3>2, <3>3
(* It is enough that the counts and the aborts grow by one together.       *)
  <2>2. ASSUME counter' \in [Atomic!Counters -> 0 .. 2 * NumValues], Atomic!Counted' \in Nat,
               numAborts' \in Nat,
               Atomic!Counted' + numAborts' = Atomic!Counted + numAborts + 1
        PROVE  AtomicIInv'
    <3>0. i'[0] + i'[1] = i[0] + i[1] + 1
      BY <1>3
    <3>a. func \in 1 .. 3 => Atomic!Counted' + numAborts' = i'[0] + i'[1]
      BY <2>1, <2>2, <3>0
    <3>b. Atomic!Counted' + numAborts' <= i'[0] + i'[1]
      <4>1. i[0] + i[1] \in Nat /\ Atomic!Counted + numAborts \in Nat
        BY <1>1, <2>1
      <4> QED  BY <2>1, <2>2, <3>0, <4>1
    <3>1. /\ func \in 1 .. 3 => Atomic!Counted' + numAborts' = i'[0] + i'[1]
          /\ Atomic!Counted' + numAborts' <= i'[0] + i'[1]
      BY <3>a, <3>b
    <3>2. numAborts' \in 0 .. 2 * NumValues
      BY <1>1, <1>2, <1>3, <2>2, <3>1
    <3>3. Atomic!AllAccounted'
      BY <1>0, <1>6, <3>1 DEF Atomic!AllAccounted
    <3> QED  BY <1>4, <2>2, <3>2, <3>3
  <2>3. CASE Atomic!CountCommits(t)
    <3>1. Atomic!Count(Atomic!Counter(t)) /\ numAborts' = numAborts
      BY <2>3 DEF Atomic!CountCommits
    <3>2. /\ counter' \in [Atomic!Counters -> Nat] /\ Atomic!Counted' = Atomic!Counted + 1
          /\ \A d \in {"globalCount", "own0", "own1"} : counter'[d] <= Atomic!Counted'
          /\ counter'["sharedVariable"] = counter["sharedVariable"]
      BY <1>1, <2>0, <3>1, CountedMore
    <3>3. Atomic!Counted' <= 2 * NumValues
      BY <1>1, <1>3, <2>1, <3>2
    <3>4. \A d \in Atomic!Counters : counter'[d] \in 0 .. 2 * NumValues
      <4>1. \A d \in {"globalCount", "own0", "own1"} :
              counter'[d] \in Nat /\ counter'[d] <= 2 * NumValues
        BY <1>1, <2>1, <3>2, <3>3 DEF Atomic!Counters
      <4>2. counter'["sharedVariable"] \in 0 .. 2 * NumValues
        BY <1>1, <3>2 DEF Atomic!Counters
      <4> QED  BY <1>1, <4>1, <4>2 DEF Atomic!Counters
    <3>5. counter' \in [Atomic!Counters -> 0 .. 2 * NumValues]
      BY <3>2, <3>4
    <3> QED  BY <1>1, <2>1, <2>2, <3>1, <3>2, <3>5
  <2>4. CASE Atomic!CountAborts(t)
    <3>1. numAborts' = numAborts + 1 /\ counter' = counter
      BY <1>6, <2>4 DEF Atomic!CountAborts, Atomic!AtomicOps_IncAbort, Atomic!FallbackCounts
    <3>2. Atomic!Counted' = Atomic!Counted
      BY <3>1 DEF Atomic!Counted
    <3> QED  BY <1>1, <2>1, <2>2, <3>1, <3>2
  <2> QED  BY <2>3, <2>4
<1> QED  BY <1>5, <1>6

(* Function 5: what is left to show after a step of it.                    *)
LEMMA AtomicMeets ==
  ASSUME AtomicIInv, func = 5, UNCHANGED <<func, hoisted, i>>,
         counter' \in [Atomic!Counters -> 0 .. 2 * NumValues], numAborts' \in Nat,
         hyperThreadFinished' \in BOOLEAN, waiting' \in {{}, {0}, {1}},
         NEW t \in 0 .. 1, NEW b,
         b \in {"begin", "start", "tx", "txspin", "compare", "committed", "aborted",
                "wait", "last", "return", "ended", "flag", "loop", "spin", "stuck"},
         pc' = [pc EXCEPT ![t] = b], AtomicMeeting'
  PROVE  AtomicIInv'
<1>1. /\ NumValues \in Nat \ {0} /\ MaxAborts \in Nat
      /\ Atomic!TypeOK /\ AtomicMeeting
  BY AtomicFacts DEF AtomicIInv
<1>2. numAborts' \in 0 .. 2 * NumValues + MaxAborts + 1
  <2>1. numAborts' <= MaxAborts + 1
    BY DEF AtomicMeeting
  <2> QED  BY <1>1, <2>1
<1>3. waiting' \subseteq 0 .. 1 /\ waiting' # 0 .. 1
  <2>1. 0 .. 1 = {0, 1}
    OBVIOUS
  <2>2. CASE waiting' = {}
    BY <2>1, <2>2
  <2>3. CASE waiting' = {0}
    BY <2>1, <2>3
  <2>4. CASE waiting' = {1}
    BY <2>1, <2>4
  <2> QED  BY <2>2, <2>3, <2>4
<1>4. Atomic!TypeOK'
  BY <1>1, <1>2, <1>3 DEF Atomic!TypeOK, Atomic!Threads
<1>5. Atomic!AllAccounted'
  BY DEF Atomic!AllAccounted
<1>6. pc' \in [0 .. 1 -> {"begin", "start", "tx", "txspin", "compare", "committed",
                          "aborted", "wait", "last", "return", "ended", "flag", "loop",
                          "spin", "stuck"}]
  BY DEF AtomicIInv
<1> QED  BY <1>4, <1>5, <1>6 DEF AtomicIInv

(* The barriers of function 5: a thread that arrives was not there yet.    *)
LEMMA AtomicArrives ==
  ASSUME AtomicIInv, func = 5, NEW t \in 0 .. 1, pc[t] \in {"begin", "last", "wait"},
         Atomic!BarrierWait(t)
  PROVE  /\ waiting' = IF waiting = {} THEN {t} ELSE {}
         /\ waiting \in {{}, {1 - t}}
         /\ waiting' \in {{}, {0}, {1}}
<1>1. t \notin waiting
  BY DEF AtomicIInv, AtomicMeeting
<1>2. waiting \in {{}, {1 - t}}
  <2>1. waiting \in {{}, {0}, {1}}
    BY AtomicFacts
  <2>2. CASE t = 0
    BY <1>1, <2>1, <2>2
  <2>3. CASE t = 1
    BY <1>1, <2>1, <2>3
  <2> QED  BY <2>2, <2>3
<1>3. waiting' = IF waiting = {} THEN {t} ELSE {}
  BY <1>2, ArriveAtBarrier DEF Atomic!BarrierWait
<1> QED  BY <1>2, <1>3

(* Function 5: the steps of either thread at the barriers.                 *)
LEMMA AtomicBarrierSteps ==
  ASSUME AtomicIInv, NEW t \in 0 .. 1,
         \/ Atomic!BeginTogether(t)
         \/ func = 5 /\ (Atomic!LastBarrier(t) \/ Atomic!Return(t))
  PROVE  AtomicIInv'
<1>1. /\ func = 5 /\ AtomicMeeting
      /\ numAborts \in Nat /\ hyperThreadFinished \in BOOLEAN
      /\ counter \in [Atomic!Counters -> 0 .. 2 * NumValues]
      /\ waiting \in {{}, {0}, {1}} /\ MaxAborts \in Nat
  BY AtomicFacts DEF AtomicIInv, Atomic!BeginTogether, Atomic!TypeOK
<1>2. DOMAIN pc = 0 .. 1 /\ 0 \in 0 .. 1 /\ 1 \in 0 .. 1
  BY DEF AtomicIInv
<1>3. CASE Atomic!BeginTogether(t)
  <2>1. /\ pc[t] = "begin" /\ pc' = [pc EXCEPT ![t] = "start"]
        /\ UNCHANGED <<func, hoisted, i, counter, numAborts, hyperThreadFinished>>
        /\ Atomic!BarrierWait(t)
    BY <1>3 DEF Atomic!BeginTogether, Atomic!Go
  <2>2. /\ waiting' = IF waiting = {} THEN {t} ELSE {}
        /\ waiting \in {{}, {1 - t}} /\ waiting' \in {{}, {0}, {1}}
    BY <1>1, <2>1, AtomicArrives
  <2>3. CASE t = 0
    <3>1. AtomicMeeting'
      BY <1>1, <1>2, <2>1, <2>2, <2>3 DEF AtomicMeeting
    <3> QED  BY <1>1, <2>1, <2>2, <3>1, AtomicMeets
  <2>4. CASE t = 1
    <3>1. AtomicMeeting'
      BY <1>1, <1>2, <2>1, <2>2, <2>4 DEF AtomicMeeting
    <3> QED  BY <1>1, <2>1, <2>2, <3>1, AtomicMeets
  <2> QED  BY <2>3, <2>4
<1>4. CASE Atomic!LastBarrier(t)
  <2>1. /\ pc[t] = "last" /\ pc' = [pc EXCEPT ![t] = "return"]
        /\ UNCHANGED <<func, hoisted, i, counter, numAborts, hyperThreadFinished>>
        /\ Atomic!BarrierWait(t)
    BY <1>4 DEF Atomic!LastBarrier, Atomic!Go
  <2>2. /\ waiting' = IF waiting = {} THEN {t} ELSE {}
        /\ waiting \in {{}, {1 - t}} /\ waiting' \in {{}, {0}, {1}}
    BY <1>1, <2>1, AtomicArrives
  <2>3. CASE t = 0
    <3>1. AtomicMeeting'
      BY <1>1, <1>2, <2>1, <2>2, <2>3 DEF AtomicMeeting
    <3> QED  BY <1>1, <2>1, <2>2, <3>1, AtomicMeets
  <2>4. CASE t = 1
    <3>1. AtomicMeeting'
      BY <1>1, <1>2, <2>1, <2>2, <2>4 DEF AtomicMeeting
    <3> QED  BY <1>1, <2>1, <2>2, <3>1, AtomicMeets
  <2> QED  BY <2>3, <2>4
<1>5. CASE Atomic!Return(t)
  <2>1. /\ pc[t] = "return" /\ pc' = [pc EXCEPT ![t] = "ended"] /\ t \notin waiting
        /\ UNCHANGED <<func, hoisted, i, counter, numAborts, hyperThreadFinished, waiting>>
    BY <1>5 DEF Atomic!Return, Atomic!Go
  <2>3. CASE t = 0
    <3>1. AtomicMeeting'
      BY <1>1, <1>2, <2>1, <2>3 DEF AtomicMeeting
    <3> QED  BY <1>1, <2>1, <3>1, AtomicMeets
  <2>4. CASE t = 1
    <3>1. AtomicMeeting'
      BY <1>1, <1>2, <2>1, <2>4 DEF AtomicMeeting
    <3> QED  BY <1>1, <2>1, <3>1, AtomicMeets
  <2> QED  BY <2>3, <2>4
<1> QED  BY <1>1, <1>3, <1>4, <1>5

(* Function 5: the replica hands its result over, then says so.            *)
LEMMA AtomicReplicaSteps ==
  ASSUME AtomicIInv, Atomic!ReplicaStores
  PROVE  AtomicIInv'
<1>1. pc[1] \in {"start", "flag"} /\ 1 \notin waiting
  BY DEF Atomic!ReplicaStores, Atomic!Go
<1>2. func = 5
  BY <1>1 DEF AtomicIInv, AtomicCounting
<1>3. /\ AtomicMeeting
      /\ numAborts \in Nat /\ hyperThreadFinished \in BOOLEAN
      /\ counter \in [Atomic!Counters -> 0 .. 2 * NumValues]
      /\ waiting \in {{}, {0}, {1}} /\ MaxAborts \in Nat /\ NumValues \in Nat \ {0}
  BY <1>2, AtomicFacts DEF AtomicIInv, Atomic!TypeOK
<1>4. DOMAIN pc = 0 .. 1 /\ 0 \in 0 .. 1 /\ 1 \in 0 .. 1
  BY DEF AtomicIInv
<1>5. UNCHANGED <<func, hoisted, i, numAborts, waiting>>
  BY DEF Atomic!ReplicaStores
<1>6. CASE pc[1] = "start"
  <2>1. /\ pc' = [pc EXCEPT ![1] = "flag"] /\ UNCHANGED hyperThreadFinished
        /\ counter' = [counter EXCEPT !["sharedVariable"] = 1]
    BY <1>6 DEF Atomic!ReplicaStores, Atomic!Go, Atomic!CalculatedValue
  <2>2. /\ counter' \in [Atomic!Counters -> 0 .. 2 * NumValues]
        /\ counter'["sharedVariable"] = 1
    BY <1>3, <2>1 DEF Atomic!Counters
  <2>3. AtomicMeeting'
    BY <1>1, <1>3, <1>4, <1>5, <1>6, <2>1, <2>2 DEF AtomicMeeting
  <2> QED  BY <1>2, <1>3, <1>4, <1>5, <2>1, <2>2, <2>3, AtomicMeets
<1>7. CASE pc[1] = "flag"
  <2>1. /\ pc' = [pc EXCEPT ![1] = "last"] /\ hyperThreadFinished' = TRUE
        /\ UNCHANGED counter
    BY <1>7 DEF Atomic!ReplicaStores, Atomic!Go
  <2>2. AtomicMeeting'
    BY <1>1, <1>3, <1>4, <1>5, <1>7, <2>1 DEF AtomicMeeting
  <2> QED  BY <1>2, <1>3, <1>4, <1>5, <2>1, <2>2, AtomicMeets
<1> QED  BY <1>1, <1>6, <1>7

(* Function 5: the transaction of the main thread, and what follows it.    *)
LEMMA AtomicTransactionSteps ==
  ASSUME AtomicIInv,
         \/ Atomic!TxBegin \/ Atomic!TxReadsFlag \/ Atomic!TxCommit \/ Atomic!TxAbort
         \/ Atomic!AfterAbort \/ Atomic!AfterCommit
  PROVE  AtomicIInv'
<1>1. pc[0] \in {"start", "tx", "txspin", "compare", "committed", "aborted", "wait"}
  BY DEF Atomic!TxBegin, Atomic!TxReadsFlag, Atomic!TxCommit, Atomic!TxAbort,
         Atomic!AfterAbort, Atomic!AfterCommit, Atomic!Go
<1>2. func = 5
  BY <1>1 DEF AtomicIInv, AtomicCounting
<1>3. /\ AtomicMeeting
      /\ numAborts \in Nat /\ hyperThreadFinished \in BOOLEAN
      /\ counter \in [Atomic!Counters -> 0 .. 2 * NumValues]
      /\ waiting \in {{}, {0}, {1}} /\ MaxAborts \in Nat
  BY <1>2, AtomicFacts DEF AtomicIInv, Atomic!TypeOK
<1>4. DOMAIN pc = 0 .. 1 /\ 0 \in 0 .. 1 /\ 1 \in 0 .. 1
  BY DEF AtomicIInv
<1>5. /\ UNCHANGED <<func, hoisted, i, counter, hyperThreadFinished>>
      /\ ~Atomic!AfterAbort => waiting' = waiting
      /\ ~Atomic!TxAbort => numAborts' = numAborts
  BY DEF Atomic!TxBegin, Atomic!TxReadsFlag, Atomic!TxCommit, Atomic!TxAbort,
         Atomic!AfterAbort, Atomic!AfterCommit
<1>6. CASE Atomic!TxBegin
  <2>1. /\ pc[0] = "start" /\ 0 \notin waiting /\ pc' = [pc EXCEPT ![0] = "tx"]
        /\ UNCHANGED <<waiting, numAborts>>
    BY <1>6 DEF Atomic!TxBegin, Atomic!Go
  <2>2. AtomicMeeting'
    BY <1>3, <1>4, <1>5, <2>1 DEF AtomicMeeting
  <2> QED  BY <1>2, <1>3, <1>4, <1>5, <2>1, <2>2, AtomicMeets
<1>7. CASE Atomic!TxReadsFlag
  <2>1. /\ pc[0] = "tx" /\ UNCHANGED <<waiting, numAborts>>
        /\ pc' = [pc EXCEPT ![0] = IF hyperThreadFinished THEN "compare" ELSE "txspin"]
    BY <1>7 DEF Atomic!TxReadsFlag, Atomic!Go
  <2>2. 0 \notin waiting
    BY <1>3, <2>1 DEF AtomicMeeting
  <2>3. AtomicMeeting'
    BY <1>3, <1>4, <1>5, <2>1, <2>2 DEF AtomicMeeting
  <2> QED  BY <1>2, <1>3, <1>4, <1>5, <2>1, <2>3, AtomicMeets
<1>8. CASE Atomic!TxCommit
  <2>1. /\ pc[0] = "compare" /\ pc' = [pc EXCEPT ![0] = "committed"]
        /\ UNCHANGED <<waiting, numAborts>>
    BY <1>8 DEF Atomic!TxCommit, Atomic!Go
  <2>2. AtomicMeeting'
    BY <1>3, <1>4, <1>5, <2>1 DEF AtomicMeeting
  <2> QED  BY <1>2, <1>3, <1>4, <1>5, <2>1, <2>2, AtomicMeets
<1>9. CASE Atomic!TxAbort
  <2>1. /\ pc[0] \in {"txspin", "tx", "compare"} /\ pc' = [pc EXCEPT ![0] = "aborted"]
        /\ pc[0] = "txspin" \/ numAborts < MaxAborts
        /\ UNCHANGED waiting /\ numAborts' = numAborts + 1
    BY <1>9 DEF Atomic!TxAbort, Atomic!Go, Atomic!AtomicOps_IncAbort
  <2>2. numAborts' \in Nat /\ numAborts' <= MaxAborts + 1
    BY <1>3, <2>1 DEF AtomicMeeting
  <2>3. AtomicMeeting'
    BY <1>3, <1>4, <1>5, <2>1, <2>2 DEF AtomicMeeting
  <2> QED  BY <1>2, <1>3, <1>4, <1>5, <2>1, <2>2, <2>3, AtomicMeets
<1>10. CASE Atomic!AfterAbort
  <2>0. UNCHANGED numAborts
    BY <1>10 DEF Atomic!AfterAbort
  <2>1. CASE pc[0] = "aborted" /\ hyperThreadFinished
    <3>1. pc' = [pc EXCEPT ![0] = "start"] /\ UNCHANGED waiting
      BY <1>10, <2>1 DEF Atomic!AfterAbort, Atomic!Go
    <3>2. AtomicMeeting'
      BY <1>3, <1>4, <1>5, <2>0, <2>1, <3>1 DEF AtomicMeeting
    <3> QED  BY <1>2, <1>3, <1>4, <1>5, <2>0, <3>1, <3>2, AtomicMeets
  <2>2. CASE pc[0] = "aborted" /\ ~hyperThreadFinished
    <3>1. pc' = [pc EXCEPT ![0] = "wait"] /\ UNCHANGED waiting
      BY <1>10, <2>2 DEF Atomic!AfterAbort, Atomic!Go
    <3>2. AtomicMeeting'
      BY <1>3, <1>4, <1>5, <2>0, <2>2, <3>1 DEF AtomicMeeting
    <3> QED  BY <1>2, <1>3, <1>4, <1>5, <2>0, <3>1, <3>2, AtomicMeets
  <2>3. CASE pc[0] = "wait"
    <3>1. pc' = [pc EXCEPT ![0] = "start"] /\ Atomic!BarrierWait(0)
      BY <1>10, <2>3 DEF Atomic!AfterAbort, Atomic!Go
    <3>2. /\ waiting' = IF waiting = {} THEN {0} ELSE {}
          /\ waiting \in {{}, {1 - 0}} /\ waiting' \in {{}, {0}, {1}}
      BY <1>2, <2>3, <3>1, AtomicArrives
    <3>3. waiting = {1} => pc[1] = "return"
      BY <1>3, <2>3 DEF AtomicMeeting
    <3>4. AtomicMeeting'
      BY <1>3, <1>4, <1>5, <2>0, <2>3, <3>1, <3>2, <3>3 DEF AtomicMeeting
    <3> QED  BY <1>2, <1>3, <1>4, <1>5, <2>0, <3>1, <3>2, <3>4, AtomicMeets
  <2> QED  BY <1>10, <2>1, <2>2, <2>3 DEF Atomic!AfterAbort, Atomic!Go
<1>11. CASE Atomic!AfterCommit
  <2>1. /\ pc[0] = "committed" /\ hyperThreadFinished
        /\ pc' = [pc EXCEPT ![0] = "last"] /\ UNCHANGED <<waiting, numAborts>>
    BY <1>3, <1>11 DEF Atomic!AfterCommit, Atomic!Go, AtomicMeeting
  <2>2. AtomicMeeting'
    BY <1>3, <1>4, <1>5, <2>1 DEF AtomicMeeting
  <2> QED  BY <1>2, <1>3, <1>4, <1>5, <2>1, <2>2, AtomicMeets
<1> QED  BY <1>6, <1>7, <1>8, <1>9, <1>10, <1>11

(* The other steps of the functions that count, and the spin of function 4. *)
LEMMA AtomicOtherSteps ==
  ASSUME AtomicIInv,
         \/ \E t \in 0 .. 1 : Atomic!Begin(t) \/ Atomic!LoopEnds(t)
         \/ Atomic!SpinEnds \/ Atomic!SpinForEver
  PROVE  AtomicIInv'
<1>1. PICK t \in 0 .. 1 :
        /\ \/ /\ func # 5 /\ pc[t] = "begin"
              /\ pc' = [pc EXCEPT ![t] =
                          IF Atomic!CountsInLoop(t) THEN "loop" ELSE "spin"]
           \/ pc[t] = "loop" /\ pc' = [pc EXCEPT ![t] = "ended"]
           \/ pc[t] = "spin" /\ pc' = [pc EXCEPT ![t] = "ended"]
           \/ pc[t] = "spin" /\ pc' = [pc EXCEPT ![t] = "stuck"]
        /\ \/ UNCHANGED counter
           \/ func = 6 /\ counter' = [counter EXCEPT !["own0"] = 0, !["own1"] = 0]
        /\ UNCHANGED <<func, hoisted, i, numAborts, hyperThreadFinished, waiting>>
  <2>1. CASE \E t \in 0 .. 1 : Atomic!Begin(t)
    BY <2>1 DEF Atomic!Begin, Atomic!Go
  <2>2. CASE \E t \in 0 .. 1 : Atomic!LoopEnds(t)
    BY <2>2 DEF Atomic!LoopEnds, Atomic!Go
  <2>3. CASE Atomic!SpinEnds \/ Atomic!SpinForEver
    <3>1. 0 \in 0 .. 1
      OBVIOUS
    <3> QED  BY <2>3, <3>1 DEF Atomic!SpinEnds, Atomic!SpinForEver, Atomic!Go
  <2> QED  BY <2>1, <2>2, <2>3
<1>2. /\ func # 5 /\ AtomicCounting
  BY <1>1 DEF AtomicIInv, AtomicMeeting
<1>3. /\ AtomicCounting'
      /\ pc' \in [0 .. 1 -> {"begin", "start", "tx", "txspin", "compare", "committed",
                             "aborted", "wait", "last", "return", "ended", "flag", "loop",
                             "spin", "stuck"}]
  BY <1>1, <1>2 DEF AtomicIInv, AtomicCounting, Atomic!CountsInLoop
<1>4. /\ counter' \in [Atomic!Counters -> 0 .. 2 * NumValues]
      /\ func # 6 => counter' = counter
      /\ func = 6 => Atomic!Counted' <= Atomic!Counted /\ Atomic!Counted \in Nat
                     /\ Atomic!Counted' \in Nat
  <2>1. /\ NumValues \in Nat /\ counter \in [Atomic!Counters -> 0 .. 2 * NumValues]
        /\ counter \in [Atomic!Counters -> Nat]
    BY AtomicFacts
  <2>2. CASE counter' = counter
    <3>1. /\ counter["globalCount"] \in Nat /\ counter["own0"] \in Nat
          /\ counter["own1"] \in Nat
      BY <2>1 DEF Atomic!Counters
    <3>2. Atomic!Counted' = Atomic!Counted /\ Atomic!Counted \in Nat
      BY <2>2, <3>1 DEF Atomic!Counted
    <3> QED  BY <2>1, <2>2, <3>2
  <2>3. CASE func = 6 /\ counter' = [counter EXCEPT !["own0"] = 0, !["own1"] = 0]
    <3>1. /\ counter' \in [Atomic!Counters -> 0 .. 2 * NumValues]
          /\ counter'["own0"] = 0 /\ counter'["own1"] = 0
          /\ counter'["globalCount"] = counter["globalCount"]
          /\ counter["globalCount"] \in Nat /\ counter["own0"] \in Nat
          /\ counter["own1"] \in Nat
      BY <2>1, <2>3 DEF Atomic!Counters
    <3>2. /\ Atomic!Counted' <= Atomic!Counted /\ Atomic!Counted \in Nat
          /\ Atomic!Counted' \in Nat
      BY <3>1 DEF Atomic!Counted
    <3> QED  BY <2>3, <3>1, <3>2
  <2> QED  BY <1>1, <2>2, <2>3
<1>5. Atomic!AllAccounted'
  <2>1. CASE func = 6
    <3>1. /\ i[0] + i[1] \in Nat /\ numAborts \in Nat
          /\ Atomic!Counted + numAborts <= i[0] + i[1]
      BY <2>1, AtomicFacts DEF Atomic!AllAccounted
    <3>2. Atomic!Counted' + numAborts <= i[0] + i[1]
      BY <1>4, <2>1, <3>1
    <3> QED  BY <1>1, <2>1, <3>2 DEF Atomic!AllAccounted
  <2>2. CASE func # 6
    <3>1. Atomic!Counted' = Atomic!Counted
      BY <1>4, <2>2 DEF Atomic!Counted
    <3> QED  BY <1>1, <1>4, <2>2, <3>1, AtomicFacts DEF Atomic!AllAccounted
  <2> QED  BY <2>1, <2>2
<1>6. Atomic!TypeOK'
  BY <1>1, <1>4, AtomicFacts DEF Atomic!TypeOK
<1> QED  BY <1>1, <1>2, <1>3, <1>5, <1>6 DEF AtomicIInv

(* Every step of the two threads keeps it.                                 *)
LEMMA AtomicNext == AtomicIInv /\ [Atomic!Next]_(Atomic!vars) => AtomicIInv'
<1> SUFFICES ASSUME AtomicIInv, [Atomic!Next]_(Atomic!vars)
             PROVE  AtomicIInv'
  OBVIOUS
<1>1. ASSUME NEW t \in 0 .. 1, Atomic!ThreadStep(t)
      PROVE  AtomicIInv'
  <2>1. CASE Atomic!Begin(t) \/ Atomic!LoopEnds(t)
    BY <2>1, AtomicOtherSteps
  <2>2. CASE Atomic!CountCommits(t) \/ Atomic!CountAborts(t)
    <3>1. pc[t] = "loop"
      BY <2>2 DEF Atomic!CountCommits, Atomic!CountAborts, Atomic!InLoop
    <3>2. func # 5
      BY <3>1 DEF AtomicIInv, AtomicMeeting
    <3> QED  BY <2>2, <3>2, AtomicCounts
  <2>3. CASE Atomic!BeginTogether(t)
    BY <2>3, AtomicBarrierSteps
  <2>4. CASE Atomic!LastBarrier(t) \/ Atomic!Return(t)
    <3>1. pc[t] \in {"last", "return"}
      BY <2>4 DEF Atomic!LastBarrier, Atomic!Return, Atomic!Go
    <3>2. func = 5
      BY <3>1 DEF AtomicIInv, AtomicCounting
    <3> QED  BY <2>4, <3>2, AtomicBarrierSteps
  <2> QED  BY <1>1, <2>1, <2>2, <2>3, <2>4 DEF Atomic!ThreadStep
<1>2. CASE UNCHANGED Atomic!vars
  <2>1. UNCHANGED <<func, hoisted, pc, i, counter, numAborts, hyperThreadFinished, waiting>>
    BY <1>2 DEF Atomic!vars
  <2>2. Atomic!TypeOK' /\ Atomic!AllAccounted'
    BY <2>1, AtomicFacts DEF Atomic!TypeOK, Atomic!AllAccounted, Atomic!Counted
  <2>3. (AtomicMeeting' <=> AtomicMeeting) /\ (AtomicCounting' <=> AtomicCounting)
    BY <2>1 DEF AtomicMeeting, AtomicCounting
  <2> QED  BY <2>1, <2>2, <2>3 DEF AtomicIInv
<1>3. CASE Atomic!SpinEnds \/ Atomic!SpinForEver
  BY <1>3, AtomicOtherSteps
<1>4. CASE Atomic!ReplicaStores
  BY <1>4, AtomicReplicaSteps
<1>5. CASE \/ Atomic!TxBegin \/ Atomic!TxReadsFlag \/ Atomic!TxCommit \/ Atomic!TxAbort
           \/ Atomic!AfterAbort \/ Atomic!AfterCommit
  BY <1>5, AtomicTransactionSteps
<1> QED
  BY <1>1, <1>2, <1>3, <1>4, <1>5 DEF Atomic!Next, Atomic!Threads

-----------------------------------------------------------------------------
(* CoreAffinity.  The types; one thread of a core waits at its barrier.    *)
AffinityTypes ==
  /\ executionType \in {"normal", "normallyReplicated", "hyperReplicated"}
  /\ pc \in [0 .. 3 -> {"setup", "loop", "spin", "stuck", "compare", "reset", "flag",
                        "barrier", "ended"}]
  /\ i \in [0 .. 3 -> 0 .. NumValues]
  /\ tempResult \in [0 .. 3 -> SUBSET (Affinity!Values \X (Affinity!Values \cup {-1}))]
  /\ localTempResult \in [0 .. 1 -> Affinity!Values \cup {-1}]
  /\ globalTempResults \in [0 .. 1 -> Affinity!Values \cup {-1}]
  /\ hyperThreadsFinished \in [0 .. 1 -> 0 .. 1]
  /\ waiting \in [0 .. 1 -> SUBSET (0 .. 3)]
  /\ \A c \in 0 .. 1 : waiting[c] \in {{}, {c}, {c + 2}}
  /\ faults \in [0 .. 1 -> 0 .. MaxCoreFaults]

(* A thread that is not at the head of its loop has an iteration to do.    *)
InRange(t) ==
  /\ Affinity!First(t) <= i[t] /\ i[t] <= Affinity!Limit(t)
  /\ pc[t] = "setup" => i[t] = Affinity!First(t)
  /\ pc[t] = "ended" => i[t] = Affinity!Limit(t)
  /\ pc[t] \notin {"setup", "loop", "ended"} => i[t] < Affinity!Limit(t)

(* The entries of a sum that are right.                                    *)
RightPairs(S) == {<<k, Affinity!Affinity_CalcFunc(k)>> : k \in S}
OnlyRight(t) == \A entry \in tempResult[t] : entry[2] = Affinity!Affinity_CalcFunc(entry[1])

(* How often a thread was at its barrier, counted from the beginning of    *)
(* the range: a thread that waits is one ahead of the other one, and the   *)
(* threads that go on were there as often, whatever soft errors strike.    *)
Arrivals(t) == i[t] + (IF pc[t] = "setup" THEN 0 ELSE 1)

PairMeets(c) ==
  /\ pc[c] # "flag" /\ pc[c + 2] \in {"setup", "loop", "flag", "barrier", "ended"}
  /\ InRange(c) /\ InRange(c + 2)
  /\ \A t \in waiting[c] : pc[t] = "loop"
  /\ c \in waiting[c] <=> Arrivals(c) = Arrivals(c + 2) + 1
  /\ c + 2 \in waiting[c] <=> Arrivals(c + 2) = Arrivals(c) + 1
  /\ waiting[c] = {} => Arrivals(c) = Arrivals(c + 2)

(* The replica has done the iteration of its main thread, and no other.    *)
RoundDone(c) ==
  \/ pc[c + 2] = "barrier" /\ i[c + 2] = i[c]
  \/ c + 2 \in waiting[c] /\ i[c + 2] = i[c] + 1

(* Without a soft error, a flag that is set is that of the iteration, and  *)
(* a replica calculates in no iteration but that of its main thread.       *)
PairInStep(c) ==
  /\ hyperThreadsFinished[c] = 1 \/ pc[c] \in {"compare", "reset", "barrier"} =>
       RoundDone(c)
  /\ pc[c] = "barrier" => hyperThreadsFinished[c] = 0
  /\ c \in waiting[c] => pc[c + 2] \in {"setup", "barrier"}
  /\ pc[c + 2] = "flag" => i[c] = i[c + 2] /\ pc[c] \in {"loop", "spin", "stuck"}

(* Without a soft error, the results that are compared and added up.       *)
PairCalculates(c) ==
  /\ pc[c] \in {"spin", "compare"} =>
       localTempResult[c] = Affinity!Affinity_CalcFunc(i[c])
  /\ RoundDone(c) \/ pc[c + 2] = "flag" =>
       globalTempResults[c] = Affinity!Affinity_CalcFunc(i[c])
  /\ tempResult[c] = RightPairs(Affinity!First(c) ..
                                  IF pc[c] \in {"reset", "barrier"} THEN i[c] ELSE i[c] - 1)

(* A single soft error spoils one of the two results.                      *)
PairSpoilt(c) ==
  /\ pc[c] \in {"spin", "compare"} =>
       localTempResult[c] \in {Affinity!Affinity_CalcFunc(i[c]), -1}
  /\ faults[c] = 0 => localTempResult[c] # -1 /\ globalTempResults[c] # -1
  /\ faults[c] <= 1 => localTempResult[c] # -1 \/ globalTempResults[c] # -1
  /\ faults[c] <= 1 => OnlyRight(c)
  /\ tempResult[c + 2] = {}

PairIInv(c) ==
  /\ PairMeets(c) /\ PairSpoilt(c)
  /\ faults[c] = 0 => PairInStep(c) /\ PairCalculates(c)

(* The tasks without replicas, with one thread per core.                   *)
AloneIInv(c) ==
  /\ pc[c] \in {"setup", "loop", "ended"} /\ pc[c + 2] = "ended"
  /\ pc[c] # "ended" => c \in Affinity!Threads /\ InRange(c)
  /\ waiting[c] = {}
  /\ faults[c] = 0 => tempResult[c] = RightPairs(Affinity!First(c) .. i[c] - 1)
  /\ executionType = "normallyReplicated" => OnlyRight(c)

AffinityIInv ==
  /\ AffinityTypes
  /\ \A c \in 0 .. 1 : IF Affinity!Hyper THEN PairIInv(c) ELSE AloneIInv(c)

(* The core and the range of a thread and of its replica.                  *)
LEMMA PairRanges ==
  ASSUME NEW c \in 0 .. 1
  PROVE  /\ Affinity!Core(c) = c /\ Affinity!Core(c + 2) = c
         /\ Affinity!First(c + 2) = Affinity!First(c)
         /\ Affinity!Limit(c + 2) = Affinity!Limit(c)
         /\ Affinity!First(c) \in 0 .. NumValues
         /\ Affinity!Limit(c) \in Nat /\ Affinity!First(c) <= Affinity!Limit(c)
         /\ Affinity!Parts = 2 \/ c = 0 => Affinity!Limit(c) <= NumValues
<1>1. Affinity!Core(c) = c /\ Affinity!Core(c + 2) = c
  BY DEF Affinity!Core
<1>2. NumValues \in Nat \ {0}
  BY ThreadTestAssumption
<1>3. Affinity!First(c + 2) = Affinity!First(c) /\ Affinity!Limit(c + 2) = Affinity!Limit(c)
  BY <1>1 DEF Affinity!First, Affinity!Limit
<1>4. CASE Affinity!Parts = 1
  <2>1. NumValues \div 1 = NumValues /\ NumValues % 1 = 0
    BY <1>2
  <2> QED  BY <1>1, <1>2, <1>3, <1>4, <2>1 DEF Affinity!First, Affinity!Limit
<1>5. CASE Affinity!Parts = 2
  <2> DEFINE q == NumValues \div 2
             rest == NumValues % 2
  <2>1. q \in Nat /\ rest \in 0 .. 1 /\ NumValues = 2 * q + rest
    BY <1>2
  <2>2. /\ Affinity!First(c) = c * q
        /\ Affinity!Limit(c) = c * q + q + (IF c = 1 THEN rest ELSE 0)
    BY <1>1, <1>5 DEF Affinity!First, Affinity!Limit
  <2> HIDE DEF q, rest
  <2>3. CASE c = 0
    BY <1>2, <2>1, <2>2, <2>3, <1>1, <1>3
  <2>4. CASE c = 1
    BY <1>2, <2>1, <2>2, <2>4, <1>1, <1>3
  <2> QED  BY <2>3, <2>4
<1> QED  BY <1>4, <1>5 DEF Affinity!Parts

(* A result is a remainder, and no result is the wrong one.                *)
LEMMA CalculatedValues ==
  ASSUME NEW k \in Affinity!Values
  PROVE  /\ Affinity!Affinity_CalcFunc(k) \in Affinity!Values
         /\ Affinity!Affinity_CalcFunc(k) # -1
<1>1. NumResults \in Nat \ {0} /\ NumValues \in Nat \ {0} /\ k \in 0 .. NumValues - 1
  BY ThreadTestAssumption DEF Affinity!Values
<1>2. k % NumResults \in 0 .. k
  BY <1>1
<1> QED  BY <1>1, <1>2 DEF Affinity!Affinity_CalcFunc, Affinity!Values

(* The invariant holds at first, for every number of threads.              *)
LEMMA AffinityInit == Affinity!Init => AffinityIInv
<1> SUFFICES ASSUME Affinity!Init
             PROVE  AffinityIInv
  OBVIOUS
<1>1. /\ NumValues \in Nat \ {0} /\ MaxCoreFaults \in Nat
      /\ 0 \in Affinity!Values /\ 0 # -1
  BY ThreadTestAssumption DEF Affinity!Values
<1>2. /\ executionType \in {"normal", "normallyReplicated", "hyperReplicated"}
      /\ pc = [t \in 0 .. 3 |-> IF t \in Affinity!Threads THEN "setup" ELSE "ended"]
      /\ i = [t \in 0 .. 3 |-> Affinity!First(t)]
      /\ tempResult = [t \in 0 .. 3 |-> {}]
      /\ localTempResult = [c \in 0 .. 1 |-> 0]
      /\ globalTempResults = [c \in 0 .. 1 |-> 0]
      /\ hyperThreadsFinished = [c \in 0 .. 1 |-> 0]
      /\ waiting = [c \in 0 .. 1 |-> {}]
      /\ faults = [c \in 0 .. 1 |-> 0]
  BY DEF Affinity!Init, Affinity!Cores
<1>3. \A t \in 0 .. 3 : Affinity!First(t) \in 0 .. NumValues
  <2> SUFFICES ASSUME NEW t \in 0 .. 3
               PROVE  Affinity!First(t) \in 0 .. NumValues
    OBVIOUS
  <2>1. CASE t \in 0 .. 1
    BY <2>1, PairRanges
  <2>2. CASE t \notin 0 .. 1
    <3>1. t - 2 \in 0 .. 1 /\ t = (t - 2) + 2
      BY <2>2
    <3> QED  BY <3>1, PairRanges
  <2> QED  BY <2>1, <2>2
<1>4. AffinityTypes
  <2>1. i \in [0 .. 3 -> 0 .. NumValues]
    BY <1>2, <1>3
  <2>2. pc \in [0 .. 3 -> {"setup", "loop", "spin", "stuck", "compare", "reset", "flag",
                           "barrier", "ended"}]
    BY <1>2
  <2> QED  BY <1>1, <1>2, <2>1, <2>2 DEF AffinityTypes
<1>5. ASSUME NEW c \in 0 .. 1
      PROVE  IF Affinity!Hyper THEN PairIInv(c) ELSE AloneIInv(c)
  <2> DEFINE f == Affinity!First(c)
  <2>1. /\ f \in Nat /\ Affinity!First(c + 2) = f /\ Affinity!Limit(c) \in Nat
        /\ Affinity!Limit(c + 2) = Affinity!Limit(c) /\ f <= Affinity!Limit(c)
    BY PairRanges
  <2>2. RightPairs(f .. f - 1) = {}
    BY <2>1 DEF RightPairs
  <2>3. /\ c \in 0 .. 3 /\ c + 2 \in 0 .. 3 /\ i[c] = f /\ i[c + 2] = f
        /\ tempResult[c] = {} /\ tempResult[c + 2] = {} /\ waiting[c] = {}
        /\ localTempResult[c] = 0 /\ globalTempResults[c] = 0
        /\ hyperThreadsFinished[c] = 0 /\ faults[c] = 0
    BY <1>2, <2>1
  <2> HIDE DEF f
  <2>4. CASE Affinity!Hyper
    <3>1. pc[c] = "setup" /\ pc[c + 2] = "setup"
      BY <1>2, <2>3, <2>4 DEF Affinity!Threads, Affinity!Hyper
    <3>2. PairMeets(c)
      BY <2>1, <2>3, <3>1 DEF PairMeets, InRange, Arrivals, f
    <3>3. PairInStep(c) /\ ~RoundDone(c)
      BY <2>3, <3>1 DEF PairInStep, RoundDone
    <3>4. PairCalculates(c)
      BY <2>2, <2>3, <3>1, <3>3 DEF PairCalculates, f
    <3>5. PairSpoilt(c)
      BY <2>3, <3>1 DEF PairSpoilt, OnlyRight
    <3> QED  BY <2>4, <3>2, <3>3, <3>4, <3>5 DEF PairIInv
  <2>5. CASE ~Affinity!Hyper
    <3>1. /\ pc[c + 2] = "ended" /\ pc[c] \in {"setup", "ended"}
          /\ pc[c] = "setup" => c \in Affinity!Threads
      BY <1>2, <2>3, <2>5 DEF Affinity!Threads, Affinity!Hyper
    <3>2. pc[c] # "ended" => c \in Affinity!Threads /\ InRange(c)
      BY <2>1, <2>3, <3>1 DEF InRange, f
    <3> QED  BY <2>2, <2>3, <2>5, <3>1, <3>2 DEF AloneIInv, OnlyRight, f
  <2> QED  BY <2>4, <2>5
<1> QED  BY <1>4, <1>5 DEF AffinityIInv

(* It implies what the runs check of the thread tasks.                     *)
LEMMA AffinitySafe == AffinityIInv => Affinity!AffinityInv /\ Affinity!AddedIsRight
<1> SUFFICES ASSUME AffinityIInv
             PROVE  Affinity!AffinityInv /\ Affinity!AddedIsRight
  OBVIOUS
<1>1. AffinityTypes
  BY DEF AffinityIInv
<1>2. Affinity!TypeOK
  <2>1. ASSUME NEW c \in 0 .. 1
        PROVE  waiting[c] \subseteq {c, c + 2} /\ Affinity!Cardinality(waiting[c]) < 2
    <3>1. waiting[c] \in {{}, {c}, {c + 2}}
      BY <1>1 DEF AffinityTypes
    <3>2. Cardinality(waiting[c]) \in {0, 1}
      BY <3>1, FS_EmptySet, FS_Singleton
    <3>3. Affinity!Cardinality(waiting[c]) < 2
      BY <3>2, SameCount
    <3> QED  BY <3>1, <3>3
  <2>2. \A t \in 0 .. 3 :
          tempResult[t] \subseteq Affinity!Values \X (Affinity!Values \cup {-1})
    BY <1>1 DEF AffinityTypes
  <2> QED
    BY <1>1, <2>1, <2>2 DEF AffinityTypes, Affinity!TypeOK, Affinity!Cores, Affinity!Wrong
<1>3. Affinity!NoRoundLost
  <2> SUFFICES ASSUME NEW c \in 0 .. 1, c \in Affinity!Threads, faults[c] = 0
               PROVE  /\ Affinity!InStep(c)
                      /\ pc[c] = "loop" =>
                           tempResult[c] = RightPairs(Affinity!First(c) .. i[c] - 1)
    BY DEF Affinity!NoRoundLost, Affinity!Cores, RightPairs
  <2>1. CASE Affinity!Hyper
    BY <2>1
    DEF AffinityIInv, PairIInv, PairInStep, PairCalculates, RoundDone, Affinity!InStep
  <2>2. CASE ~Affinity!Hyper
    BY <2>2 DEF AffinityIInv, AloneIInv, Affinity!InStep
  <2> QED  BY <2>1, <2>2
<1>4. Affinity!AddedIsRight
  <2> SUFFICES ASSUME executionType # "normal", NEW t \in Affinity!Threads,
                      faults[Affinity!Core(t)] <= 1
               PROVE  OnlyRight(t)
    BY DEF Affinity!AddedIsRight, OnlyRight
  <2>1. PICK c \in 0 .. 1 : t \in {c, c + 2}
    <3>1. t \in 0 .. 3
      BY <1>1 DEF AffinityTypes, Affinity!Threads
    <3>2. CASE t \in 0 .. 1
      BY <3>2
    <3>3. CASE t \notin 0 .. 1
      <4>1. t - 2 \in 0 .. 1 /\ t = (t - 2) + 2
        BY <3>1, <3>3
      <4> QED  BY <4>1
    <3> QED  BY <3>2, <3>3
  <2>2. faults[c] <= 1
    BY <2>1, PairRanges
  <2>3. CASE Affinity!Hyper
    <3>1. PairSpoilt(c)
      BY <2>3 DEF AffinityIInv, PairIInv
    <3>2. CASE t = c
      BY <2>2, <3>1, <3>2 DEF PairSpoilt
    <3>3. CASE t = c + 2
      BY <3>1, <3>3 DEF PairSpoilt, OnlyRight
    <3> QED  BY <2>1, <3>2, <3>3
  <2>4. CASE ~Affinity!Hyper
    <3>1. executionType = "normallyReplicated" /\ AloneIInv(c)
      BY <1>1, <2>4 DEF AffinityTypes, AffinityIInv, Affinity!Hyper
    <3>2. t = c
      BY <2>1, <3>1 DEF Affinity!Threads
    <3> QED  BY <3>1, <3>2 DEF AloneIInv
  <2> QED  BY <2>3, <2>4
<1> QED  BY <1>2, <1>3, <1>4 DEF Affinity!AffinityInv

(* A step of thread t changes nothing of the other threads and cores.      *)
TouchesOnly(t) ==
  /\ AffinityTypes' /\ UNCHANGED executionType
  /\ \A u \in 0 .. 3 : u # t =>
       pc'[u] = pc[u] /\ i'[u] = i[u] /\ tempResult'[u] = tempResult[u]
  /\ \A d \in 0 .. 1 : d # Affinity!Core(t) =>
       /\ localTempResult'[d] = localTempResult[d]
       /\ globalTempResults'[d] = globalTempResults[d]
       /\ hyperThreadsFinished'[d] = hyperThreadsFinished[d]
       /\ waiting'[d] = waiting[d] /\ faults'[d] = faults[d]

(* So the other core is as it was.                                         *)
LEMMA OtherCore ==
  ASSUME AffinityIInv, NEW c \in 0 .. 1, NEW t \in {c, c + 2}, TouchesOnly(t),
         (IF Affinity!Hyper THEN PairIInv(c) ELSE AloneIInv(c))'
  PROVE  AffinityIInv'
<1>1. ASSUME NEW d \in 0 .. 1, d # c
      PROVE  (IF Affinity!Hyper THEN PairIInv(d) ELSE AloneIInv(d))'
  <2>1. d # Affinity!Core(t) /\ d # t /\ d + 2 # t /\ d \in 0 .. 3 /\ d + 2 \in 0 .. 3
    BY <1>1, PairRanges
  <2>2. /\ pc'[d] = pc[d] /\ i'[d] = i[d] /\ tempResult'[d] = tempResult[d]
        /\ pc'[d + 2] = pc[d + 2] /\ i'[d + 2] = i[d + 2]
        /\ tempResult'[d + 2] = tempResult[d + 2]
        /\ localTempResult'[d] = localTempResult[d]
        /\ globalTempResults'[d] = globalTempResults[d]
        /\ hyperThreadsFinished'[d] = hyperThreadsFinished[d]
        /\ waiting'[d] = waiting[d] /\ faults'[d] = faults[d]
        /\ executionType' = executionType
    BY <2>1 DEF TouchesOnly
  <2>3. /\ Affinity!First(d)' = Affinity!First(d) /\ Affinity!Limit(d)' = Affinity!Limit(d)
        /\ Affinity!First(d + 2)' = Affinity!First(d + 2)
        /\ Affinity!Limit(d + 2)' = Affinity!Limit(d + 2)
        /\ Affinity!Threads' = Affinity!Threads /\ Affinity!Hyper' = Affinity!Hyper
    BY <2>2
    DEF Affinity!First, Affinity!Limit, Affinity!Parts, Affinity!Threads, Affinity!Hyper
  <2>4. CASE Affinity!Hyper
    <3>1. PairIInv(d)
      BY <2>4 DEF AffinityIInv
    <3>2. waiting[d] \in {{}, {d}, {d + 2}}
      BY DEF AffinityIInv, AffinityTypes
    <3>3. \A u \in waiting[d] : pc'[u] = pc[u]
      BY <2>2, <3>2
    <3>4. PairMeets(d)'
      BY <2>2, <2>3, <3>1, <3>3 DEF PairIInv, PairMeets, InRange, Arrivals
    <3>5. /\ RoundDone(d)' <=> RoundDone(d)
          /\ PairInStep(d)' <=> PairInStep(d)
      BY <2>2 DEF PairInStep, RoundDone
    <3>6. PairCalculates(d)' <=> PairCalculates(d)
      BY <2>2, <2>3, <3>5 DEF PairCalculates, RightPairs
    <3>7. PairSpoilt(d)' <=> PairSpoilt(d)
      BY <2>2 DEF PairSpoilt, OnlyRight
    <3> QED  BY <2>2, <2>3, <2>4, <3>1, <3>4, <3>5, <3>6, <3>7 DEF PairIInv
  <2>5. CASE ~Affinity!Hyper
    <3>1. AloneIInv(d)
      BY <2>5 DEF AffinityIInv
    <3>2. AloneIInv(d)'
      BY <2>2, <2>3, <3>1 DEF AloneIInv, InRange, OnlyRight, RightPairs
    <3> QED  BY <2>3, <2>5, <3>2
  <2> QED  BY <2>4, <2>5
<1> QED  BY <1>1 DEF AffinityIInv, TouchesOnly

(* The facts about the two threads of a core.                              *)
LEMMA PairFacts ==
  ASSUME AffinityIInv, Affinity!Hyper, NEW c \in 0 .. 1
  PROVE  /\ AffinityTypes /\ PairIInv(c) /\ PairMeets(c) /\ PairSpoilt(c)
         /\ c \in 0 .. 3 /\ c + 2 \in 0 .. 3 /\ c # c + 2
         /\ i[c] \in Nat /\ i[c + 2] \in Nat
         /\ NumValues \in Nat \ {0} /\ MaxCoreFaults \in Nat
         /\ Affinity!First(c) \in 0 .. NumValues /\ Affinity!Limit(c) \in 0 .. NumValues
         /\ Affinity!First(c + 2) = Affinity!First(c)
         /\ Affinity!Limit(c + 2) = Affinity!Limit(c)
         /\ Affinity!Core(c) = c /\ Affinity!Core(c + 2) = c
         /\ waiting[c] \in {{}, {c}, {c + 2}}
         /\ hyperThreadsFinished[c] \in 0 .. 1 /\ faults[c] \in Nat
<1>1. AffinityTypes /\ PairIInv(c) /\ NumValues \in Nat \ {0} /\ MaxCoreFaults \in Nat
  BY ThreadTestAssumption DEF AffinityIInv
<1>2. /\ c \in 0 .. 3 /\ c + 2 \in 0 .. 3 /\ c # c + 2
  OBVIOUS
<1>3. i[c] \in Nat /\ i[c + 2] \in Nat /\ faults[c] \in Nat
  BY <1>1, <1>2 DEF AffinityTypes
<1>4. Affinity!Parts = 2
  BY DEF Affinity!Parts, Affinity!Hyper
<1>5. /\ Affinity!First(c) \in 0 .. NumValues /\ Affinity!Limit(c) \in 0 .. NumValues
      /\ Affinity!First(c + 2) = Affinity!First(c)
      /\ Affinity!Limit(c + 2) = Affinity!Limit(c)
      /\ Affinity!Core(c) = c /\ Affinity!Core(c + 2) = c
  BY <1>1, <1>4, PairRanges
<1> QED  BY <1>1, <1>2, <1>3, <1>5 DEF PairIInv, AffinityTypes

(* Thread t of a core comes to the barrier, at the beginning or at the end *)
(* of a round; o is the other one.                                         *)
LEMMA PairArrives ==
  ASSUME AffinityIInv, Affinity!Hyper, NEW c \in 0 .. 1,
         NEW t \in {c, c + 2}, NEW o \in {c, c + 2}, o # t,
         pc[t] = "setup" \/ pc[t] = "barrier", pc' = [pc EXCEPT ![t] = "loop"],
         Affinity!BarrierWait(t),
         i' = IF pc[t] = "barrier" THEN [i EXCEPT ![t] = @ + 1] ELSE i,
         UNCHANGED <<executionType, tempResult, localTempResult, globalTempResults,
                     hyperThreadsFinished, faults>>
  PROVE  /\ TouchesOnly(t)
         /\ pc'[t] = "loop" /\ pc'[o] = pc[o] /\ i'[o] = i[o]
         /\ i'[t] = IF pc[t] = "barrier" THEN i[t] + 1 ELSE i[t]
         /\ waiting[c] \in {{}, {o}}
         /\ waiting'[c] = IF waiting[c] = {} THEN {t} ELSE {}
         /\ PairMeets(c)'
<1>1. /\ AffinityTypes /\ PairMeets(c)
      /\ c \in 0 .. 3 /\ c + 2 \in 0 .. 3 /\ t \in 0 .. 3 /\ o \in 0 .. 3
      /\ i[t] \in Nat /\ i[o] \in Nat /\ Affinity!Core(t) = c
      /\ Affinity!First(t) = Affinity!First(c) /\ Affinity!Limit(t) = Affinity!Limit(c)
      /\ Affinity!First(c) \in 0 .. NumValues /\ Affinity!Limit(c) \in 0 .. NumValues
      /\ NumValues \in Nat
  BY PairFacts
<1>2. waiting[c] \in {{}, {o}}
  <2>1. t \notin waiting[c]
    BY <1>1 DEF PairMeets
  <2>2. CASE t = c
    BY <2>1, <2>2, PairFacts
  <2>3. CASE t = c + 2
    BY <2>1, <2>3, PairFacts
  <2> QED  BY <2>2, <2>3
<1>3. Affinity!Arrive(waiting[c], t, 2) = IF waiting[c] = {} THEN {t} ELSE {}
  <2> DEFINE W == waiting[c]
  <2>1. W \in {{}, {o}}
    BY <1>2
  <2> HIDE DEF W
  <2>2. Affinity!Arrive(W, t, 2) = IF W = {} THEN {t} ELSE {}
    BY <2>1, ArriveAtBarrier
  <2> QED  BY <2>2 DEF W
<1>4. /\ waiting' = [waiting EXCEPT ![c] = IF waiting[c] = {} THEN {t} ELSE {}]
      /\ waiting'[c] = IF waiting[c] = {} THEN {t} ELSE {}
      /\ \A d \in 0 .. 1 : d # c => waiting'[d] = waiting[d]
  BY <1>1, <1>3 DEF Affinity!BarrierWait, AffinityTypes
<1>5. /\ pc'[t] = "loop" /\ \A u \in 0 .. 3 : u # t => pc'[u] = pc[u]
      /\ pc' \in [0 .. 3 -> {"setup", "loop", "spin", "stuck", "compare", "reset", "flag",
                             "barrier", "ended"}]
  BY <1>1 DEF AffinityTypes
<1>6. /\ i'[t] = IF pc[t] = "barrier" THEN i[t] + 1 ELSE i[t]
      /\ \A u \in 0 .. 3 : u # t => i'[u] = i[u]
      /\ i' \in [0 .. 3 -> 0 .. NumValues]
  <2>1. pc[t] = "barrier" => i[t] + 1 \in 0 .. NumValues
    BY <1>1 DEF PairMeets, InRange
  <2> QED  BY <1>1, <2>1 DEF AffinityTypes
<1>7. TouchesOnly(t)
  <2>1. waiting' \in [0 .. 1 -> SUBSET (0 .. 3)]
    BY <1>1, <1>4 DEF AffinityTypes
  <2>2. \A d \in 0 .. 1 : waiting'[d] \in {{}, {d}, {d + 2}}
    BY <1>1, <1>4 DEF AffinityTypes
  <2>3. AffinityTypes'
    BY <1>1, <1>5, <1>6, <2>1, <2>2 DEF AffinityTypes, Affinity!Values
  <2> QED  BY <1>1, <1>4, <1>5, <1>6, <2>3 DEF TouchesOnly
<1>8. /\ Affinity!First(c)' = Affinity!First(c) /\ Affinity!Limit(c)' = Affinity!Limit(c)
      /\ Affinity!First(c + 2)' = Affinity!First(c + 2)
      /\ Affinity!Limit(c + 2)' = Affinity!Limit(c + 2)
  BY DEF Affinity!First, Affinity!Limit, Affinity!Parts
<1>9. Arrivals(t)' = Arrivals(t) + 1 /\ Arrivals(o)' = Arrivals(o)
      /\ Arrivals(t) \in Nat /\ Arrivals(o) \in Nat
  BY <1>1, <1>5, <1>6 DEF Arrivals
<1>10. InRange(t)' /\ InRange(o)'
  <2>1. InRange(t) /\ InRange(o)
    BY <1>1 DEF PairMeets
  <2> QED  BY <1>1, <1>5, <1>6, <1>8, <2>1, PairFacts DEF InRange
<1>11. /\ t \notin waiting[c] /\ (o \in waiting[c] <=> Arrivals(o) = Arrivals(t) + 1)
       /\ waiting[c] = {} => Arrivals(o) = Arrivals(t)
  BY <1>1, <1>2 DEF PairMeets
<1>12. /\ t \in waiting'[c] <=> Arrivals(t)' = Arrivals(o)' + 1
       /\ o \in waiting'[c] <=> Arrivals(o)' = Arrivals(t)' + 1
       /\ waiting'[c] = {} => Arrivals(o)' = Arrivals(t)'
  BY <1>2, <1>4, <1>9, <1>11
<1>13. \A u \in waiting'[c] : pc'[u] = "loop"
  BY <1>4, <1>5
<1>14. PairMeets(c)'
  <2>1. CASE t = c
    <3>1. o = c + 2
      BY <2>1
    <3> QED  BY <1>1, <1>5, <1>10, <1>12, <1>13, <2>1, <3>1 DEF PairMeets
  <2>2. CASE t = c + 2
    <3>1. o = c
      BY <2>2
    <3> QED  BY <1>1, <1>5, <1>10, <1>12, <1>13, <2>2, <3>1 DEF PairMeets
  <2> QED  BY <2>1, <2>2
<1> QED  BY <1>1, <1>2, <1>4, <1>5, <1>6, <1>7, <1>14

(* What the parts of the invariant say of the calculations does not depend *)
(* on the barrier.                                                         *)
LEMMA SpoiltAsBefore ==
  ASSUME AffinityIInv, Affinity!Hyper, NEW c \in 0 .. 1,
         \/ pc'[c] \notin {"spin", "compare"}
         \/ i'[c] = i[c] /\ pc[c] \in {"spin", "compare"},
         tempResult' = tempResult, localTempResult'[c] = localTempResult[c],
         globalTempResults'[c] = globalTempResults[c], faults'[c] = faults[c]
  PROVE  PairSpoilt(c)'
BY PairFacts DEF PairSpoilt, OnlyRight

(* The barrier before the first round.                                     *)
LEMMA PairSetup ==
  ASSUME AffinityIInv, Affinity!Hyper, NEW c \in 0 .. 1, NEW t \in {c, c + 2},
         Affinity!Setup(t)
  PROVE  TouchesOnly(t) /\ PairIInv(c)'
<1> DEFINE r == c + 2
           f == Affinity!First(c)
<1>1. /\ PairMeets(c) /\ PairIInv(c) /\ i[c] \in Nat /\ i[r] \in Nat /\ c # r
      /\ f \in Nat /\ Affinity!Core(t) = c
      /\ Affinity!First(r) = f
  BY PairFacts
<1>2. PICK o \in {c, c + 2} : o # t
  BY <1>1
<1>3. /\ pc[t] = "setup" /\ pc' = [pc EXCEPT ![t] = "loop"] /\ Affinity!BarrierWait(t)
      /\ UNCHANGED <<executionType, i, tempResult, localTempResult, globalTempResults,
                     hyperThreadsFinished, faults>>
  BY DEF Affinity!Setup, Affinity!Go
<1>4. /\ TouchesOnly(t) /\ PairMeets(c)'
      /\ pc'[t] = "loop" /\ pc'[o] = pc[o]
      /\ waiting[c] \in {{}, {o}}
      /\ waiting'[c] = IF waiting[c] = {} THEN {t} ELSE {}
  <2>1. i' = IF pc[t] = "barrier" THEN [i EXCEPT ![t] = @ + 1] ELSE i
    BY <1>3
  <2> QED  BY <1>2, <1>3, <2>1, PairArrives, ZenonT(60)
<1>5. /\ pc[c] = "setup" => i[c] = f
      /\ pc[r] = "setup" => i[r] = f
      /\ f <= i[c] /\ f <= i[r]
      /\ r \in waiting[c] <=> Arrivals(r) = Arrivals(c) + 1
      /\ waiting[c] = {} => Arrivals(c) = Arrivals(r)
      /\ r \in waiting[c] => pc[r] = "loop"
  BY <1>1 DEF PairMeets, InRange
<1>6. ~RoundDone(c) /\ ~RoundDone(c)'
  <2>1. CASE t = c
    <3>1. pc[r] # "setup" => i[r] # i[c] \/ pc[r] = "loop"
      BY <1>1, <1>3, <1>5, <2>1 DEF Arrivals
    <3>2. ~(r \in waiting[c] /\ i[r] = i[c] + 1)
      BY <1>1, <1>3, <1>5, <2>1 DEF Arrivals
    <3>3. o = r /\ r \notin waiting'[c] /\ pc'[r] = pc[r]
      BY <1>1, <1>2, <1>4, <2>1
    <3> QED  BY <1>3, <3>1, <3>2, <3>3 DEF RoundDone
  <2>2. CASE t = r
    <3>1. pc[r] = "setup" /\ pc'[r] = "loop" /\ i[r] # i[c] + 1
      BY <1>1, <1>3, <1>4, <1>5, <2>2
    <3>2. r \notin waiting[c]
      BY <1>5, <3>1
    <3> QED  BY <1>3, <3>1, <3>2 DEF RoundDone
  <2> QED  BY <2>1, <2>2
<1>7. ASSUME faults[c] = 0
      PROVE  PairInStep(c)' /\ PairCalculates(c)'
  <2>1. PairInStep(c) /\ PairCalculates(c)
    BY <1>1, <1>7 DEF PairIInv
  <2>2. hyperThreadsFinished[c] # 1 /\ pc[c] \notin {"compare", "reset", "barrier"}
    BY <1>6, <2>1 DEF PairInStep
  <2>3. pc[t] = "setup" /\ (pc[r] = "flag" => pc[c] # "setup")
    BY <1>3, <2>1 DEF PairInStep
  <2>4. CASE t = c
    <3>1. o = r /\ pc'[c] = "loop" /\ pc'[r] = pc[r] /\ pc[r] # "flag"
      BY <1>2, <1>4, <2>3, <2>4
    <3>2. c \in waiting'[c] => pc[r] = "setup"
      BY <1>1, <1>3, <1>4, <1>5, <2>4 DEF Arrivals
    <3>3. PairInStep(c)'
      BY <1>3, <1>6, <2>2, <3>1, <3>2 DEF PairInStep
    <3>4. PairCalculates(c)'
      BY <1>3, <1>6, <2>1, <2>4, <3>1
      DEF PairCalculates, RightPairs, Affinity!First, Affinity!Parts
    <3> QED  BY <3>3, <3>4
  <2>5. CASE t = r
    <3>1. o = c /\ pc'[r] = "loop" /\ pc'[c] = pc[c] /\ c \notin waiting'[c]
      BY <1>1, <1>2, <1>4, <2>5
    <3>2. PairInStep(c)'
      BY <1>3, <1>6, <2>2, <3>1 DEF PairInStep
    <3>3. PairCalculates(c)'
      BY <1>3, <1>6, <2>1, <3>1
      DEF PairCalculates, RightPairs, Affinity!First, Affinity!Parts
    <3> QED  BY <3>2, <3>3
  <2> QED  BY <2>4, <2>5
<1>8. PairSpoilt(c)'
  <2>1. pc'[c] = "loop" \/ pc'[c] = pc[c]
    BY <1>2, <1>4
  <2> QED  BY <1>3, <2>1, SpoiltAsBefore
<1> QED  BY <1>3, <1>4, <1>7, <1>8 DEF PairIInv

(* The barrier that ends a round; without a soft error the flag was reset  *)
(* before, and the replica has done the round.                             *)
LEMMA PairEndRound ==
  ASSUME AffinityIInv, Affinity!Hyper, NEW c \in 0 .. 1, NEW t \in {c, c + 2},
         Affinity!EndRound(t)
  PROVE  TouchesOnly(t) /\ PairIInv(c)'
<1> DEFINE r == c + 2
<1>1. /\ PairMeets(c) /\ PairIInv(c) /\ i[c] \in Nat /\ i[r] \in Nat /\ c # r
      /\ Affinity!First(c) \in Nat
  BY PairFacts
<1>2. PICK o \in {c, c + 2} : o # t
  BY <1>1
<1>3. /\ pc[t] = "barrier" /\ pc' = [pc EXCEPT ![t] = "loop"] /\ Affinity!BarrierWait(t)
      /\ i' = [i EXCEPT ![t] = @ + 1]
      /\ UNCHANGED <<executionType, tempResult, localTempResult, globalTempResults,
                     hyperThreadsFinished, faults>>
  BY DEF Affinity!EndRound, Affinity!Go, Affinity!NextIteration
<1>4. /\ TouchesOnly(t) /\ PairMeets(c)'
      /\ pc'[t] = "loop" /\ pc'[o] = pc[o] /\ i'[o] = i[o] /\ i'[t] = i[t] + 1
      /\ waiting[c] \in {{}, {o}}
      /\ waiting'[c] = IF waiting[c] = {} THEN {t} ELSE {}
  <2>1. i' = IF pc[t] = "barrier" THEN [i EXCEPT ![t] = @ + 1] ELSE i
    BY <1>3
  <2> QED  BY <1>2, <1>3, <2>1, PairArrives, ZenonT(60)
<1>5. ASSUME faults[c] = 0
      PROVE  PairInStep(c)' /\ PairCalculates(c)'
  <2>1. PairInStep(c) /\ PairCalculates(c)
    BY <1>1, <1>5 DEF PairIInv
  <2>2. CASE t = c
    <3>1. /\ o = r /\ pc[c] = "barrier" /\ pc'[c] = "loop" /\ pc'[r] = pc[r]
          /\ i'[c] = i[c] + 1 /\ i'[r] = i[r]
          /\ waiting[c] \in {{}, {r}} /\ waiting'[c] = IF waiting[c] = {} THEN {c} ELSE {}
      BY <1>1, <1>2, <1>3, <1>4, <2>2
    <3>2. hyperThreadsFinished[c] # 1 /\ RoundDone(c)
      BY <2>1, <3>1 DEF PairInStep
    <3>3. r \in waiting[c] => pc[r] = "loop"
      BY <1>1 DEF PairMeets
    <3>4. ~RoundDone(c)' /\ r \notin waiting'[c]
      BY <1>1, <3>1, <3>2, <3>3 DEF RoundDone
    <3>5. c \in waiting'[c] => pc[r] = "barrier"
      BY <1>1, <3>1, <3>2 DEF RoundDone
    <3>6. pc[r] # "flag"
      BY <3>2, <3>3 DEF RoundDone
    <3>7. PairInStep(c)'
      BY <1>3, <3>1, <3>2, <3>4, <3>5, <3>6 DEF PairInStep
    <3>8. tempResult[c] = RightPairs(Affinity!First(c) .. i[c])
      BY <2>1, <3>1 DEF PairCalculates
    <3>9. tempResult'[c] = RightPairs(Affinity!First(c) .. i'[c] - 1)
      <4>1. i'[c] - 1 = i[c]
        BY <1>1, <3>1
      <4> QED  BY <1>3, <3>8, <4>1
    <3>10. PairCalculates(c)'
      BY <1>3, <3>1, <3>4, <3>6, <3>9
      DEF PairCalculates, RightPairs, Affinity!First, Affinity!Parts
    <3> QED  BY <3>7, <3>10
  <2>3. CASE t = r
    <3>1. /\ o = c /\ pc[r] = "barrier" /\ pc'[r] = "loop" /\ pc'[c] = pc[c]
          /\ i'[r] = i[r] + 1 /\ i'[c] = i[c]
          /\ waiting[c] \in {{}, {c}} /\ waiting'[c] = IF waiting[c] = {} THEN {r} ELSE {}
      BY <1>1, <1>2, <1>3, <1>4, <2>3
    <3>2. c \in waiting[c] => pc[c] = "loop" /\ i[c] # i[r]
      BY <1>1, <3>1 DEF PairMeets, Arrivals
    <3>3. RoundDone(c)' <=> RoundDone(c)
      BY <1>1, <3>1, <3>2 DEF RoundDone
    <3>4. c \notin waiting'[c]
      BY <1>1, <3>1
    <3>5. PairInStep(c)'
      BY <1>3, <2>1, <3>1, <3>3, <3>4 DEF PairInStep
    <3>6. PairCalculates(c)'
      BY <1>3, <2>1, <3>1, <3>3
      DEF PairCalculates, RightPairs, Affinity!First, Affinity!Parts
    <3> QED  BY <3>5, <3>6
  <2> QED  BY <2>2, <2>3
<1>6. PairSpoilt(c)'
  <2>1. CASE t = c
    BY <1>3, <1>4, <2>1, SpoiltAsBefore
  <2>2. CASE t = r
    <3>1. pc'[c] = pc[c] /\ i'[c] = i[c]
      BY <1>1, <1>2, <1>4, <2>2
    <3> QED  BY <1>3, <3>1, SpoiltAsBefore
  <2> QED  BY <2>1, <2>2
<1> QED  BY <1>3, <1>4, <1>5, <1>6 DEF PairIInv

(* Thread t of a core moves on without the barrier.                        *)
LEMMA PairMoves ==
  ASSUME AffinityIInv, Affinity!Hyper, NEW c \in 0 .. 1, NEW t \in {c, c + 2}, NEW p,
         pc' = [pc EXCEPT ![t] = p], UNCHANGED <<executionType, i, waiting>>,
         pc[t] # "setup", t \notin waiting[c],
         \/ p \in {"spin", "stuck", "compare", "reset"} /\ t = c /\ i[t] < Affinity!Limit(t)
         \/ p \in {"barrier"} /\ i[t] < Affinity!Limit(t)
         \/ p = "flag" /\ t = c + 2 /\ i[t] < Affinity!Limit(t)
         \/ p = "ended" /\ i[t] = Affinity!Limit(t)
  PROVE  /\ PairMeets(c)' /\ pc'[t] = p
         /\ \A u \in 0 .. 3 : u # t => pc'[u] = pc[u]
         /\ pc' \in [0 .. 3 -> {"setup", "loop", "spin", "stuck", "compare", "reset", "flag",
                                "barrier", "ended"}]
         /\ t = c => (RoundDone(c)' <=> RoundDone(c))
<1>1. /\ AffinityTypes /\ PairMeets(c)
      /\ c \in 0 .. 3 /\ c + 2 \in 0 .. 3 /\ t \in 0 .. 3 /\ c # c + 2
      /\ waiting[c] \in {{}, {c}, {c + 2}}
  BY PairFacts
<1>2. /\ pc'[t] = p /\ \A u \in 0 .. 3 : u # t => pc'[u] = pc[u]
      /\ pc' \in [0 .. 3 -> {"setup", "loop", "spin", "stuck", "compare", "reset", "flag",
                             "barrier", "ended"}]
  BY <1>1 DEF AffinityTypes
<1>3. /\ Affinity!First(c)' = Affinity!First(c) /\ Affinity!Limit(c)' = Affinity!Limit(c)
      /\ Affinity!First(c + 2)' = Affinity!First(c + 2)
      /\ Affinity!Limit(c + 2)' = Affinity!Limit(c + 2)
  BY DEF Affinity!First, Affinity!Limit, Affinity!Parts
<1>4. \A u \in waiting[c] : u \in 0 .. 3 /\ u # t
  BY <1>1
<1>5. CASE t = c
  <2>1. Arrivals(c)' = Arrivals(c) /\ Arrivals(c + 2)' = Arrivals(c + 2)
    BY <1>1, <1>2, <1>5 DEF Arrivals
  <2>2. InRange(c)' /\ InRange(c + 2)'
    BY <1>1, <1>2, <1>3, <1>5 DEF PairMeets, InRange
  <2>3. PairMeets(c)'
    BY <1>1, <1>2, <1>4, <1>5, <2>1, <2>2 DEF PairMeets
  <2>4. RoundDone(c)' <=> RoundDone(c)
    BY <1>1, <1>2, <1>5 DEF RoundDone
  <2> QED  BY <1>2, <2>3, <2>4
<1>6. CASE t = c + 2
  <2>1. Arrivals(c)' = Arrivals(c) /\ Arrivals(c + 2)' = Arrivals(c + 2)
    BY <1>1, <1>2, <1>6 DEF Arrivals
  <2>2. InRange(c)' /\ InRange(c + 2)'
    BY <1>1, <1>2, <1>3, <1>6 DEF PairMeets, InRange
  <2>3. PairMeets(c)'
    BY <1>1, <1>2, <1>4, <1>6, <2>1, <2>2 DEF PairMeets
  <2> QED  BY <1>1, <1>2, <1>6, <2>3
<1> QED  BY <1>5, <1>6

(* A calculation is right, or the next soft error of the core.             *)
LEMMA Calculation ==
  ASSUME AffinityTypes, NEW c \in 0 .. 1, NEW t \in 0 .. 3, Affinity!Core(t) = c,
         i[t] < NumValues, NEW v, Affinity!Calculates(t, v)
  PROVE  /\ i[t] \in Affinity!Values /\ v \in Affinity!Values \cup {-1}
         /\ Affinity!Affinity_CalcFunc(i[t]) # -1
         /\ faults' \in [0 .. 1 -> 0 .. MaxCoreFaults]
         /\ \A d \in 0 .. 1 : d # c => faults'[d] = faults[d]
         /\ \/ v = Affinity!Affinity_CalcFunc(i[t]) /\ faults'[c] = faults[c]
            \/ v = -1 /\ faults'[c] = faults[c] + 1
<1>1. i[t] \in Affinity!Values /\ MaxCoreFaults \in Nat
  BY ThreadTestAssumption DEF AffinityTypes, Affinity!Values
<1>2. /\ Affinity!Affinity_CalcFunc(i[t]) \in Affinity!Values
      /\ Affinity!Affinity_CalcFunc(i[t]) # -1
  BY <1>1, CalculatedValues
<1>3. faults \in [0 .. 1 -> 0 .. MaxCoreFaults]
  BY DEF AffinityTypes
<1>4. CASE v = Affinity!Affinity_CalcFunc(i[t]) /\ UNCHANGED faults
  BY <1>1, <1>2, <1>3, <1>4
<1>5. CASE /\ faults[c] < MaxCoreFaults /\ v = -1
           /\ faults' = [faults EXCEPT ![c] = @ + 1]
  <2>1. faults[c] + 1 \in 0 .. MaxCoreFaults
    BY <1>1, <1>3, <1>5
  <2>2. /\ faults' \in [0 .. 1 -> 0 .. MaxCoreFaults]
        /\ \A d \in 0 .. 1 : d # c => faults'[d] = faults[d]
        /\ faults'[c] = faults[c] + 1
    BY <1>3, <1>5, <2>1
  <2> QED  BY <1>1, <1>2, <1>5, <2>2
<1> QED  BY <1>4, <1>5 DEF Affinity!Calculates, Affinity!Wrong

(* A main thread calculates, right or not.                                 *)
LEMMA PairMainCalculate ==
  ASSUME AffinityIInv, Affinity!Hyper, NEW c \in 0 .. 1, Affinity!MainCalculate(c)
  PROVE  TouchesOnly(c) /\ PairIInv(c)'
<1> DEFINE r == c + 2
<1>1. /\ PairMeets(c) /\ PairIInv(c) /\ PairSpoilt(c) /\ AffinityTypes /\ c # r
      /\ c \in 0 .. 3 /\ r \in 0 .. 3 /\ Affinity!Core(c) = c
      /\ Affinity!Limit(c) \in 0 .. NumValues /\ NumValues \in Nat
      /\ i[c] \in Nat /\ faults[c] \in Nat
  BY PairFacts
<1>2. /\ pc[c] = "loop" /\ pc' = [pc EXCEPT ![c] = "spin"] /\ c \notin waiting[c]
      /\ i[c] < Affinity!Limit(c)
      /\ UNCHANGED <<executionType, i, tempResult, globalTempResults, hyperThreadsFinished,
                     waiting>>
  BY <1>1 DEF Affinity!MainCalculate, Affinity!Go, Affinity!InLoop, Affinity!shared
<1>3. PICK v \in Affinity!Results :
        /\ Affinity!Calculates(c, v)
        /\ localTempResult' = [localTempResult EXCEPT ![c] = v]
  BY DEF Affinity!MainCalculate
<1>4. i[c] < NumValues
  BY <1>1, <1>2
<1>5. /\ v \in Affinity!Values \cup {-1} /\ Affinity!Affinity_CalcFunc(i[c]) # -1
      /\ faults' \in [0 .. 1 -> 0 .. MaxCoreFaults]
      /\ \A d \in 0 .. 1 : d # c => faults'[d] = faults[d]
      /\ \/ v = Affinity!Affinity_CalcFunc(i[c]) /\ faults'[c] = faults[c]
         \/ v = -1 /\ faults'[c] = faults[c] + 1
  BY <1>1, <1>3, <1>4, Calculation
<1>6. /\ localTempResult' \in [0 .. 1 -> Affinity!Values \cup {-1}]
      /\ localTempResult'[c] = v
      /\ \A d \in 0 .. 1 : d # c => localTempResult'[d] = localTempResult[d]
  BY <1>1, <1>3, <1>5 DEF AffinityTypes
<1>7. /\ PairMeets(c)' /\ pc'[c] = "spin" /\ (RoundDone(c)' <=> RoundDone(c))
      /\ \A u \in 0 .. 3 : u # c => pc'[u] = pc[u]
      /\ pc' \in [0 .. 3 -> {"setup", "loop", "spin", "stuck", "compare", "reset", "flag",
                             "barrier", "ended"}]
  BY <1>2, PairMoves
<1>8. TouchesOnly(c)
  <2>1. AffinityTypes'
    BY <1>1, <1>2, <1>5, <1>6, <1>7 DEF AffinityTypes, Affinity!Values
  <2> QED  BY <1>1, <1>2, <1>5, <1>6, <1>7, <2>1 DEF TouchesOnly
<1>9. ASSUME faults'[c] = 0
      PROVE  PairInStep(c)' /\ PairCalculates(c)'
  <2>1. faults[c] = 0 /\ v = Affinity!Affinity_CalcFunc(i[c])
    BY <1>1, <1>5, <1>9
  <2>2. PairInStep(c) /\ PairCalculates(c)
    BY <1>1, <2>1 DEF PairIInv
  <2>3. PairInStep(c)'
    BY <1>1, <1>2, <1>7, <2>2 DEF PairInStep
  <2>4. PairCalculates(c)'
    BY <1>1, <1>2, <1>6, <1>7, <2>1, <2>2
    DEF PairCalculates, RightPairs, Affinity!First, Affinity!Parts
  <2> QED  BY <2>3, <2>4
<1>10. PairSpoilt(c)'
  <2>1. (faults'[c] = 0 => faults[c] = 0) /\ (faults'[c] <= 1 => faults[c] <= 1)
    BY <1>1, <1>5
  <2>2. faults'[c] <= 1 /\ v = -1 => faults[c] = 0
    BY <1>1, <1>5
  <2>3. faults'[c] = 0 => v # -1
    BY <1>1, <1>5
  <2> QED  BY <1>1, <1>2, <1>5, <1>6, <2>1, <2>2, <2>3 DEF PairSpoilt, OnlyRight
<1> QED  BY <1>7, <1>8, <1>9, <1>10 DEF PairIInv

(* A replica calculates; its main thread is in the same iteration then,    *)
(* and has not compared, unless a soft error struck before.                *)
LEMMA PairReplicaCalculate ==
  ASSUME AffinityIInv, Affinity!Hyper, NEW c \in 0 .. 1, Affinity!ReplicaCalculate(c + 2)
  PROVE  TouchesOnly(c + 2) /\ PairIInv(c)'
<1> DEFINE r == c + 2
<1>1. /\ PairMeets(c) /\ PairIInv(c) /\ PairSpoilt(c) /\ AffinityTypes /\ c # r
      /\ c \in 0 .. 3 /\ r \in 0 .. 3 /\ Affinity!Core(r) = c
      /\ Affinity!Limit(r) = Affinity!Limit(c) /\ Affinity!First(r) = Affinity!First(c)
      /\ Affinity!Limit(c) \in 0 .. NumValues /\ NumValues \in Nat
      /\ Affinity!First(c) \in 0 .. NumValues
      /\ i[c] \in Nat /\ i[r] \in Nat /\ faults[c] \in Nat
      /\ waiting[c] \in {{}, {c}, {r}}
  BY PairFacts
<1>2. /\ pc[r] = "loop" /\ pc' = [pc EXCEPT ![r] = "flag"] /\ r \notin waiting[c]
      /\ i[r] < Affinity!Limit(r)
      /\ UNCHANGED <<executionType, i, tempResult, localTempResult, hyperThreadsFinished,
                     waiting>>
  BY <1>1 DEF Affinity!ReplicaCalculate, Affinity!Go, Affinity!InLoop
<1>3. PICK v \in Affinity!Results :
        /\ Affinity!Calculates(r, v)
        /\ globalTempResults' = [globalTempResults EXCEPT ![c] = v]
  BY <1>1 DEF Affinity!ReplicaCalculate
<1>4. i[r] < NumValues
  BY <1>1, <1>2
<1>5. /\ v \in Affinity!Values \cup {-1} /\ Affinity!Affinity_CalcFunc(i[r]) # -1
      /\ faults' \in [0 .. 1 -> 0 .. MaxCoreFaults]
      /\ \A d \in 0 .. 1 : d # c => faults'[d] = faults[d]
      /\ \/ v = Affinity!Affinity_CalcFunc(i[r]) /\ faults'[c] = faults[c]
         \/ v = -1 /\ faults'[c] = faults[c] + 1
  BY <1>1, <1>3, <1>4, Calculation
<1>6. /\ globalTempResults' \in [0 .. 1 -> Affinity!Values \cup {-1}]
      /\ globalTempResults'[c] = v
      /\ \A d \in 0 .. 1 : d # c => globalTempResults'[d] = globalTempResults[d]
  BY <1>1, <1>3, <1>5 DEF AffinityTypes
<1>7. /\ PairMeets(c)' /\ pc'[r] = "flag"
      /\ \A u \in 0 .. 3 : u # r => pc'[u] = pc[u]
      /\ pc' \in [0 .. 3 -> {"setup", "loop", "spin", "stuck", "compare", "reset", "flag",
                             "barrier", "ended"}]
  BY <1>1, <1>2, PairMoves
<1>8. TouchesOnly(r)
  <2>1. AffinityTypes'
    BY <1>1, <1>2, <1>5, <1>6, <1>7 DEF AffinityTypes, Affinity!Values
  <2> QED  BY <1>1, <1>2, <1>5, <1>6, <1>7, <2>1 DEF TouchesOnly
<1>9. ASSUME faults'[c] = 0
      PROVE  PairInStep(c)' /\ PairCalculates(c)'
  <2>1. faults[c] = 0 /\ v = Affinity!Affinity_CalcFunc(i[r])
    BY <1>1, <1>5, <1>9
  <2>2. PairInStep(c) /\ PairCalculates(c)
    BY <1>1, <2>1 DEF PairIInv
  <2>3. ~RoundDone(c) /\ ~RoundDone(c)'
    BY <1>1, <1>2, <1>7 DEF RoundDone
  <2>4. c \notin waiting[c]
    BY <1>2, <2>2 DEF PairInStep
  <2>5. Arrivals(c) = Arrivals(r)
    BY <1>1, <1>2, <2>4 DEF PairMeets
  <2>6. pc[c] # "setup" /\ i[c] = i[r]
    BY <1>1, <1>2, <2>5 DEF PairMeets, InRange, Arrivals
  <2>7. pc[c] \notin {"compare", "reset", "barrier", "ended", "flag"}
    BY <1>1, <1>2, <2>2, <2>3, <2>6 DEF PairMeets, InRange, PairInStep
  <2>8. pc[c] \in {"loop", "spin", "stuck"}
    BY <1>1, <2>6, <2>7 DEF AffinityTypes
  <2>9. pc'[c] = pc[c]
    BY <1>1, <1>7
  <2>10. PairInStep(c)'
    BY <1>2, <2>2, <2>3, <2>4, <2>6, <2>8, <2>9 DEF PairInStep
  <2>11. PairCalculates(c)'
    BY <1>1, <1>2, <1>6, <2>1, <2>2, <2>3, <2>6, <2>9
    DEF PairCalculates, RightPairs, Affinity!First, Affinity!Parts
  <2> QED  BY <2>10, <2>11
<1>10. PairSpoilt(c)'
  <2>1. (faults'[c] = 0 => faults[c] = 0) /\ (faults'[c] <= 1 => faults[c] <= 1)
    BY <1>1, <1>5
  <2>2. faults'[c] <= 1 /\ v = -1 => faults[c] = 0
    BY <1>1, <1>5
  <2>3. faults'[c] = 0 => v # -1
    BY <1>1, <1>5
  <2>4. pc'[c] = pc[c]
    BY <1>1, <1>7
  <2> QED  BY <1>1, <1>2, <1>5, <1>6, <2>1, <2>2, <2>3, <2>4 DEF PairSpoilt, OnlyRight
<1> QED  BY <1>7, <1>8, <1>9, <1>10 DEF PairIInv

(* The steps of a main thread that look at the flag.                       *)
LEMMA PairSpin ==
  ASSUME AffinityIInv, Affinity!Hyper, NEW c \in 0 .. 1,
         Affinity!SpinEnds(c) \/ Affinity!SpinForEver(c)
  PROVE  TouchesOnly(c) /\ PairIInv(c)'
<1>1. /\ PairMeets(c) /\ PairIInv(c) /\ PairSpoilt(c) /\ AffinityTypes
      /\ c \in 0 .. 3 /\ c + 2 \in 0 .. 3 /\ c # c + 2 /\ Affinity!Core(c) = c
      /\ waiting[c] \in {{}, {c}, {c + 2}}
  BY PairFacts
<1>2. PICK p \in {"compare", "stuck"} :
        /\ pc[c] = "spin" /\ pc' = [pc EXCEPT ![c] = p]
        /\ p = "compare" => hyperThreadsFinished[c] = 1
        /\ UNCHANGED <<executionType, i, tempResult, localTempResult, globalTempResults,
                       hyperThreadsFinished, waiting, faults>>
  BY DEF Affinity!SpinEnds, Affinity!SpinForEver, Affinity!Go, Affinity!FlagIsSet,
         Affinity!shared
<1>3. c \notin waiting[c] /\ i[c] < Affinity!Limit(c)
  BY <1>1, <1>2 DEF PairMeets, InRange
<1>4. /\ PairMeets(c)' /\ pc'[c] = p /\ (RoundDone(c)' <=> RoundDone(c))
      /\ \A u \in 0 .. 3 : u # c => pc'[u] = pc[u]
      /\ pc' \in [0 .. 3 -> {"setup", "loop", "spin", "stuck", "compare", "reset", "flag",
                             "barrier", "ended"}]
  BY <1>2, <1>3, PairMoves
<1>5. TouchesOnly(c)
  <2>1. AffinityTypes'
    BY <1>1, <1>2, <1>4 DEF AffinityTypes, Affinity!Values
  <2> QED  BY <1>1, <1>2, <1>4, <2>1 DEF TouchesOnly
<1>6. ASSUME faults[c] = 0
      PROVE  PairInStep(c)' /\ PairCalculates(c)'
  <2>1. PairInStep(c) /\ PairCalculates(c)
    BY <1>1, <1>6 DEF PairIInv
  <2>2. p = "compare" => RoundDone(c)
    BY <1>2, <2>1 DEF PairInStep
  <2>3. c + 2 \in waiting[c] => pc[c + 2] = "loop"
    BY <1>1 DEF PairMeets
  <2>4. p = "compare" => pc[c + 2] # "flag"
    BY <2>2, <2>3 DEF RoundDone
  <2>5. PairInStep(c)'
    BY <1>1, <1>2, <1>4, <2>1, <2>2, <2>4 DEF PairInStep
  <2>6. PairCalculates(c)'
    BY <1>1, <1>2, <1>4, <2>1
    DEF PairCalculates, RightPairs, Affinity!First, Affinity!Parts
  <2> QED  BY <2>5, <2>6
<1>7. PairSpoilt(c)'
  BY <1>2, <1>4, SpoiltAsBefore
<1> QED  BY <1>2, <1>4, <1>5, <1>6, <1>7 DEF PairIInv

(* One more entry, the next one.                                           *)
LEMMA OneMorePair ==
  ASSUME NEW k \in Nat, NEW j \in Nat, k <= j
  PROVE  RightPairs(k .. j) =
           RightPairs(k .. j - 1) \cup {<<j, Affinity!Affinity_CalcFunc(j)>>}
<1>1. k .. j = (k .. j - 1) \cup {j}
  OBVIOUS
<1> DEFINE A == k .. j - 1
<1>2. RightPairs(A \cup {j}) = RightPairs(A) \cup {<<j, Affinity!Affinity_CalcFunc(j)>>}
  BY DEF RightPairs
<1> QED  BY <1>1, <1>2

(* The comparison, and the addition of a result that is confirmed.         *)
LEMMA PairCompare ==
  ASSUME AffinityIInv, Affinity!Hyper, NEW c \in 0 .. 1, Affinity!Compare(c)
  PROVE  TouchesOnly(c) /\ PairIInv(c)'
<1> DEFINE r    == c + 2
           same == localTempResult[c] = globalTempResults[c]
           calc == Affinity!Affinity_CalcFunc(i[c])
<1>1. /\ PairMeets(c) /\ PairIInv(c) /\ PairSpoilt(c) /\ AffinityTypes
      /\ c \in 0 .. 3 /\ r \in 0 .. 3 /\ c # r /\ Affinity!Core(c) = c
      /\ waiting[c] \in {{}, {c}, {r}}
      /\ i[c] \in Nat /\ NumValues \in Nat
      /\ Affinity!First(c) \in 0 .. NumValues /\ Affinity!Limit(c) \in 0 .. NumValues
  BY PairFacts
<1>2. /\ pc[c] = "compare"
      /\ pc' = [pc EXCEPT ![c] = IF same THEN "reset" ELSE "barrier"]
      /\ tempResult' = IF same
                       THEN [tempResult EXCEPT ![c] = @ \cup {<<i[c], localTempResult[c]>>}]
                       ELSE tempResult
      /\ UNCHANGED <<executionType, i, localTempResult, globalTempResults,
                     hyperThreadsFinished, waiting, faults>>
  BY DEF Affinity!Compare, Affinity!Go, Affinity!Add, Affinity!shared
<1>3. /\ c \notin waiting[c] /\ i[c] < Affinity!Limit(c) /\ Affinity!First(c) <= i[c]
      /\ localTempResult[c] \in {calc, -1}
  BY <1>1, <1>2 DEF PairMeets, PairSpoilt, InRange
<1>4. /\ i[c] \in Affinity!Values /\ localTempResult[c] \in Affinity!Values \cup {-1}
  BY <1>1, <1>3 DEF AffinityTypes, Affinity!Values
<1>5. /\ tempResult'[c] =
           IF same THEN tempResult[c] \cup {<<i[c], localTempResult[c]>>} ELSE tempResult[c]
      /\ \A u \in 0 .. 3 : u # c => tempResult'[u] = tempResult[u]
      /\ tempResult' \in [0 .. 3 -> SUBSET (Affinity!Values \X (Affinity!Values \cup {-1}))]
  <2>1. CASE same
    <3>1. tempResult[c] \cup {<<i[c], localTempResult[c]>>}
            \in SUBSET (Affinity!Values \X (Affinity!Values \cup {-1}))
      BY <1>1, <1>4 DEF AffinityTypes
    <3> QED  BY <1>1, <1>2, <2>1, <3>1 DEF AffinityTypes
  <2>2. CASE ~same
    BY <1>1, <1>2, <2>2 DEF AffinityTypes
  <2> QED  BY <2>1, <2>2
<1>6. /\ PairMeets(c)' /\ pc'[c] = IF same THEN "reset" ELSE "barrier"
      /\ RoundDone(c)' <=> RoundDone(c)
      /\ \A u \in 0 .. 3 : u # c => pc'[u] = pc[u]
      /\ pc' \in [0 .. 3 -> {"setup", "loop", "spin", "stuck", "compare", "reset", "flag",
                             "barrier", "ended"}]
  <2> DEFINE p == IF same THEN "reset" ELSE "barrier"
  <2>1. pc' = [pc EXCEPT ![c] = p] /\ p \in {"reset", "barrier"}
    BY <1>2
  <2> HIDE DEF p
  <2>2. /\ PairMeets(c)' /\ pc'[c] = p /\ (RoundDone(c)' <=> RoundDone(c))
        /\ \A u \in 0 .. 3 : u # c => pc'[u] = pc[u]
        /\ pc' \in [0 .. 3 -> {"setup", "loop", "spin", "stuck", "compare", "reset", "flag",
                               "barrier", "ended"}]
    BY <1>2, <1>3, <2>1, PairMoves
  <2> QED  BY <2>2 DEF p
<1>7. TouchesOnly(c)
  <2>1. AffinityTypes'
    BY <1>1, <1>2, <1>5, <1>6 DEF AffinityTypes, Affinity!Values
  <2> QED  BY <1>1, <1>2, <1>5, <1>6, <2>1 DEF TouchesOnly
<1> HIDE DEF same, calc
<1>8. ASSUME faults[c] = 0
      PROVE  PairInStep(c)' /\ PairCalculates(c)'
  <2>1. PairInStep(c) /\ PairCalculates(c)
    BY <1>1, <1>8 DEF PairIInv
  <2>2. RoundDone(c)
    BY <1>2, <2>1 DEF PairInStep
  <2>3. localTempResult[c] = calc /\ globalTempResults[c] = calc
    BY <1>2, <2>1, <2>2 DEF PairCalculates, calc
  <2>4. pc'[c] = "reset"
    BY <1>6, <2>3 DEF same
  <2>5. r \in waiting[c] => pc[r] = "loop"
    BY <1>1 DEF PairMeets
  <2>6. pc'[r] = pc[r] /\ pc[r] # "flag"
    BY <1>1, <1>6, <2>2, <2>5 DEF RoundDone
  <2>7. PairInStep(c)'
    BY <1>2, <1>3, <1>6, <2>2, <2>4, <2>6 DEF PairInStep
  <2>8. tempResult'[c] = RightPairs(Affinity!First(c) .. i[c])
    <3>1. tempResult[c] = RightPairs(Affinity!First(c) .. i[c] - 1)
      BY <1>2, <2>1 DEF PairCalculates
    <3>2. tempResult'[c] = tempResult[c] \cup {<<i[c], Affinity!Affinity_CalcFunc(i[c])>>}
      BY <1>5, <2>3 DEF same, calc
    <3> QED  BY <1>1, <1>3, <3>1, <3>2, OneMorePair
  <2>9. PairCalculates(c)'
    BY <1>2, <1>6, <2>3, <2>4, <2>8
    DEF PairCalculates, RightPairs, Affinity!First, Affinity!Parts, calc
  <2> QED  BY <2>7, <2>9
<1>9. PairSpoilt(c)'
  <2>1. ASSUME faults[c] <= 1
        PROVE  OnlyRight(c)'
    <3>1. OnlyRight(c) /\ (localTempResult[c] # -1 \/ globalTempResults[c] # -1)
      BY <1>1, <2>1 DEF PairSpoilt
    <3>2. CASE same
      <4>1. localTempResult[c] = Affinity!Affinity_CalcFunc(i[c])
        BY <1>3, <3>1, <3>2 DEF same, calc
      <4>2. ASSUME NEW e \in tempResult'[c]
            PROVE  e[2] = Affinity!Affinity_CalcFunc(e[1])
        <5>1. e \in tempResult[c] \/ e = <<i[c], Affinity!Affinity_CalcFunc(i[c])>>
          BY <1>5, <3>2, <4>1, <4>2
        <5> QED  BY <3>1, <5>1 DEF OnlyRight
      <4> QED  BY <4>2 DEF OnlyRight
    <3>3. CASE ~same
      BY <1>5, <3>1, <3>3 DEF OnlyRight
    <3> QED  BY <3>2, <3>3
  <2>2. pc'[c] \notin {"spin", "compare"} /\ tempResult'[r] = {}
    BY <1>1, <1>5, <1>6 DEF PairSpoilt
  <2> QED  BY <1>1, <1>2, <2>1, <2>2 DEF PairSpoilt
<1> QED  BY <1>2, <1>6, <1>7, <1>8, <1>9 DEF PairIInv

(* After an addition the flag is reset.                                    *)
LEMMA PairResetFlag ==
  ASSUME AffinityIInv, Affinity!Hyper, NEW c \in 0 .. 1, Affinity!ResetFlag(c)
  PROVE  TouchesOnly(c) /\ PairIInv(c)'
<1>1. /\ PairMeets(c) /\ PairIInv(c) /\ PairSpoilt(c) /\ AffinityTypes
      /\ c \in 0 .. 3 /\ c + 2 \in 0 .. 3 /\ c # c + 2 /\ Affinity!Core(c) = c
      /\ waiting[c] \in {{}, {c}, {c + 2}}
  BY PairFacts
<1>2. /\ pc[c] = "reset" /\ pc' = [pc EXCEPT ![c] = "barrier"]
      /\ hyperThreadsFinished' = [hyperThreadsFinished EXCEPT ![c] = 0]
      /\ UNCHANGED <<executionType, i, tempResult, localTempResult, globalTempResults,
                     waiting, faults>>
  BY DEF Affinity!ResetFlag, Affinity!Go
<1>3. c \notin waiting[c] /\ i[c] < Affinity!Limit(c)
  BY <1>1, <1>2 DEF PairMeets, InRange
<1>4. /\ PairMeets(c)' /\ pc'[c] = "barrier" /\ (RoundDone(c)' <=> RoundDone(c))
      /\ \A u \in 0 .. 3 : u # c => pc'[u] = pc[u]
      /\ pc' \in [0 .. 3 -> {"setup", "loop", "spin", "stuck", "compare", "reset", "flag",
                             "barrier", "ended"}]
  BY <1>2, <1>3, PairMoves
<1>5. /\ hyperThreadsFinished' \in [0 .. 1 -> 0 .. 1] /\ hyperThreadsFinished'[c] = 0
      /\ \A d \in 0 .. 1 : d # c => hyperThreadsFinished'[d] = hyperThreadsFinished[d]
  BY <1>1, <1>2 DEF AffinityTypes
<1>6. TouchesOnly(c)
  <2>1. AffinityTypes'
    BY <1>1, <1>2, <1>4, <1>5 DEF AffinityTypes, Affinity!Values
  <2> QED  BY <1>1, <1>2, <1>4, <1>5, <2>1 DEF TouchesOnly
<1>7. ASSUME faults[c] = 0
      PROVE  PairInStep(c)' /\ PairCalculates(c)'
  <2>1. PairInStep(c) /\ PairCalculates(c)
    BY <1>1, <1>7 DEF PairIInv
  <2>2. RoundDone(c)
    BY <1>2, <2>1 DEF PairInStep
  <2>3. pc[c + 2] # "flag"
    BY <1>2, <2>1 DEF PairInStep
  <2>4. PairInStep(c)'
    BY <1>1, <1>2, <1>3, <1>4, <1>5, <2>2, <2>3 DEF PairInStep
  <2>5. PairCalculates(c)'
    BY <1>1, <1>2, <1>4, <2>1
    DEF PairCalculates, RightPairs, Affinity!First, Affinity!Parts
  <2> QED  BY <2>4, <2>5
<1>8. PairSpoilt(c)'
  BY <1>2, <1>4, SpoiltAsBefore
<1> QED  BY <1>2, <1>4, <1>6, <1>7, <1>8 DEF PairIInv

(* The replica says that it has finished the round.                        *)
LEMMA PairReplicaFlag ==
  ASSUME AffinityIInv, Affinity!Hyper, NEW c \in 0 .. 1, Affinity!ReplicaFlag(c + 2)
  PROVE  TouchesOnly(c + 2) /\ PairIInv(c)'
<1> DEFINE r == c + 2
<1>1. /\ PairMeets(c) /\ PairIInv(c) /\ PairSpoilt(c) /\ AffinityTypes
      /\ c \in 0 .. 3 /\ r \in 0 .. 3 /\ c # r /\ Affinity!Core(r) = c
      /\ waiting[c] \in {{}, {c}, {r}}
  BY PairFacts
<1>2. /\ pc[r] = "flag" /\ pc' = [pc EXCEPT ![r] = "barrier"]
      /\ hyperThreadsFinished' = [hyperThreadsFinished EXCEPT ![c] = 1]
      /\ UNCHANGED <<executionType, i, tempResult, localTempResult, globalTempResults,
                     waiting, faults>>
  BY <1>1 DEF Affinity!ReplicaFlag, Affinity!Go
<1>3. r \notin waiting[c] /\ i[r] < Affinity!Limit(r)
  BY <1>1, <1>2 DEF PairMeets, InRange
<1>4. /\ PairMeets(c)' /\ pc'[r] = "barrier"
      /\ \A u \in 0 .. 3 : u # r => pc'[u] = pc[u]
      /\ pc' \in [0 .. 3 -> {"setup", "loop", "spin", "stuck", "compare", "reset", "flag",
                             "barrier", "ended"}]
  BY <1>2, <1>3, PairMoves
<1>5. /\ hyperThreadsFinished' \in [0 .. 1 -> 0 .. 1] /\ hyperThreadsFinished'[c] = 1
      /\ \A d \in 0 .. 1 : d # c => hyperThreadsFinished'[d] = hyperThreadsFinished[d]
  BY <1>1, <1>2 DEF AffinityTypes
<1>6. TouchesOnly(r)
  <2>1. AffinityTypes'
    BY <1>1, <1>2, <1>4, <1>5 DEF AffinityTypes, Affinity!Values
  <2> QED  BY <1>1, <1>2, <1>4, <1>5, <2>1 DEF TouchesOnly
<1>7. pc'[c] = pc[c]
  BY <1>1, <1>4
<1>8. ASSUME faults[c] = 0
      PROVE  PairInStep(c)' /\ PairCalculates(c)'
  <2>1. PairInStep(c) /\ PairCalculates(c)
    BY <1>1, <1>8 DEF PairIInv
  <2>2. i[c] = i[r] /\ pc[c] \in {"loop", "spin", "stuck"}
    BY <1>2, <2>1 DEF PairInStep
  <2>3. RoundDone(c)'
    BY <1>2, <1>4, <2>2 DEF RoundDone
  <2>4. PairInStep(c)'
    BY <1>2, <1>4, <1>7, <2>2, <2>3 DEF PairInStep
  <2>5. PairCalculates(c)'
    BY <1>2, <1>7, <2>1
    DEF PairCalculates, RightPairs, Affinity!First, Affinity!Parts
  <2> QED  BY <2>4, <2>5
<1>9. PairSpoilt(c)'
  BY <1>2, <1>7, SpoiltAsBefore
<1> QED  BY <1>2, <1>4, <1>6, <1>8, <1>9 DEF PairIInv

(* A thread is through its range.                                          *)
LEMMA PairFinish ==
  ASSUME AffinityIInv, Affinity!Hyper, NEW c \in 0 .. 1, NEW t \in {c, c + 2},
         Affinity!Finish(t)
  PROVE  TouchesOnly(t) /\ PairIInv(c)'
<1> DEFINE r == c + 2
<1>1. /\ PairMeets(c) /\ PairIInv(c) /\ PairSpoilt(c) /\ AffinityTypes
      /\ c \in 0 .. 3 /\ r \in 0 .. 3 /\ c # r /\ Affinity!Core(t) = c /\ t \in 0 .. 3
      /\ waiting[c] \in {{}, {c}, {r}}
      /\ i[c] \in Nat /\ i[r] \in Nat
      /\ Affinity!Limit(r) = Affinity!Limit(c) /\ Affinity!Limit(c) \in Nat
  BY PairFacts
<1>2. /\ pc[t] = "loop" /\ pc' = [pc EXCEPT ![t] = "ended"]
      /\ t \notin waiting[c] /\ i[t] = Affinity!Limit(t)
      /\ UNCHANGED <<executionType, i, tempResult, localTempResult, globalTempResults,
                     hyperThreadsFinished, waiting, faults>>
  BY <1>1 DEF Affinity!Finish, Affinity!Go, Affinity!shared
<1>3. /\ PairMeets(c)' /\ pc'[t] = "ended"
      /\ \A u \in 0 .. 3 : u # t => pc'[u] = pc[u]
      /\ pc' \in [0 .. 3 -> {"setup", "loop", "spin", "stuck", "compare", "reset", "flag",
                             "barrier", "ended"}]
      /\ t = c => (RoundDone(c)' <=> RoundDone(c))
  BY <1>2, PairMoves
<1>4. TouchesOnly(t)
  <2>1. AffinityTypes'
    BY <1>1, <1>2, <1>3 DEF AffinityTypes, Affinity!Values
  <2> QED  BY <1>1, <1>2, <1>3, <2>1 DEF TouchesOnly
<1>5. CASE t = c
  <2>1. pc'[c] = "ended" /\ pc'[r] = pc[r]
    BY <1>1, <1>3, <1>5
  <2>2. pc[r] = "flag" => i[c] # i[r]
    BY <1>1, <1>2, <1>5 DEF PairMeets, InRange
  <2>3. ASSUME faults[c] = 0
        PROVE  PairInStep(c)' /\ PairCalculates(c)'
    <3>1. PairInStep(c) /\ PairCalculates(c)
      BY <1>1, <2>3 DEF PairIInv
    <3>2. PairInStep(c)'
      BY <1>2, <1>3, <1>5, <2>1, <2>2, <3>1 DEF PairInStep
    <3>3. PairCalculates(c)'
      BY <1>2, <1>3, <1>5, <2>1, <3>1
      DEF PairCalculates, RightPairs, Affinity!First, Affinity!Parts
    <3> QED  BY <3>2, <3>3
  <2>4. PairSpoilt(c)'
    BY <1>2, <2>1, SpoiltAsBefore
  <2> QED  BY <1>2, <1>3, <1>4, <2>3, <2>4 DEF PairIInv
<1>6. CASE t = r
  <2>1. pc'[c] = pc[c] /\ pc[r] = "loop" /\ pc'[r] = "ended" /\ r \notin waiting[c]
    BY <1>1, <1>2, <1>3, <1>6
  <2>2. ~RoundDone(c) /\ ~RoundDone(c)'
    BY <1>2, <2>1 DEF RoundDone
  <2>3. ASSUME faults[c] = 0
        PROVE  PairInStep(c)' /\ PairCalculates(c)'
    <3>1. PairInStep(c) /\ PairCalculates(c)
      BY <1>1, <2>3 DEF PairIInv
    <3>2. PairInStep(c)'
      BY <1>2, <2>1, <2>2, <3>1 DEF PairInStep
    <3>3. PairCalculates(c)'
      BY <1>2, <2>1, <2>2, <3>1
      DEF PairCalculates, RightPairs, Affinity!First, Affinity!Parts
    <3> QED  BY <3>2, <3>3
  <2>4. PairSpoilt(c)'
    BY <1>2, <2>1, SpoiltAsBefore
  <2> QED  BY <1>2, <1>3, <1>4, <2>3, <2>4 DEF PairIInv
<1> QED  BY <1>5, <1>6

(* The tasks without replicas: the iteration of a thread, which adds up    *)
(* what it calculated, or nothing.                                         *)
LEMMA AloneIterates ==
  ASSUME AffinityIInv, ~Affinity!Hyper, NEW c \in 0 .. 1,
         Affinity!NormalIteration(c) \/ Affinity!ReplicatedIteration(c)
  PROVE  TouchesOnly(c) /\ AloneIInv(c)'
<1> DEFINE calc == Affinity!Affinity_CalcFunc(i[c])
<1>1. /\ AffinityTypes /\ AloneIInv(c) /\ c \in 0 .. 3 /\ c + 2 \in 0 .. 3 /\ c # c + 2
      /\ Affinity!Core(c) = c /\ Affinity!First(c) \in 0 .. NumValues
      /\ Affinity!Limit(c) \in Nat /\ NumValues \in Nat \ {0}
  BY PairRanges, ThreadTestAssumption DEF AffinityIInv
<1>2. /\ pc[c] = "loop" /\ i[c] < Affinity!Limit(c)
      /\ i' = [i EXCEPT ![c] = @ + 1]
      /\ UNCHANGED <<executionType, pc, localTempResult, globalTempResults,
                     hyperThreadsFinished, waiting>>
  BY DEF Affinity!NormalIteration, Affinity!ReplicatedIteration, Affinity!InLoop,
         Affinity!NextIteration, Affinity!shared
<1>3. /\ c \in Affinity!Threads /\ InRange(c) /\ i[c] \in Nat
  BY <1>1, <1>2 DEF AloneIInv, AffinityTypes
<1>4. Affinity!Limit(c) <= NumValues /\ i[c] < NumValues
  <2>1. Affinity!Parts = 2 \/ c = 0
    BY <1>1, <1>3 DEF AffinityTypes, Affinity!Threads, Affinity!Parts, Affinity!Hyper
  <2> QED  BY <1>1, <1>2, <1>3, <2>1, PairRanges
(* A soft error is counted, and it is never added to a checked sum.        *)
<1>5. PICK E \in SUBSET {<<i[c], calc>>, <<i[c], -1>>} :
        /\ tempResult' = [tempResult EXCEPT ![c] = @ \cup E]
        /\ faults' \in [0 .. 1 -> 0 .. MaxCoreFaults]
        /\ \A d \in 0 .. 1 : d # c => faults'[d] = faults[d]
        /\ faults'[c] # 0 \/ (faults[c] = 0 /\ E = {<<i[c], calc>>})
        /\ executionType = "normallyReplicated" => <<i[c], -1>> \notin E
  <2>0. faults[c] \in Nat
    BY <1>1, ThreadTestAssumption DEF AffinityTypes
  <2>1. CASE Affinity!NormalIteration(c)
    <3>1. PICK v \in Affinity!Results : Affinity!Calculates(c, v) /\ Affinity!Add(c, v)
      BY <2>1 DEF Affinity!NormalIteration
    <3>2. executionType # "normallyReplicated"
      BY <2>1 DEF Affinity!NormalIteration
    <3>3. /\ faults' \in [0 .. 1 -> 0 .. MaxCoreFaults]
          /\ \A d \in 0 .. 1 : d # c => faults'[d] = faults[d]
          /\ \/ v = calc /\ faults'[c] = faults[c]
             \/ v = -1 /\ faults'[c] = faults[c] + 1
      BY <1>1, <1>4, <3>1, Calculation
    <3>4. faults'[c] # 0 \/ (faults[c] = 0 /\ v = calc)
      BY <2>0, <3>3
    <3>5. {<<i[c], v>>} \in SUBSET {<<i[c], calc>>, <<i[c], -1>>}
      BY <3>3
    <3>6. tempResult' = [tempResult EXCEPT ![c] = @ \cup {<<i[c], v>>}]
      BY <3>1 DEF Affinity!Add
    <3> QED  BY <3>2, <3>3, <3>4, <3>5, <3>6
  <2>2. CASE Affinity!ReplicatedIteration(c)
    <3>1. PICK v1 \in Affinity!Results, v2 \in Affinity!Results :
            /\ \/ Affinity!Calculates(c, v1) /\ v2 = calc
               \/ Affinity!Calculates(c, v2) /\ v1 = calc
            /\ Affinity!ReplicatedAdd(c, v1, v2)
      BY <2>2 DEF Affinity!ReplicatedIteration
    <3>2. PICK v \in {v1, v2}, w \in {v1, v2} :
            Affinity!Calculates(c, v) /\ w = calc /\ {v, w} = {v1, v2}
      BY <3>1
    <3>3. /\ faults' \in [0 .. 1 -> 0 .. MaxCoreFaults]
          /\ \A d \in 0 .. 1 : d # c => faults'[d] = faults[d]
          /\ calc # -1
          /\ \/ v = calc /\ faults'[c] = faults[c]
             \/ v = -1 /\ faults'[c] = faults[c] + 1
      BY <1>1, <1>4, <3>2, Calculation
    <3>4. CASE v = calc /\ faults'[c] = faults[c]
      <4>1. v1 = calc /\ v2 = calc
        BY <3>2, <3>4
      <4>2. tempResult' = [tempResult EXCEPT ![c] = @ \cup {<<i[c], calc>>}]
        BY <3>1, <4>1 DEF Affinity!ReplicatedAdd, Affinity!Add
      <4>3. <<i[c], -1>> \notin {<<i[c], calc>>}
        BY <3>3
      <4>4. faults'[c] # 0 \/ faults[c] = 0
        BY <3>4
      <4> QED  BY <3>3, <4>2, <4>3, <4>4
    <3>5. CASE v = -1 /\ faults'[c] = faults[c] + 1
      <4>1. v1 # v2
        BY <3>2, <3>3, <3>5
      <4>2. tempResult' = [tempResult EXCEPT ![c] = @ \cup {}]
        <5>1. tempResult' = tempResult
          BY <3>1, <4>1 DEF Affinity!ReplicatedAdd
        <5> QED  BY <1>1, <5>1 DEF AffinityTypes
      <4>3. faults'[c] # 0
        BY <2>0, <3>5
      <4> DEFINE none == {}
      <4>4. none \in SUBSET {<<i[c], calc>>, <<i[c], -1>>} /\ <<i[c], -1>> \notin none
        OBVIOUS
      <4>5. tempResult' = [tempResult EXCEPT ![c] = @ \cup none]
        BY <4>2
      <4> HIDE DEF none, calc
      <4> QED  BY <3>3, <4>3, <4>4, <4>5
    <3> QED  BY <3>3, <3>4, <3>5
  <2> QED  BY <2>1, <2>2
<1>6. /\ i'[c] = i[c] + 1 /\ \A u \in 0 .. 3 : u # c => i'[u] = i[u]
      /\ i' \in [0 .. 3 -> 0 .. NumValues]
  <2>1. i[c] + 1 \in 0 .. NumValues
    BY <1>1, <1>3, <1>4
  <2> QED  BY <1>1, <1>2, <2>1 DEF AffinityTypes
<1>7. /\ tempResult'[c] = tempResult[c] \cup E
      /\ \A u \in 0 .. 3 : u # c => tempResult'[u] = tempResult[u]
      /\ tempResult' \in [0 .. 3 -> SUBSET (Affinity!Values \X (Affinity!Values \cup {-1}))]
  <2>1. i[c] \in Affinity!Values /\ calc \in Affinity!Values
    <3>1. i[c] \in Affinity!Values
      BY <1>1, <1>3, <1>4 DEF Affinity!Values
    <3> QED  BY <3>1, CalculatedValues
  <2>2. E \subseteq Affinity!Values \X (Affinity!Values \cup {-1})
    BY <2>1
  <2>3. tempResult[c] \cup E \in SUBSET (Affinity!Values \X (Affinity!Values \cup {-1}))
    BY <1>1, <2>2 DEF AffinityTypes
  <2> QED  BY <1>1, <1>5, <2>3 DEF AffinityTypes
<1>8. TouchesOnly(c)
  <2>1. AffinityTypes'
    BY <1>1, <1>2, <1>5, <1>6, <1>7 DEF AffinityTypes, Affinity!Values
  <2> QED  BY <1>1, <1>2, <1>5, <1>6, <1>7, <2>1 DEF TouchesOnly
<1>9. /\ Affinity!First(c)' = Affinity!First(c) /\ Affinity!Limit(c)' = Affinity!Limit(c)
      /\ Affinity!Threads' = Affinity!Threads
  BY <1>2 DEF Affinity!First, Affinity!Limit, Affinity!Parts, Affinity!Threads
<1>10. InRange(c)'
  BY <1>1, <1>2, <1>3, <1>6, <1>9 DEF InRange
<1>11. faults'[c] = 0 => tempResult'[c] = RightPairs(Affinity!First(c) .. i'[c] - 1)
  <2> SUFFICES ASSUME faults'[c] = 0
               PROVE  tempResult'[c] = RightPairs(Affinity!First(c) .. i'[c] - 1)
    OBVIOUS
  <2>1. tempResult'[c] = RightPairs(Affinity!First(c) .. i[c] - 1) \cup {<<i[c], calc>>}
    BY <1>1, <1>5, <1>7 DEF AloneIInv
  <2>2. RightPairs(Affinity!First(c) .. i[c]) =
          RightPairs(Affinity!First(c) .. i[c] - 1) \cup {<<i[c], calc>>}
    BY <1>1, <1>3, OneMorePair DEF InRange
  <2>3. i'[c] - 1 = i[c]
    BY <1>3, <1>6
  <2> QED  BY <2>1, <2>2, <2>3
<1>12. executionType = "normallyReplicated" => OnlyRight(c)'
  <2> SUFFICES ASSUME executionType = "normallyReplicated", NEW e \in tempResult'[c]
               PROVE  e[2] = Affinity!Affinity_CalcFunc(e[1])
    BY DEF OnlyRight
  <2>1. OnlyRight(c)
    BY <1>1 DEF AloneIInv
  <2>2. e \in tempResult[c] \/ e = <<i[c], calc>>
    BY <1>5, <1>7
  <2> QED  BY <2>1, <2>2 DEF OnlyRight
<1> QED
  BY <1>1, <1>2, <1>3, <1>8, <1>9, <1>10, <1>11, <1>12 DEF AloneIInv, RightPairs

(* Such a task begins without a barrier, and it ends.                      *)
LEMMA AloneMoves ==
  ASSUME AffinityIInv, ~Affinity!Hyper, NEW c \in 0 .. 1,
         Affinity!Setup(c) \/ Affinity!Finish(c)
  PROVE  TouchesOnly(c) /\ AloneIInv(c)'
<1>1. /\ AffinityTypes /\ AloneIInv(c) /\ c \in 0 .. 3 /\ c + 2 \in 0 .. 3 /\ c # c + 2
      /\ Affinity!Core(c) = c
  BY PairRanges DEF AffinityIInv
<1>2. PICK p \in {"loop", "ended"} :
        /\ pc[c] # "ended" /\ pc' = [pc EXCEPT ![c] = p]
        /\ p = "ended" => i[c] = Affinity!Limit(c)
        /\ UNCHANGED <<executionType, i, tempResult, localTempResult, globalTempResults,
                       hyperThreadsFinished, waiting, faults>>
  BY DEF Affinity!Setup, Affinity!Finish, Affinity!Go, Affinity!shared
<1>3. /\ pc'[c] = p /\ \A u \in 0 .. 3 : u # c => pc'[u] = pc[u]
      /\ pc' \in [0 .. 3 -> {"setup", "loop", "spin", "stuck", "compare", "reset", "flag",
                             "barrier", "ended"}]
  BY <1>1, <1>2 DEF AffinityTypes
<1>4. TouchesOnly(c)
  <2>1. AffinityTypes'
    BY <1>1, <1>2, <1>3 DEF AffinityTypes, Affinity!Values
  <2> QED  BY <1>1, <1>2, <1>3, <2>1 DEF TouchesOnly
<1>5. /\ Affinity!First(c)' = Affinity!First(c) /\ Affinity!Limit(c)' = Affinity!Limit(c)
      /\ Affinity!Threads' = Affinity!Threads
  BY <1>2 DEF Affinity!First, Affinity!Limit, Affinity!Parts, Affinity!Threads
<1>6. c \in Affinity!Threads /\ InRange(c) /\ InRange(c)'
  BY <1>1, <1>2, <1>3, <1>5 DEF AloneIInv, InRange
<1> QED
  BY <1>1, <1>2, <1>3, <1>4, <1>5, <1>6 DEF AloneIInv, OnlyRight, RightPairs

(* Every step of a thread keeps the invariant of its core.                 *)
LEMMA AffinityNext == AffinityIInv /\ [Affinity!Next]_(Affinity!vars) => AffinityIInv'
<1> SUFFICES ASSUME AffinityIInv, [Affinity!Next]_(Affinity!vars)
             PROVE  AffinityIInv'
  OBVIOUS
<1>1. ASSUME NEW c \in 0 .. 1, NEW t \in {c, c + 2}, Affinity!ThreadStep(t)
      PROVE  AffinityIInv'
  <2>1. executionType' = executionType
    BY <1>1
    DEF Affinity!ThreadStep, Affinity!Setup, Affinity!NormalIteration,
        Affinity!ReplicatedIteration, Affinity!ReplicaCalculate, Affinity!ReplicaFlag,
        Affinity!EndRound, Affinity!MainCalculate, Affinity!SpinEnds, Affinity!SpinForEver,
        Affinity!Compare, Affinity!ResetFlag, Affinity!Finish
  <2>2. Affinity!Hyper' <=> Affinity!Hyper
    BY <2>1 DEF Affinity!Hyper
  <2>3. CASE Affinity!Hyper
    <3>1. PairMeets(c) /\ c # c + 2
      BY <2>3, PairFacts
    <3>2. executionType = "hyperReplicated"
      BY <2>3 DEF Affinity!Hyper
    <3>3. ASSUME TouchesOnly(t), PairIInv(c)'
          PROVE  AffinityIInv'
      <4>1. (IF Affinity!Hyper THEN PairIInv(c) ELSE AloneIInv(c))'
        BY <2>2, <2>3, <3>3
      <4> QED  BY <3>3, <4>1, OtherCore
    <3>4. CASE Affinity!Setup(t)
      BY <2>3, <3>3, <3>4, PairSetup
    <3>5. CASE Affinity!NormalIteration(t) \/ Affinity!ReplicatedIteration(t)
      BY <3>2, <3>5 DEF Affinity!NormalIteration, Affinity!ReplicatedIteration
    <3>6. CASE Affinity!ReplicaCalculate(t)
      <4>1. t = c + 2
        BY <3>6 DEF Affinity!ReplicaCalculate, Affinity!IsHyperThread
      <4> QED  BY <2>3, <3>3, <3>6, <4>1, PairReplicaCalculate
    <3>7. CASE Affinity!ReplicaFlag(t)
      <4>1. t = c + 2
        BY <3>1, <3>7 DEF Affinity!ReplicaFlag, Affinity!Go, PairMeets
      <4> QED  BY <2>3, <3>3, <3>7, <4>1, PairReplicaFlag
    <3>8. CASE Affinity!EndRound(t)
      BY <2>3, <3>3, <3>8, PairEndRound
    <3>9. CASE Affinity!MainCalculate(t)
      <4>1. t = c
        BY <3>9 DEF Affinity!MainCalculate, Affinity!IsHyperThread
      <4> QED  BY <2>3, <3>3, <3>9, <4>1, PairMainCalculate
    <3>10. CASE Affinity!SpinEnds(t) \/ Affinity!SpinForEver(t)
      <4>1. t = c
        BY <3>1, <3>10 DEF Affinity!SpinEnds, Affinity!SpinForEver, Affinity!Go, PairMeets
      <4> QED  BY <2>3, <3>3, <3>10, <4>1, PairSpin
    <3>11. CASE Affinity!Compare(t)
      <4>1. t = c
        BY <3>1, <3>11 DEF Affinity!Compare, PairMeets
      <4> QED  BY <2>3, <3>3, <3>11, <4>1, PairCompare
    <3>12. CASE Affinity!ResetFlag(t)
      <4>1. t = c
        BY <3>1, <3>12 DEF Affinity!ResetFlag, Affinity!Go, PairMeets
      <4> QED  BY <2>3, <3>3, <3>12, <4>1, PairResetFlag
    <3>13. CASE Affinity!Finish(t)
      BY <2>3, <3>3, <3>13, PairFinish
    <3> QED
      BY <1>1, <3>4, <3>5, <3>6, <3>7, <3>8, <3>9, <3>10, <3>11, <3>12, <3>13
      DEF Affinity!ThreadStep
  <2>4. CASE ~Affinity!Hyper
    <3>1. pc[c] \in {"setup", "loop", "ended"} /\ pc[c + 2] = "ended"
      BY <2>4 DEF AffinityIInv, AloneIInv
    <3>2. pc[t] # "ended"
      BY <1>1
      DEF Affinity!ThreadStep, Affinity!Setup, Affinity!NormalIteration,
          Affinity!ReplicatedIteration, Affinity!ReplicaCalculate, Affinity!ReplicaFlag,
          Affinity!EndRound, Affinity!MainCalculate, Affinity!SpinEnds,
          Affinity!SpinForEver, Affinity!Compare, Affinity!ResetFlag, Affinity!Finish,
          Affinity!Go, Affinity!InLoop
    <3>3. t = c
      BY <3>1, <3>2
    <3>4. \/ Affinity!Setup(c) \/ Affinity!Finish(c)
          \/ Affinity!NormalIteration(c) \/ Affinity!ReplicatedIteration(c)
      BY <1>1, <2>4, <3>1, <3>3
      DEF Affinity!ThreadStep, Affinity!ReplicaCalculate, Affinity!ReplicaFlag,
          Affinity!EndRound, Affinity!MainCalculate, Affinity!SpinEnds,
          Affinity!SpinForEver, Affinity!Compare, Affinity!ResetFlag, Affinity!Go
    <3>5. TouchesOnly(c) /\ AloneIInv(c)'
      BY <2>4, <3>4, AloneIterates, AloneMoves
    <3>6. (IF Affinity!Hyper THEN PairIInv(c) ELSE AloneIInv(c))'
      BY <2>2, <2>4, <3>5
    <3> QED  BY <3>3, <3>5, <3>6, OtherCore
  <2> QED  BY <2>3, <2>4
<1>2. ASSUME NEW t \in 0 .. 3, Affinity!ThreadStep(t)
      PROVE  AffinityIInv'
  <2>1. CASE t \in 0 .. 1
    <3>1. t \in {t, t + 2}
      OBVIOUS
    <3> QED  BY <1>1, <1>2, <2>1, <3>1
  <2>2. CASE t \notin 0 .. 1
    <3>1. PICK c \in 0 .. 1 : t = c + 2
      <4>1. t - 2 \in 0 .. 1 /\ t = (t - 2) + 2
        BY <2>2
      <4> QED  BY <4>1
    <3> QED  BY <1>1, <1>2, <3>1
  <2> QED  BY <2>1, <2>2
<1>3. CASE UNCHANGED Affinity!vars
  <2>1. UNCHANGED <<executionType, pc, i, tempResult, localTempResult, globalTempResults,
                    hyperThreadsFinished, waiting, faults>>
    BY <1>3 DEF Affinity!vars, Affinity!shared
  <2>2. AffinityTypes'
    BY <2>1 DEF AffinityIInv, AffinityTypes, Affinity!Values
  <2>3. ASSUME NEW c \in 0 .. 1
        PROVE  (IF Affinity!Hyper THEN PairIInv(c) ELSE AloneIInv(c))'
    <3>1. IF Affinity!Hyper THEN PairIInv(c) ELSE AloneIInv(c)
      BY DEF AffinityIInv
    <3>2. /\ Affinity!First(c)' = Affinity!First(c) /\ Affinity!Limit(c)' = Affinity!Limit(c)
          /\ Affinity!First(c + 2)' = Affinity!First(c + 2)
          /\ Affinity!Limit(c + 2)' = Affinity!Limit(c + 2)
          /\ Affinity!Threads' = Affinity!Threads /\ (Affinity!Hyper' <=> Affinity!Hyper)
      BY <2>1
      DEF Affinity!First, Affinity!Limit, Affinity!Parts, Affinity!Threads, Affinity!Hyper
    <3>3. PairMeets(c)' <=> PairMeets(c)
      BY <2>1, <3>2 DEF PairMeets, InRange, Arrivals
    <3>4. PairSpoilt(c)' <=> PairSpoilt(c)
      BY <2>1 DEF PairSpoilt, OnlyRight
    <3>5. PairInStep(c)' <=> PairInStep(c)
      BY <2>1 DEF PairInStep, RoundDone
    <3>6. PairCalculates(c)' <=> PairCalculates(c)
      BY <2>1, <3>2 DEF PairCalculates, RoundDone, RightPairs
    <3>7. AloneIInv(c)' <=> AloneIInv(c)
      BY <2>1, <3>2 DEF AloneIInv, InRange, OnlyRight, RightPairs
    <3>8. PairIInv(c)' <=> PairIInv(c)
      BY <2>1, <3>3, <3>4, <3>5, <3>6 DEF PairIInv
    <3> QED  BY <3>1, <3>2, <3>7, <3>8
  <2> QED  BY <2>2, <2>3 DEF AffinityIInv
<1>4. CASE Affinity!Ended
  BY <1>3, <1>4 DEF Affinity!Ended
<1> QED  BY <1>2, <1>3, <1>4 DEF Affinity!Next

-----------------------------------------------------------------------------
(* The inductive invariants of the four programs.                          *)
ProgramsIInv ==
  /\ InDriver => DriverIInv
  /\ InAffinity => AffinityIInv
  /\ InAtomic => AtomicIInv
  /\ InUtils => UtilsIInv

(* They hold for every schedule that fits the releases, any number of runs *)
(* and values, any number of threads and soft errors.                      *)
THEOREM ProgramsSafe == ProgramSpec => []ProgramsIInv
<1> USE DEF InDriver, InAffinity, InAtomic, InUtils
<1>1. ProgramInit => ProgramsIInv
  BY DriverInit, AffinityInit, AtomicInit, UtilsInit DEF ProgramInit, ProgramsIInv
<1>2. ProgramsIInv /\ [ProgramNext]_allVars => ProgramsIInv'
  <2> SUFFICES ASSUME ProgramsIInv, [ProgramNext]_allVars
               PROVE  ProgramsIInv'
    OBVIOUS
  <2>1. CASE DriverStep(Next)
    BY <2>1, DriverNext DEF DriverStep, ProgramsIInv
  <2>2. CASE AffinityStep(Affinity!Next)
    BY <2>2, AffinityNext DEF AffinityStep, ProgramsIInv
  <2>3. CASE AtomicStep(Atomic!Next)
    BY <2>3, AtomicNext DEF AtomicStep, ProgramsIInv
  <2>4. CASE UtilsStep(Utils!Next)
    BY <2>4, UtilsNext DEF UtilsStep, ProgramsIInv
  <2>5. CASE UNCHANGED allVars
    <3>1. /\ UNCHANGED program /\ UNCHANGED vars
          /\ UNCHANGED Affinity!vars /\ UNCHANGED Atomic!vars /\ UNCHANGED Utils!vars
      BY <2>5
      DEF allVars, driverOnly, affinityOnly, atomicOnly, utilsOnly, twoThreads, vars,
          Affinity!vars, Affinity!shared, Atomic!vars, Utils!vars, heap, results
    <3> QED
      BY <3>1, DriverNext, AffinityNext, AtomicNext, UtilsNext DEF ProgramsIInv
  <2> QED  BY <2>1, <2>2, <2>3, <2>4, <2>5 DEF ProgramNext
<1> QED  BY <1>1, <1>2, PTL DEF ProgramSpec

(* MatrixDriver: no block is leaked or freed twice, and the sum printed    *)
(* after a run of Vector_Matrix_ReplicatedThreads is right in spite of a   *)
(* soft error.                                                             *)
THEOREM MatrixDriverSafe == ProgramSpec => []MatrixDriverInv
<1>1. ProgramsIInv => MatrixDriverInv
  BY DriverSound DEF ProgramsIInv, MatrixDriverInv
<1> QED  BY <1>1, ProgramsSafe, PTL

(* CoreAffinity: no barrier is overrun, and without a soft error on its    *)
(* core a main thread compares the results of one iteration and loses      *)
(* none of them, thread_task_hyper_replicated.                             *)
THEOREM CoreAffinitySafe == ProgramSpec => []AffinityInv
<1>1. ProgramsIInv => AffinityInv
  BY AffinitySafe DEF ProgramsIInv, AffinityInv
<1> QED  BY <1>1, ProgramsSafe, PTL

(* CoreAffinity: a single soft error on a core never gets into a sum that  *)
(* was compared, though the two threads may be out of step after it.       *)
THEOREM CoreAffinityAddsRight == ProgramSpec => []AddedIsRight
<1>1. ProgramsIInv => AddedIsRight
  BY AffinitySafe DEF ProgramsIInv, AddedIsRight
<1> QED  BY <1>1, ProgramsSafe, PTL

(* AtomicOps: every iteration is counted or counted as an abort, no        *)
(* barrier is overrun, and a transaction that saw the replica's flag finds *)
(* its result.                                                             *)
THEOREM AtomicOpsSafe == ProgramSpec => []AtomicOpsInv
<1>1. ProgramsIInv => AtomicOpsInv
  BY AtomicSafe DEF ProgramsIInv, AtomicOpsInv
<1> QED  BY <1>1, ProgramsSafe, PTL

(* ThreadUtils: THREAD_UTILS_GetThreadIndex gives a thread its own index,  *)
(* or 0 when what the first handle points to happens to be its own; never  *)
(* that of another child, and never after the array was freed.             *)
THEOREM ThreadIndexSafe == ProgramSpec => []IndexInv
<1>1. ProgramsIInv => IndexInv
  BY DEF ProgramsIInv, IndexInv, UtilsIInv
<1> QED  BY <1>1, ProgramsSafe, PTL

=============================================================================
