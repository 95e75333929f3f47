--------------------------- MODULE MCTsxTests_proofs --------------------------
(***************************************************************************)
(* The safety of the tests of TestTSX.c, for all the constants: one part   *)
(* per test with its inductive invariant, and at the end the invariants of *)
(* the behaviours of any of them.                                          *)
(***************************************************************************)
EXTENDS MCTsxTests, FiniteSetTheorems, TLAPS

(* Every number is put together from quotient and remainder.               *)
LEMMA QuotientAndRemainder ==
  ASSUME NEW a \in Int, NEW m \in Nat \ {0}, NEW q \in Int, NEW r \in Int,
         q = a \div m, r = a % m
  PROVE  a = q * m + r
OBVIOUS

(* Multiples of a number are ordered as their factors.                     *)
LEMMA MulMono ==
  ASSUME NEW m \in Nat, NEW a \in Int, NEW b \in Int, a <= b
  PROVE  a * m <= b * m
OBVIOUS

(* The pairs of two finite sets, and two sets with nothing in common.      *)
LEMMA CountPairs ==
  ASSUME NEW S, IsFiniteSet(S), NEW T, IsFiniteSet(T),
         NEW x, x = Cardinality(S), NEW y, y = Cardinality(T)
  PROVE  IsFiniteSet(S \X T) /\ Cardinality(S \X T) = x * y
BY FS_Product

LEMMA CountDisjoint ==
  ASSUME NEW S, IsFiniteSet(S), NEW T, IsFiniteSet(T), S \cap T = {}
  PROVE  IsFiniteSet(S \cup T) /\ Cardinality(S \cup T) = Cardinality(S) + Cardinality(T)
<1>1. Cardinality(S \cap T) = 0
  BY FS_EmptySet
<1>2. Cardinality(S) \in Nat /\ Cardinality(T) \in Nat
  BY FS_CardinalityType
<1>3. /\ IsFiniteSet(S \cup T)
      /\ Cardinality(S \cup T) = Cardinality(S) + Cardinality(T) - Cardinality(S \cap T)
  BY FS_Union
<1> QED  BY <1>1, <1>2, <1>3

(* The instances of the tests count as this module does.                   *)
LEMMA SameCardinality ==
  ASSUME NEW S
  PROVE  Barriers!Cardinality(S) = Cardinality(S) /\ Retry!Cardinality(S) = Cardinality(S)
BY DEF Barriers!Cardinality, Retry!Cardinality, Cardinality

-----------------------------------------------------------------------------
(* SignalSync.  The replica that announced its result waits until there is *)
(* a verdict, and the main thread only compares what was announced.        *)
SignalWaits ==
  /\ iterationStatus = "replicationFinished" => pc[1] \in {"waiting", "woken"}
  /\ pc[0] = "verify" => iterationStatus = "replicationFinished"
  /\ pc[1] = "decide" => Signal!HasVerdict
  /\ pc[1] # "verify"

SignalIterations == \A t \in 0 .. 1 : pc[t] # "ended" => i[t] < NumValues

(* How many iterations have their verdict, by the count of the main thread *)
(* and by that of the replica.                                             *)
ComparedByMain == IF pc[0] = "decide" THEN i[0] + 1 ELSE i[0]
ComparedByReplica ==
  IF iterationStatus = "successfull" /\ pc[1] \in {"waiting", "woken", "decide"}
  THEN i[1] + 1 ELSE i[1]

(* Without the injected error no verdict is failed, and the two agree.     *)
SignalLockstep ==
  Signal!NoError =>
    /\ iterationStatus # "failed"
    /\ pc[1] # "calculate" => v2 = "right"
    /\ ComparedByMain = ComparedByReplica

SignalIInv == Signal!TypeOK /\ SignalWaits /\ SignalIterations /\ SignalLockstep

LEMMA SignalInit == Signal!Init => SignalIInv
<1> SUFFICES ASSUME Signal!Init
             PROVE  SignalIInv
  OBVIOUS
<1> USE DEF Signal!Init, Signal!Threads, Signal!Main, Signal!Replica
<1>0. NumValues \in Nat \ {0} /\ 0 \in 0 .. NumValues
  BY TsxTestAssumption
<1>1. Signal!TypeOK
  BY <1>0 DEF Signal!TypeOK, Signal!IterationStatus
<1>2. SignalWaits
  BY DEF SignalWaits
<1>3. SignalIterations
  BY <1>0 DEF SignalIterations
<1>4. SignalLockstep
  BY DEF SignalLockstep, ComparedByMain, ComparedByReplica
<1> QED  BY <1>1, <1>2, <1>3, <1>4 DEF SignalIInv

LEMMA SignalNext == SignalIInv /\ [Signal!Next]_(Signal!vars) => SignalIInv'
<1> SUFFICES ASSUME SignalIInv, [Signal!Next]_(Signal!vars)
             PROVE  SignalIInv'
  OBVIOUS
<1>0. /\ NumValues \in Nat \ {0}
      /\ pc \in [0 .. 1 -> {"calculate", "lock", "waiting", "woken", "verify",
                           "decide", "ended"}]
      /\ i \in [0 .. 1 -> 0 .. NumValues]
  BY TsxTestAssumption
  DEF SignalIInv, Signal!TypeOK, Signal!Threads, Signal!Main, Signal!Replica
<1> USE DEF SignalIInv, Signal!Threads, Signal!Main, Signal!Replica, Signal!Go,
            Signal!GoAndSignal, Signal!SyncMutexFree, Signal!HasVerdict,
            Signal!IterationStatus, Signal!NoError
<1>1. CASE Signal!ReplicaCalculate
  <2> USE <1>1 DEF Signal!ReplicaCalculate
  <2>1. Signal!TypeOK'
    BY <1>0 DEF Signal!TypeOK, SignalIterations
  <2>2. SignalWaits'
    BY <1>0 DEF SignalWaits
  <2>3. SignalIterations'
    BY <1>0 DEF SignalIterations
  <2>4. SignalLockstep'
    BY <1>0 DEF SignalLockstep, SignalWaits, SignalIterations, ComparedByMain, ComparedByReplica
  <2> QED  BY <2>1, <2>2, <2>3, <2>4
<1>2. CASE Signal!ReplicationFinished
  <2> USE <1>2 DEF Signal!ReplicationFinished
  <2>1. Signal!TypeOK'
    BY <1>0 DEF Signal!TypeOK, SignalIterations
  <2>2. SignalWaits'
    BY <1>0 DEF SignalWaits
  <2>3. SignalIterations'
    BY <1>0 DEF SignalIterations
  <2>4. SignalLockstep'
    BY <1>0 DEF SignalLockstep, SignalWaits, SignalIterations, ComparedByMain, ComparedByReplica
  <2> QED  BY <2>1, <2>2, <2>3, <2>4
<1>3. CASE Signal!AwaitVerdict
  <2> USE <1>3 DEF Signal!AwaitVerdict
  <2>1. Signal!TypeOK'
    BY <1>0 DEF Signal!TypeOK, SignalIterations
  <2>2. SignalWaits'
    BY <1>0 DEF SignalWaits
  <2>3. SignalIterations'
    BY <1>0 DEF SignalIterations
  <2>4. SignalLockstep'
    BY <1>0 DEF SignalLockstep, SignalWaits, SignalIterations, ComparedByMain, ComparedByReplica
  <2> QED  BY <2>1, <2>2, <2>3, <2>4
<1>4. CASE Signal!Decide(1)
  <2> USE <1>4 DEF Signal!Decide
  <2>1. Signal!TypeOK'
    BY <1>0 DEF Signal!TypeOK, SignalIterations
  <2>2. SignalWaits'
    BY <1>0 DEF SignalWaits
  <2>3. SignalIterations'
    BY <1>0 DEF SignalIterations
  <2>4. SignalLockstep'
    BY <1>0 DEF SignalLockstep, SignalWaits, SignalIterations, ComparedByMain, ComparedByReplica
  <2> QED  BY <2>1, <2>2, <2>3, <2>4
<1>5. CASE Signal!MainCalculate
  <2> USE <1>5 DEF Signal!MainCalculate
  <2>1. Signal!TypeOK'
    BY <1>0 DEF Signal!TypeOK, SignalIterations
  <2>2. SignalWaits'
    BY <1>0 DEF SignalWaits
  <2>3. SignalIterations'
    BY <1>0 DEF SignalIterations
  <2>4. SignalLockstep'
    BY <1>0 DEF SignalLockstep, SignalWaits, SignalIterations, ComparedByMain, ComparedByReplica
  <2> QED  BY <2>1, <2>2, <2>3, <2>4
<1>6. CASE Signal!AwaitReplica
  <2> USE <1>6 DEF Signal!AwaitReplica
  <2>1. Signal!TypeOK'
    BY <1>0 DEF Signal!TypeOK, SignalIterations
  <2>2. SignalWaits'
    BY <1>0 DEF SignalWaits
  <2>3. SignalIterations'
    BY <1>0 DEF SignalIterations
  <2>4. SignalLockstep'
    BY <1>0 DEF SignalLockstep, SignalWaits, SignalIterations, ComparedByMain, ComparedByReplica
  <2> QED  BY <2>1, <2>2, <2>3, <2>4
<1>7. CASE Signal!Verify
  <2> USE <1>7 DEF Signal!Verify
  <2>1. Signal!TypeOK'
    BY <1>0 DEF Signal!TypeOK, SignalIterations
  <2>2. SignalWaits'
    BY <1>0 DEF SignalWaits
  <2>3. SignalIterations'
    BY <1>0 DEF SignalIterations
  <2>4. SignalLockstep'
    BY <1>0 DEF SignalLockstep, SignalWaits, SignalIterations, ComparedByMain, ComparedByReplica
  <2> QED  BY <2>1, <2>2, <2>3, <2>4
<1>8. CASE Signal!Decide(0)
  <2> USE <1>8 DEF Signal!Decide
  <2>1. Signal!TypeOK'
    BY <1>0 DEF Signal!TypeOK, SignalIterations
  <2>2. SignalWaits'
    BY <1>0 DEF SignalWaits
  <2>3. SignalIterations'
    BY <1>0 DEF SignalIterations
  <2>4. SignalLockstep'
    BY <1>0 DEF SignalLockstep, SignalWaits, SignalIterations, ComparedByMain, ComparedByReplica
  <2> QED  BY <2>1, <2>2, <2>3, <2>4
<1>9. CASE \E t \in 0 .. 1 : Signal!SpuriousWakeup(t)
  <2> PICK t \in 0 .. 1 : Signal!SpuriousWakeup(t)
    BY <1>9
  <2> USE DEF Signal!SpuriousWakeup
  <2>1. Signal!TypeOK'
    BY <1>0 DEF Signal!TypeOK
  <2>2. SignalWaits' /\ SignalIterations'
    BY <1>0 DEF SignalWaits, SignalIterations
  <2>3. SignalLockstep'
    BY <1>0 DEF SignalLockstep, ComparedByMain, ComparedByReplica
  <2> QED  BY <2>1, <2>2, <2>3
<1>10. CASE UNCHANGED Signal!vars
  BY <1>10
  DEF Signal!vars, Signal!TypeOK, SignalWaits, SignalIterations, SignalLockstep,
      ComparedByMain, ComparedByReplica
<1> QED
  BY <1>1, <1>2, <1>3, <1>4, <1>5, <1>6, <1>7, <1>8, <1>9, <1>10
  DEF Signal!Next, Signal!ReplicaStep, Signal!MainStep, Signal!Ended

-----------------------------------------------------------------------------
(* BarrierSync, if the barriers were initialised in time: at most one of   *)
(* the threads has come to barrier1 ...                                    *)
BeforeMeeting ==
  /\ i[0] = 0 /\ i[1] = 0
  /\ pc[0] \in {"init", "calculate", "barrier1", "compare"}
  /\ pc[1] \in {"calculate", "barrier1", "barrier2"}
  /\ pc[0] = "compare" => pc[1] # "barrier2"
  /\ waiting[1] = IF pc[0] = "compare" THEN {0}
                  ELSE IF pc[1] = "barrier2" THEN {1} ELSE {}
  /\ waiting[2] = {}

(* ... and after they met there, the replica waits at barrier2 for ever    *)
(* and the main thread, at the latest in the next iteration, at barrier1.  *)
AfterMeeting ==
  /\ i[0] \in 0 .. 1 /\ i[1] = 0
  /\ \/ pc[1] = "barrier2" /\ waiting[2] = {}
     \/ pc[1] = "decide" /\ waiting[2] = {1}
  /\ \/ waiting[1] = {} /\ pc[0] \in {"compare", "decide"} /\ i[0] = 0
     \/ waiting[1] = {} /\ pc[0] \in {"calculate", "barrier1", "ended"}
     \/ waiting[1] = {0} /\ pc[0] = "compare"

BarriersIInv ==
  /\ Barriers!TypeOK
  /\ pc \in [0 .. 1 -> {"init", "calculate", "barrier1", "compare", "barrier2",
                        "decide", "ended"}]
  /\ waiting \in [1 .. 2 -> SUBSET (0 .. 1)]
  /\ \A t \in 0 .. 1 : pc[t] # "ended" => i[t] < NumValues
  /\ misused \/ BeforeMeeting \/ AfterMeeting

LEMMA BarriersInit == Barriers!Init => BarriersIInv
<1> SUFFICES ASSUME Barriers!Init
             PROVE  BarriersIInv
  OBVIOUS
<1> USE DEF Barriers!Init, Barriers!Threads
<1>0. NumValues \in Nat \ {0} /\ 0 \in 0 .. NumValues
  BY TsxTestAssumption
<1>1. Barriers!TypeOK /\ waiting \in [1 .. 2 -> SUBSET (0 .. 1)]
  <2>1. \A b \in 1 .. 2 : waiting[b] = {} /\ {} \subseteq 0 .. 1 /\ {} # 0 .. 1
    OBVIOUS
  <2>2. i \in [0 .. 1 -> 0 .. NumValues]
    BY <1>0
  <2> QED  BY <2>1, <2>2 DEF Barriers!TypeOK
<1>2. \A t \in 0 .. 1 : pc[t] # "ended" /\ i[t] < NumValues
  BY <1>0
<1>3. BeforeMeeting
  BY DEF BeforeMeeting
<1> QED  BY <1>1, <1>2, <1>3 DEF BarriersIInv

(* What a thread that comes to a barrier changes.                          *)
LEMMA Arrivals ==
  ASSUME NEW t \in 0 .. 1
  PROVE  /\ Barriers!Arrive({}, t, 2) = {t}
         /\ \A u \in 0 .. 1 : u # t => Barriers!Arrive({u}, t, 2) = {}
         /\ \A W \in SUBSET (0 .. 1) : Barriers!Arrive(W, t, 2) \subseteq 0 .. 1
<1>1. Cardinality({}) = 0 /\ \A u \in 0 .. 1 : Cardinality({u}) = 1
  BY FS_EmptySet, FS_Singleton
<1>2. Barriers!Arrive({}, t, 2) = {t}
  <2>1. Barriers!Cardinality({}) + 1 # 2
    BY <1>1, SameCardinality
  <2> QED  BY <2>1 DEF Barriers!Arrive
<1>3. \A u \in 0 .. 1 : Barriers!Arrive({u}, t, 2) = {}
  <2>1. \A u \in 0 .. 1 : Barriers!Cardinality({u}) + 1 = 2
    BY <1>1, SameCardinality
  <2> QED  BY <2>1 DEF Barriers!Arrive
<1>4. \A W \in SUBSET (0 .. 1) : Barriers!Arrive(W, t, 2) \subseteq 0 .. 1
  BY DEF Barriers!Arrive
<1> QED  BY <1>2, <1>3, <1>4

LEMMA BarrierWaitOK ==
  ASSUME BarriersIInv, NEW t \in 0 .. 1, NEW b \in 1 .. 2, Barriers!BarrierWait(t, b)
  PROVE  /\ misused' \in BOOLEAN
         /\ waiting' \in [1 .. 2 -> SUBSET (0 .. 1)]
         /\ ~misused' => /\ ~misused
                         /\ waiting' = [waiting EXCEPT ![b] = Barriers!Arrive(@, t, 2)]
<1>1. waiting \in [1 .. 2 -> SUBSET (0 .. 1)] /\ misused \in BOOLEAN
  BY DEF BarriersIInv, Barriers!TypeOK
<1>2. Barriers!Arrive(waiting[b], t, 2) \subseteq 0 .. 1
  BY <1>1, Arrivals
<1> QED  BY <1>1, <1>2 DEF Barriers!BarrierWait

LEMMA BarriersNext == BarriersIInv /\ [Barriers!Next]_(Barriers!vars) => BarriersIInv'
<1> SUFFICES ASSUME BarriersIInv, [Barriers!Next]_(Barriers!vars)
             PROVE  BarriersIInv'
  OBVIOUS
<1> DEFINE Control == {"init", "calculate", "barrier1", "compare", "barrier2",
                       "decide", "ended"}
<1>0. /\ NumValues \in Nat \ {0}
      /\ pc \in [0 .. 1 -> Control]
      /\ i \in [0 .. 1 -> 0 .. NumValues]
      /\ waiting \in [1 .. 2 -> SUBSET (0 .. 1)]
      /\ misused \in BOOLEAN /\ initialised \in BOOLEAN /\ firstTime \in BOOLEAN
  BY TsxTestAssumption DEF BarriersIInv, Barriers!TypeOK, Barriers!Threads
<1>a. \A t \in 0 .. 1 : pc[t] # "ended" => i[t] < NumValues
  BY DEF BarriersIInv
<1> USE DEF Barriers!Go, Barriers!Threads
<1>1. CASE Barriers!InitBarriers
  <2> USE <1>1 DEF Barriers!InitBarriers
  <2>1. Barriers!TypeOK'
    BY <1>0 DEF BarriersIInv, Barriers!TypeOK
  <2>2. (misused \/ BeforeMeeting \/ AfterMeeting)'
    BY <1>0 DEF BarriersIInv, BeforeMeeting, AfterMeeting
  <2> QED  BY <1>0, <1>a, <2>1, <2>2 DEF BarriersIInv
<1>2. ASSUME NEW t \in 0 .. 1, Barriers!Calculate(t)
      PROVE  BarriersIInv'
  <2> USE <1>2 DEF Barriers!Calculate
  <2>1. Barriers!TypeOK'
    BY <1>0 DEF BarriersIInv, Barriers!TypeOK
  <2>2. (misused \/ BeforeMeeting \/ AfterMeeting)'
    BY <1>0 DEF BarriersIInv, BeforeMeeting, AfterMeeting
  <2> QED  BY <1>0, <1>a, <2>1, <2>2 DEF BarriersIInv
<1>3. ASSUME NEW t \in 0 .. 1, Barriers!Meet(t)
      PROVE  BarriersIInv'
  <2> USE <1>3 DEF Barriers!Meet
  <2>1. /\ misused' \in BOOLEAN
        /\ waiting' \in [1 .. 2 -> SUBSET (0 .. 1)]
        /\ ~misused' => /\ ~misused
                        /\ waiting' = [waiting EXCEPT ![1] = Barriers!Arrive(@, t, 2)]
    BY BarrierWaitOK
  <2>2. (misused \/ BeforeMeeting \/ AfterMeeting)'
    <3> SUFFICES ASSUME ~misused'
                 PROVE  BeforeMeeting' \/ AfterMeeting'
      OBVIOUS
    <3>1. CASE BeforeMeeting
      BY <1>0, <2>1, <3>1, Arrivals DEF BeforeMeeting, AfterMeeting
    <3>2. CASE AfterMeeting
      BY <1>0, <2>1, <3>2, Arrivals DEF AfterMeeting
    <3> QED  BY <2>1, <3>1, <3>2 DEF BarriersIInv
  <2>3. Barriers!TypeOK'
    BY <1>0, <2>1, <2>2 DEF BarriersIInv, Barriers!TypeOK, BeforeMeeting, AfterMeeting
  <2> QED  BY <1>0, <1>a, <2>1, <2>2, <2>3 DEF BarriersIInv
<1>4. CASE Barriers!ReplicaWaits
  <2> USE <1>4 DEF Barriers!ReplicaWaits
  <2>1. /\ misused' \in BOOLEAN
        /\ waiting' \in [1 .. 2 -> SUBSET (0 .. 1)]
        /\ ~misused' => /\ ~misused
                        /\ waiting' = [waiting EXCEPT ![2] = Barriers!Arrive(@, 1, 2)]
    BY BarrierWaitOK
  <2>2. (misused \/ BeforeMeeting \/ AfterMeeting)'
    <3> SUFFICES ASSUME ~misused'
                 PROVE  AfterMeeting'
      OBVIOUS
    <3>1. ~BeforeMeeting
      BY <1>0 DEF BeforeMeeting, Barriers!Free
    <3>2. AfterMeeting
      BY <2>1, <3>1 DEF BarriersIInv
    <3> QED  BY <1>0, <2>1, <3>2, Arrivals DEF AfterMeeting
  <2>3. Barriers!TypeOK'
    BY <1>0, <2>1, <2>2 DEF BarriersIInv, Barriers!TypeOK, BeforeMeeting, AfterMeeting
  <2> QED  BY <1>0, <1>a, <2>1, <2>2, <2>3 DEF BarriersIInv
<1>5. CASE Barriers!Verify
  <2> USE <1>5 DEF Barriers!Verify, Barriers!Free
  <2>1. Barriers!TypeOK'
    BY <1>0 DEF BarriersIInv, Barriers!TypeOK
  <2>2. (misused \/ BeforeMeeting \/ AfterMeeting)'
    BY <1>0 DEF BarriersIInv, BeforeMeeting, AfterMeeting
  <2> QED  BY <1>0, <1>a, <2>1, <2>2 DEF BarriersIInv
<1>6. ASSUME NEW t \in 0 .. 1, Barriers!Decide(t)
      PROVE  BarriersIInv'
  <2> USE <1>6 DEF Barriers!Decide, Barriers!Free
  <2>1. Barriers!TypeOK' /\ \A u \in 0 .. 1 : pc'[u] # "ended" => i'[u] < NumValues
    BY <1>0, <1>a DEF BarriersIInv, Barriers!TypeOK
  <2>2. (misused \/ BeforeMeeting \/ AfterMeeting)'
    BY <1>0 DEF BarriersIInv, BeforeMeeting, AfterMeeting
  <2> QED  BY <1>0, <2>1, <2>2 DEF BarriersIInv
<1>7. CASE UNCHANGED Barriers!vars
  BY <1>7 DEF Barriers!vars, BarriersIInv, Barriers!TypeOK, BeforeMeeting, AfterMeeting
<1> QED
  BY <1>1, <1>2, <1>3, <1>4, <1>5, <1>6, <1>7 DEF Barriers!Next, Barriers!ThreadStep

LEMMA BarriersSafe == BarriersIInv => Barriers!BarrierSyncInv
  BY DEF BarriersIInv, BeforeMeeting, AfterMeeting, Barriers!BarrierSyncInv,
         Barriers!ComparesInStep, Barriers!Free

-----------------------------------------------------------------------------
(* Atomicity.  The increments that threads 0 to n - 1 made if done says    *)
(* how many each did, as pairs of thread and number: how many pairs there  *)
(* are is the sum over the threads.                                        *)
Increments(n, done) == {p \in (0 .. n - 1) \X (0 .. NumValues - 1) : p[2] < done[p[1]]}

LEMMA IncrementsBounded ==
  ASSUME NEW n \in Nat, NEW done
  PROVE  /\ IsFiniteSet(Increments(n, done))
         /\ Cardinality(Increments(n, done)) \in Nat
         /\ Cardinality(Increments(n, done)) <= n * NumValues
<1> DEFINE S == 0 .. n - 1
           T == 0 .. NumValues - 1
           all == S \X T
<1>0. NumValues \in Nat \ {0}
  BY TsxTestAssumption
<1>1. IsFiniteSet(S) /\ n = Cardinality(S)
  BY FS_Interval
<1>2. IsFiniteSet(T) /\ NumValues = Cardinality(T)
  BY <1>0, FS_Interval
<1>3. IsFiniteSet(all) /\ Cardinality(all) = n * NumValues
  <2> HIDE DEF S, T
  <2> QED  BY <1>1, <1>2, CountPairs
<1>4. Increments(n, done) \in SUBSET all
  BY DEF Increments
<1> QED  BY <1>3, <1>4, FS_Subset, FS_CardinalityType

(* All of them, and none.                                                  *)
LEMMA IncrementsAll ==
  ASSUME NEW n \in Nat, NEW done, \A t \in 0 .. n - 1 : done[t] = NumValues
  PROVE  Cardinality(Increments(n, done)) = n * NumValues
<1>0. NumValues \in Nat \ {0}
  BY TsxTestAssumption
<1>1. IsFiniteSet(0 .. n - 1) /\ Cardinality(0 .. n - 1) = n
  BY FS_Interval
<1>2. IsFiniteSet(0 .. NumValues - 1) /\ Cardinality(0 .. NumValues - 1) = NumValues
  BY <1>0, FS_Interval
<1>3. Increments(n, done) = (0 .. n - 1) \X (0 .. NumValues - 1)
  BY <1>0 DEF Increments
<1> DEFINE T == 0 .. n - 1
           V == 0 .. NumValues - 1
<1>4. n = Cardinality(T) /\ NumValues = Cardinality(V) /\ IsFiniteSet(T) /\ IsFiniteSet(V)
  BY <1>1, <1>2, Zenon
<1> HIDE DEF T, V
<1>5. Cardinality(T \X V) = n * NumValues
  BY <1>4, CountPairs, SMTT(30)
<1> QED  BY <1>3, <1>5 DEF T, V

LEMMA IncrementsNone ==
  ASSUME NEW n \in Nat, NEW done, \A t \in 0 .. n - 1 : done[t] = 0
  PROVE  Cardinality(Increments(n, done)) = 0
<1>0. NumValues \in Nat \ {0}
  BY TsxTestAssumption
<1>1. Increments(n, done) = {}
  BY <1>0 DEF Increments
<1> QED  BY <1>1, FS_EmptySet

(* What a thread does more is added to them.                               *)
LEMMA IncrementsMore ==
  ASSUME NEW n \in Nat,
         NEW done \in [0 .. n - 1 -> 0 .. NumValues],
         NEW more \in [0 .. n - 1 -> 0 .. NumValues],
         NEW t \in 0 .. n - 1, done[t] <= more[t],
         \A u \in 0 .. n - 1 : u # t => more[u] = done[u]
  PROVE  Cardinality(Increments(n, more))
           = Cardinality(Increments(n, done)) + (more[t] - done[t])
<1> DEFINE S == {t}
           T == done[t] .. more[t] - 1
           new == S \X T
<1>0. NumValues \in Nat \ {0} /\ done[t] \in 0 .. NumValues /\ more[t] \in 0 .. NumValues
  BY TsxTestAssumption
<1>1. IsFiniteSet(T) /\ more[t] - done[t] = Cardinality(T)
  <2> DEFINE lo == done[t]
             hi == more[t] - 1
  <2>1. lo \in Int /\ hi \in Int /\ (IF lo > hi THEN 0 ELSE hi - lo + 1) = more[t] - done[t]
    BY <1>0
  <2> HIDE DEF lo, hi
  <2>2. IsFiniteSet(lo .. hi) /\ Cardinality(lo .. hi) = more[t] - done[t]
    BY <2>1, FS_Interval, Zenon
  <2> QED  BY <2>2 DEF lo, hi
<1>2. IsFiniteSet(S) /\ 1 = Cardinality(S)
  BY FS_Singleton
<1>3. IsFiniteSet(new) /\ Cardinality(new) = more[t] - done[t]
  <2> HIDE DEF S, T
  <2>1. IsFiniteSet(new) /\ Cardinality(new) = 1 * (more[t] - done[t])
    BY <1>1, <1>2, CountPairs
  <2> QED  BY <1>0, <2>1
<1>4. Increments(n, more) = Increments(n, done) \cup new
  <2>1. ASSUME NEW u \in 0 .. n - 1, NEW k \in 0 .. NumValues - 1
        PROVE  k < more[u] <=> k < done[u] \/ (u = t /\ k \in T)
    BY <1>0, <2>1
  <2>2. new \subseteq (0 .. n - 1) \X (0 .. NumValues - 1)
    BY <1>0
  <2> QED  BY <2>1, <2>2 DEF Increments
<1>5. Increments(n, done) \cap new = {}
  BY <1>0 DEF Increments
<1>6. IsFiniteSet(Increments(n, done))
  BY IncrementsBounded
<1> HIDE DEF new
<1>7. Cardinality(Increments(n, more)) = Cardinality(Increments(n, done)) + Cardinality(new)
  BY <1>3, <1>4, <1>5, <1>6, CountDisjoint, Zenon
<1> QED  BY <1>3, <1>7

(* The number of increments that were made.                                *)
Done == Cardinality(Increments(numThreads, i))

(* No increment of a transaction is lost; without, none is made up.        *)
CountOK ==
  /\ usingTM => globalCount = Done
  /\ globalCount <= Done
  /\ \A t \in Counting!Threads : loaded[t] <= Done

(* Without transactions, what a thread loads after a store is at least 1.  *)
StoresSeen ==
  /\ (\E t \in Counting!Threads : i[t] > 0) => globalCount >= 1
  /\ \A t \in Counting!Threads : batch[t] > 0 /\ i[t] > 0 => loaded[t] >= 1

CountingIInv ==
  /\ Counting!AtomicityInv
  /\ \A t \in Counting!Threads : i[t] + batch[t] <= NumValues
  /\ usingTM => \A t \in Counting!Threads : batch[t] = 0
  /\ IF run < NTimes THEN CountOK /\ (usingTM \/ StoresSeen)
                     ELSE \A t \in Counting!Threads : batch[t] = 0

(* The comparison with an int product: it is right if the product fits,    *)
(* and otherwise wrong.                                                    *)
LEMMA FinalResultOf ==
  ASSUME numThreads * NumValues \in Nat
  PROVE  Counting!FinalResult = numThreads * NumValues <=> numThreads * NumValues <= IntMax
<1> DEFINE p == numThreads * NumValues
           m == 2 * (IntMax + 1)
<1>0. IntMax \in Nat /\ p \in Nat /\ m \in Nat \ {0}
  BY TsxTestAssumption
<1>1. Counting!FinalResult = ((p + (IntMax + 1)) % m) - (IntMax + 1)
  BY DEF Counting!FinalResult
<1> SUFFICES (p + (IntMax + 1)) % m = p + (IntMax + 1) <=> p <= IntMax
  <2>1. (p + (IntMax + 1)) % m \in Int
    BY <1>0
  <2> HIDE DEF m, p
  <2>2. Counting!FinalResult = p <=> (p + (IntMax + 1)) % m = p + (IntMax + 1)
    BY <1>0, <1>1, <2>1
  <2> QED  BY <2>2 DEF p
<1>2. CASE p <= IntMax
  <2>1. p + (IntMax + 1) \in 0 .. m - 1
    BY <1>0, <1>2
  <2> QED  BY <1>0, <1>2, <2>1
<1>3. CASE p > IntMax
  <2>1. (p + (IntMax + 1)) % m \in 0 .. m - 1
    BY <1>0
  <2>2. p + (IntMax + 1) >= m
    BY <1>0, <1>3
  <2> QED  BY <1>0, <1>3, <2>1, <2>2
<1> QED  BY <1>0, <1>2, <1>3

LEMMA CountingInit == Counting!Init => CountingIInv
<1> SUFFICES ASSUME Counting!Init
             PROVE  CountingIInv
  OBVIOUS
<1>0. /\ NumValues \in Nat \ {0} /\ NumThreads \in Nat \ {0} /\ NTimes \in Nat \ {0}
      /\ IntMax \in Nat
  BY TsxTestAssumption
<1>1. /\ usingTM \in BOOLEAN /\ numThreads \in 1 .. NumThreads
      /\ globalCount = 0 /\ run = 0 /\ passedTests = 0
      /\ i = [t \in 0 .. numThreads - 1 |-> 0]
      /\ loaded = [t \in 0 .. numThreads - 1 |-> 0]
      /\ batch = [t \in 0 .. numThreads - 1 |-> 0]
  BY DEF Counting!Init, Counting!Threads
<1>2. numThreads * NumValues \in Nat /\ 0 \in 0 .. numThreads - 1
  BY <1>0, <1>1
<1>3. Counting!TypeOK
  BY <1>0, <1>1, <1>2 DEF Counting!TypeOK, Counting!Threads
<1>4. i[0] # NumValues
  BY <1>0, <1>1, <1>2
<1>5. Counting!IncrementsCounted /\ Counting!TMTestPasses
  BY <1>1, <1>2, <1>4
  DEF Counting!IncrementsCounted, Counting!Joined, Counting!TMTestPasses, Counting!Threads
<1>6. Done = 0
  BY <1>0, <1>1, IncrementsNone DEF Done
<1>7. CountOK /\ StoresSeen
  BY <1>1, <1>6 DEF CountOK, StoresSeen, Counting!Threads
<1>8. \A t \in 0 .. numThreads - 1 : i[t] + batch[t] <= NumValues /\ batch[t] = 0
  BY <1>0, <1>1
<1> QED
  BY <1>3, <1>5, <1>7, <1>8 DEF CountingIInv, Counting!AtomicityInv, Counting!Threads

LEMMA CountingNext == CountingIInv /\ [Counting!Next]_(Counting!vars) => CountingIInv'
<1> SUFFICES ASSUME CountingIInv, [Counting!Next]_(Counting!vars)
             PROVE  CountingIInv'
  OBVIOUS
<1> DEFINE T == 0 .. numThreads - 1
<1>0. /\ NumValues \in Nat \ {0} /\ NumThreads \in Nat \ {0} /\ NTimes \in Nat \ {0}
      /\ IntMax \in Nat
  BY TsxTestAssumption
<1>1. /\ usingTM \in BOOLEAN /\ numThreads \in 1 .. NumThreads
      /\ numThreads * NumValues \in Nat
      /\ globalCount \in 0 .. numThreads * NumValues
      /\ i \in [T -> 0 .. NumValues]
      /\ loaded \in [T -> 0 .. numThreads * NumValues]
      /\ batch \in [T -> 0 .. NumValues]
      /\ run \in 0 .. NTimes /\ passedTests \in 0 .. run
  BY <1>0 DEF CountingIInv, Counting!AtomicityInv, Counting!TypeOK, Counting!Threads
<1>i. /\ i \in [T -> 0 .. NumValues] /\ batch \in [T -> 0 .. NumValues]
      /\ NumValues \in Nat \ {0} /\ numThreads \in Nat
  BY <1>0, <1>1
<1>2. /\ \A t \in T : i[t] + batch[t] <= NumValues
      /\ usingTM => \A t \in T : batch[t] = 0
      /\ Counting!TMTestPasses
  BY DEF CountingIInv, Counting!AtomicityInv, Counting!Threads
<1>3. Done \in Nat /\ Done <= numThreads * NumValues
  BY <1>1, IncrementsBounded DEF Done
<1>4. ASSUME run < NTimes
      PROVE  /\ usingTM => globalCount = Done
             /\ globalCount <= Done
             /\ \A t \in T : loaded[t] <= Done
             /\ ~usingTM => /\ (\E t \in T : i[t] > 0) => globalCount >= 1
                            /\ \A t \in T : batch[t] > 0 /\ i[t] > 0 => loaded[t] >= 1
  BY <1>4 DEF CountingIInv, CountOK, StoresSeen, Counting!Threads
<1>5. ASSUME NEW t \in T, batch[t] > 0
      PROVE  run < NTimes
  BY <1>5 DEF CountingIInv, Counting!Threads
<1>a. ASSUME NEW t \in T, Counting!IncrementCommits(t)
      PROVE  CountingIInv'
  <2>0. /\ usingTM /\ run < NTimes /\ i[t] < NumValues
        /\ globalCount' = globalCount + 1
        /\ i' = [i EXCEPT ![t] = @ + 1]
        /\ UNCHANGED <<usingTM, numThreads, loaded, batch, run, passedTests>>
    BY <1>a DEF Counting!IncrementCommits, Counting!Running
  <2>1. i' \in [T -> 0 .. NumValues]
    <3>1. i[t] + 1 \in 0 .. NumValues
      BY <1>i, <2>0
    <3> QED  BY <1>i, <2>0, <3>1
  <2>2. Done' = Done + 1
    <3>1. numThreads \in Nat /\ i[t] <= i'[t] /\ i'[t] - i[t] = 1
          /\ \A u \in 0 .. numThreads - 1 : u # t => i'[u] = i[u]
      BY <1>i, <2>0
    <3>2. Cardinality(Increments(numThreads, i'))
            = Cardinality(Increments(numThreads, i)) + (i'[t] - i[t])
      BY <1>1, <2>1, <3>1, IncrementsMore
    <3> QED  BY <2>0, <3>1, <3>2 DEF Done
  <2>3. Done' <= numThreads * NumValues
    BY <1>1, <2>0, IncrementsBounded DEF Done
  <2>4. globalCount' = Done' /\ globalCount' \in 0 .. numThreads * NumValues
    BY <1>1, <1>3, <1>4, <2>0, <2>2, <2>3
  <2>5. Counting!TypeOK'
    BY <1>1, <2>0, <2>1, <2>4 DEF Counting!TypeOK, Counting!Threads
  <2>6. Counting!IncrementsCounted'
    <3> SUFFICES ASSUME \A u \in T : i'[u] = NumValues
                 PROVE  globalCount' = numThreads * NumValues
      BY <2>0 DEF Counting!IncrementsCounted, Counting!Joined, Counting!Threads
    <3>1. Done' = Cardinality(Increments(numThreads, i'))
      BY <2>0 DEF Done
    <3>2. numThreads \in Nat
      BY <1>0, <1>1
    <3> QED  BY <2>4, <3>1, <3>2, IncrementsAll, Zenon
  <2>7. Counting!TMTestPasses'
    BY <1>2, <2>0 DEF Counting!TMTestPasses
  <2>8. CountOK'
    BY <1>1, <1>3, <1>4, <2>0, <2>2, <2>4, SMTT(30) DEF CountOK, Counting!Threads
  <2>9. \A u \in T : i'[u] + batch'[u] <= NumValues /\ batch'[u] = 0
    BY <1>i, <1>2, <2>0, <2>1
  <2> QED
    BY <2>0, <2>5, <2>6, <2>7, <2>8, <2>9
    DEF CountingIInv, Counting!AtomicityInv, Counting!Threads
<1>b. ASSUME NEW t \in T, Counting!IncrementAborts(t)
      PROVE  CountingIInv'
  <2>1. UNCHANGED Counting!vars
    BY <1>1, <1>b DEF Counting!IncrementAborts, Counting!AfterAbort, Counting!vars
  <2> QED
    BY <2>1
    DEF Counting!vars, CountingIInv, Counting!AtomicityInv, Counting!TypeOK,
        Counting!IncrementsCounted, Counting!Joined, Counting!TMTestPasses,
        Counting!FinalResult, CountOK, StoresSeen, Done, Counting!Threads
<1>c. ASSUME NEW t \in T, Counting!Load(t)
      PROVE  CountingIInv'
  <2>0. /\ ~usingTM /\ run < NTimes /\ i[t] < NumValues
        /\ loaded' = [loaded EXCEPT ![t] = globalCount]
        /\ UNCHANGED <<usingTM, numThreads, globalCount, i, run, passedTests>>
    BY <1>c DEF Counting!Load, Counting!Running
  <2>1. PICK n \in 1 .. NumValues - i[t] : batch' = [batch EXCEPT ![t] = n]
    BY <1>c DEF Counting!Load
  <2>2. Done' = Done
    BY <2>0 DEF Done
  <2>3. n \in 0 .. NumValues /\ n > 0 /\ i[t] + n <= NumValues
    BY <1>i, <2>1
  <2>4. /\ loaded' \in [T -> 0 .. numThreads * NumValues]
        /\ batch' \in [T -> 0 .. NumValues]
    <3>1. batch' \in [T -> 0 .. NumValues]
      BY <1>i, <2>1, <2>3
    <3>2. loaded' \in [T -> 0 .. numThreads * NumValues]
      BY <1>1, <2>0, Zenon
    <3> QED  BY <3>1, <3>2
  <2>5. Counting!TypeOK'
    BY <1>1, <2>0, <2>4 DEF Counting!TypeOK, Counting!Threads
  <2>6. Counting!IncrementsCounted' /\ Counting!TMTestPasses'
    BY <1>0, <1>1, <2>0
    DEF Counting!IncrementsCounted, Counting!Joined, Counting!TMTestPasses, Counting!Threads
  <2>7. CountOK'
    BY <1>1, <1>3, <1>4, <2>0, <2>2 DEF CountOK, Counting!Threads
  <2>8. StoresSeen'
    BY <1>1, <1>4, <2>0, <2>1, <2>3 DEF StoresSeen, Counting!Threads
  <2>9. \A u \in T : i'[u] + batch'[u] <= NumValues
    BY <1>i, <1>2, <2>0, <2>1, <2>3
  <2> QED
    BY <2>0, <2>5, <2>6, <2>7, <2>8, <2>9
    DEF CountingIInv, Counting!AtomicityInv, Counting!Threads
<1>d. ASSUME NEW t \in T, Counting!Store(t)
      PROVE  CountingIInv'
  <2>0. /\ ~usingTM /\ batch[t] > 0
        /\ globalCount' = loaded[t] + batch[t]
        /\ i' = [i EXCEPT ![t] = @ + batch[t]]
        /\ batch' = [batch EXCEPT ![t] = 0]
        /\ UNCHANGED <<usingTM, numThreads, loaded, run, passedTests>>
    BY <1>d DEF Counting!Store
  <2>1. /\ batch[t] \in Nat \ {0} /\ i[t] + batch[t] <= NumValues /\ numThreads \in Nat
        /\ i[t] \in 0 .. NumValues - 1 /\ i[t] + batch[t] \in 0 .. NumValues
    BY <1>i, <1>2, <2>0
  <2>2. i' \in [T -> 0 .. NumValues] /\ batch' \in [T -> 0 .. NumValues]
    BY <1>i, <2>0, <2>1
  <2>3. run < NTimes
    BY <1>5, <2>1
  <2>4. Done' = Done + batch[t]
    <3>1. numThreads \in Nat /\ i[t] <= i'[t] /\ i'[t] - i[t] = batch[t]
          /\ \A u \in 0 .. numThreads - 1 : u # t => i'[u] = i[u]
      BY <1>i, <2>0, <2>1
    <3>2. Cardinality(Increments(numThreads, i'))
            = Cardinality(Increments(numThreads, i)) + (i'[t] - i[t])
      BY <1>1, <2>2, <3>1, IncrementsMore
    <3> QED  BY <2>0, <3>1, <3>2 DEF Done
  <2>5. Done' \in Nat /\ Done' <= numThreads * NumValues
    BY <1>1, <2>0, IncrementsBounded DEF Done
  <2>6. loaded[t] \in Nat /\ loaded[t] <= Done /\ (i[t] > 0 => loaded[t] >= 1)
    BY <1>1, <1>4, <2>0, <2>3
  <2>7. globalCount' \in 0 .. numThreads * NumValues /\ globalCount' <= Done'
    <3> DEFINE p == numThreads * NumValues
    <3>1. p \in Nat /\ Done' <= p /\ Done' = Done + batch[t] /\ Done \in Nat
      BY <1>1, <1>3, <2>4, <2>5
    <3> HIDE DEF p
    <3>2. globalCount' \in 0 .. p /\ globalCount' <= Done'
      BY <2>0, <2>1, <2>6, <3>1
    <3> QED  BY <3>2 DEF p
  <2>8. Counting!TypeOK'
    BY <1>1, <2>0, <2>2, <2>7 DEF Counting!TypeOK, Counting!Threads
  <2>9. Counting!IncrementsCounted'
    <3> SUFFICES ASSUME \A u \in T : i'[u] = NumValues
                 PROVE  globalCount' >= (IF NumValues = 1 THEN 1 ELSE 2)
      BY <2>0 DEF Counting!IncrementsCounted, Counting!Joined, Counting!Threads
    <3>1. i[t] + batch[t] = NumValues
      BY <1>i, <2>0
    <3> QED  BY <1>i, <2>0, <2>1, <2>6, <3>1, SMTT(30)
  <2>10. Counting!TMTestPasses'
    BY <2>0 DEF Counting!TMTestPasses
  <2>11. CountOK'
    <3>1. \A u \in T : loaded[u] \in Nat /\ loaded[u] <= Done
      BY <1>1, <1>4, <2>3
    <3>2. \A u \in T : loaded'[u] <= Done'
      BY <1>3, <2>0, <2>1, <2>4, <3>1
    <3> QED  BY <2>0, <2>7, <3>2 DEF CountOK, Counting!Threads
  <2>12. StoresSeen'
    <3>1. globalCount' >= 1
      BY <2>0, <2>1, <2>6
    <3>2. \A u \in T : batch'[u] > 0 => u # t /\ batch'[u] = batch[u] /\ i'[u] = i[u]
      BY <1>i, <2>0
    <3> QED  BY <1>4, <2>0, <2>3, <3>1, <3>2 DEF StoresSeen, Counting!Threads
  <2>13. \A u \in T : i'[u] + batch'[u] <= NumValues
    BY <1>i, <1>2, <2>0, <2>1
  <2> QED
    BY <2>0, <2>8, <2>9, <2>10, <2>11, <2>12, <2>13
    DEF CountingIInv, Counting!AtomicityInv, Counting!Threads
<1>e. CASE Counting!Verify
  <2>0. /\ run < NTimes /\ \A t \in T : i[t] = NumValues
        /\ run' = run + 1
        /\ passedTests' = IF Counting!FinalResult = globalCount THEN passedTests + 1
                                                                ELSE passedTests
        /\ globalCount' = 0
        /\ i' = [t \in T |-> IF run' < NTimes THEN 0 ELSE NumValues]
        /\ loaded' = [t \in T |-> 0]
        /\ UNCHANGED <<usingTM, numThreads, batch>>
    BY <1>e DEF Counting!Verify, Counting!Threads
  <2>1. 0 \in T /\ numThreads \in Nat
    BY <1>0, <1>1
  <2>2. Counting!TypeOK'
    <3>1. passedTests' \in 0 .. run'
      BY <1>0, <1>1, <2>0
    <3>2. i' \in [T -> 0 .. NumValues] /\ loaded' \in [T -> 0 .. numThreads * NumValues]
      BY <1>0, <1>1, <2>0
    <3>3. run' \in 0 .. NTimes
      BY <1>0, <1>1, <2>0
    <3> QED  BY <1>1, <2>0, <3>1, <3>2, <3>3 DEF Counting!TypeOK, Counting!Threads
  <2>3. Counting!IncrementsCounted'
    <3> SUFFICES ASSUME run' < NTimes
                 PROVE  ~\A t \in T : i'[t] = NumValues
      BY <2>0 DEF Counting!IncrementsCounted, Counting!Joined, Counting!Threads
    <3> QED  BY <1>0, <2>0, <2>1
  <2>4. Counting!TMTestPasses'
    <3> SUFFICES ASSUME usingTM
                 PROVE  passedTests' = IF numThreads * NumValues <= IntMax THEN run' ELSE 0
      BY <2>0 DEF Counting!TMTestPasses
    <3>1. passedTests = IF numThreads * NumValues <= IntMax THEN run ELSE 0
      BY <1>2 DEF Counting!TMTestPasses
    <3>2. globalCount = numThreads * NumValues
      BY <2>0
      DEF CountingIInv, Counting!AtomicityInv, Counting!IncrementsCounted, Counting!Joined,
          Counting!Threads
    <3>3. Counting!FinalResult = globalCount <=> numThreads * NumValues <= IntMax
      BY <1>1, <3>2, FinalResultOf, Zenon
    <3> QED  BY <2>0, <3>1, <3>3, Zenon
  <2>5. ASSUME run' < NTimes
        PROVE  CountOK' /\ StoresSeen'
    <3>1. \A t \in T : i'[t] = 0 /\ loaded'[t] = 0
      BY <2>0, <2>5
    <3>2. Done' = 0
      <4>1. Done' = Cardinality(Increments(numThreads, i'))
        BY <2>0 DEF Done
      <4> QED  BY <2>1, <3>1, <4>1, IncrementsNone, Zenon
    <3> QED  BY <2>0, <3>1, <3>2 DEF CountOK, StoresSeen, Counting!Threads
  <2>6. \A t \in T : batch[t] = 0 /\ i'[t] \in 0 .. NumValues
    BY <1>0, <1>1, <1>2, <2>0
  <2> QED
    BY <1>0, <2>0, <2>2, <2>3, <2>4, <2>5, <2>6
    DEF CountingIInv, Counting!AtomicityInv, Counting!Threads
<1>f. CASE UNCHANGED Counting!vars
  BY <1>f
  DEF Counting!vars, CountingIInv, Counting!AtomicityInv, Counting!TypeOK,
      Counting!IncrementsCounted, Counting!Joined, Counting!TMTestPasses,
      Counting!FinalResult, CountOK, StoresSeen, Done, Counting!Threads
<1> QED
  BY <1>a, <1>b, <1>c, <1>d, <1>e, <1>f
  DEF Counting!Next, Counting!Ended, Counting!Threads

-----------------------------------------------------------------------------
(* TransactionalRetry.  The values below the range of thread t; of thread  *)
(* NumThreads, all.                                                        *)
Below(t) == IF t = NumThreads THEN NumValues ELSE Retry!StartIndex(t)

(* The errors among them from one value up to another.                     *)
Printed(among, from, to) == {k \in among : from <= k /\ k < to}

(* With transactions a result counts the values that are done, and the     *)
(* ones among them whose error was printed.                                *)
ResultsOK ==
  \A t \in Retry!Threads :
    /\ result[t] <= 2 * (i[t] - Retry!StartIndex(t))
    /\ usingTM =>
         /\ result[t] = i[t] - Retry!StartIndex(t)
                          + Cardinality(Printed(reported, Retry!StartIndex(t), i[t]))
         /\ Printed(reported, i[t], Retry!EndIndex(t)) = {}

(* So does the sum of the results that are added.                          *)
SumOK ==
  /\ added > 0 => \A t \in Retry!Threads : ~Retry!Running(t)
  /\ finalResult <= 2 * Below(added)
  /\ usingTM => finalResult = Below(added) + Cardinality(Printed(reported, 0, Below(added)))

RetryIInv ==
  /\ Retry!TypeOK /\ i \in [Retry!Threads -> 0 .. NumValues]
  /\ ResultsOK /\ SumOK

(* The ranges of the threads follow one another and cover all the values.  *)
LEMMA Ranges ==
  /\ Below(0) = 0 /\ Below(NumThreads) = NumValues
  /\ \A t \in 0 .. NumThreads - 1 :
       /\ Retry!StartIndex(t) \in Nat /\ Retry!EndIndex(t) \in Nat
       /\ Retry!StartIndex(t) <= Retry!EndIndex(t) /\ Retry!EndIndex(t) <= NumValues
       /\ Below(t) = Retry!StartIndex(t) /\ Below(t + 1) = Retry!EndIndex(t)
       /\ \A u \in 0 .. NumThreads - 1 :
            u < t => Retry!EndIndex(u) <= Retry!StartIndex(t)
<1>0. NumValues \in Nat \ {0} /\ NumThreads \in Nat \ {0}
  BY TsxTestAssumption
<1> DEFINE q == NumValues \div NumThreads
           r == NumValues % NumThreads
<1>1. q \in Nat /\ r \in Nat /\ q \in Int /\ r \in Int /\ NumValues \in Int
  BY <1>0
<1>2. NumValues = q * NumThreads + r
  <2>1. q = NumValues \div NumThreads /\ r = NumValues % NumThreads
    OBVIOUS
  <2> HIDE DEF q, r
  <2> QED  BY <1>0, <1>1, <2>1, QuotientAndRemainder
<1>3. \A t \in Nat : Retry!StartIndex(t) = t * q
  BY DEF Retry!StartIndex
<1>4. \A t \in 0 .. NumThreads - 1 :
        Retry!EndIndex(t) = t * q + q + (IF t = NumThreads - 1 THEN r ELSE 0)
  BY <1>3 DEF Retry!EndIndex
<1> HIDE DEF q, r
<1>5. Below(0) = 0 /\ Below(NumThreads) = NumValues
  BY <1>0, <1>1, <1>3 DEF Below
<1>6. ASSUME NEW t \in 0 .. NumThreads - 1
      PROVE  /\ Retry!StartIndex(t) \in Nat /\ Retry!EndIndex(t) \in Nat
             /\ Retry!StartIndex(t) <= Retry!EndIndex(t)
             /\ Below(t) = Retry!StartIndex(t) /\ Below(t + 1) = Retry!EndIndex(t)
             /\ Retry!EndIndex(t) <= NumValues
  <2> DEFINE x == t * q
             y == (t + 1) * q
             z == NumThreads * q
  <2>1. x \in Nat /\ y = x + q /\ z \in Nat /\ NumValues = z + r
    BY <1>0, <1>1, <1>2
  <2>2. y <= z /\ (t = NumThreads - 1 => y = z)
    BY <1>0, <1>1, MulMono
  <2>3. /\ Retry!StartIndex(t) = x
        /\ Retry!EndIndex(t) = x + q + (IF t = NumThreads - 1 THEN r ELSE 0)
    BY <1>3, <1>4
  <2>4. t + 1 < NumThreads => Retry!StartIndex(t + 1) = y
    BY <1>3
  <2>5. Below(t) = Retry!StartIndex(t) /\ t \in Int
    BY <1>0 DEF Below
  <2> HIDE DEF x, y, z
  <2>6. CASE t = NumThreads - 1
    <3>1. Below(t + 1) = NumValues
      BY <1>0, <2>6 DEF Below
    <3>2. Retry!EndIndex(t) = NumValues
      BY <1>1, <2>1, <2>2, <2>3, <2>6
    <3> QED  BY <1>1, <2>1, <2>3, <2>5, <3>1, <3>2
  <2>7. CASE t < NumThreads - 1
    <3>1. Below(t + 1) = y
      BY <1>0, <2>4, <2>7 DEF Below
    <3>2. Retry!EndIndex(t) = y
      BY <1>1, <2>1, <2>3, <2>7
    <3> QED  BY <1>1, <2>1, <2>2, <2>3, <2>5, <3>1, <3>2
  <2> QED  BY <1>0, <2>6, <2>7
<1>7. ASSUME NEW t \in 0 .. NumThreads - 1, NEW u \in 0 .. NumThreads - 1, u < t
      PROVE  Retry!EndIndex(u) <= Retry!StartIndex(t)
  <2>1. (u + 1) * q <= t * q /\ (u + 1) * q = u * q + q
    BY <1>1, <1>7, MulMono
  <2>2. Retry!EndIndex(u) = u * q + q + 0 /\ Retry!StartIndex(t) = t * q
    BY <1>3, <1>4, <1>7
  <2> DEFINE v == u * q
             w == t * q
  <2>3. v \in Nat /\ w \in Nat
    BY <1>1
  <2> HIDE DEF v, w
  <2>4. v + q <= w
    BY <2>1 DEF v, w
  <2>5. Retry!EndIndex(u) = v + q + 0 /\ Retry!StartIndex(t) = w
    BY <2>2 DEF v, w
  <2> QED  BY <1>1, <2>3, <2>4, <2>5
<1> QED  BY <1>5, <1>6, <1>7

(* Only values have errors, and so they can be counted.                    *)
LEMMA PrintedFinite ==
  ASSUME NEW among \in SUBSET (0 .. NumValues - 1), NEW from, NEW to
  PROVE  /\ IsFiniteSet(Printed(among, from, to))
         /\ Cardinality(Printed(among, from, to)) \in Nat
<1>1. NumValues - 1 \in Int
  BY TsxTestAssumption
<1>2. IsFiniteSet(0 .. NumValues - 1)
  BY <1>1, FS_Interval
<1>3. Printed(among, from, to) \in SUBSET (0 .. NumValues - 1)
  BY DEF Printed
<1> QED  BY <1>2, <1>3, FS_Subset, FS_CardinalityType

LEMMA RetryInit == Retry!Init => RetryIInv
<1> SUFFICES ASSUME Retry!Init
             PROVE  RetryIInv
  OBVIOUS
<1> DEFINE T == 0 .. NumThreads - 1
<1>0. NumValues \in Nat \ {0} /\ NumThreads \in Nat \ {0} /\ MaxRetries \in Nat
  BY TsxTestAssumption
<1>1. /\ usingTM \in BOOLEAN /\ errors \in [0 .. NumValues - 1 -> BOOLEAN]
      /\ i = [t \in T |-> Retry!StartIndex(t)]
      /\ retriedTimes = [t \in T |-> 0] /\ result = [t \in T |-> 0]
      /\ reported = {} /\ added = 0 /\ finalResult = 0
  BY DEF Retry!Init, Retry!Threads, Retry!ValueIdx
<1>2. \A t \in T : /\ Retry!StartIndex(t) \in Nat /\ Retry!EndIndex(t) \in Nat
                   /\ Retry!StartIndex(t) <= Retry!EndIndex(t)
                   /\ Retry!EndIndex(t) <= NumValues
  BY Ranges
<1>3. i \in [T -> 0 .. NumValues]
  BY <1>0, <1>1, <1>2
<1>4. \A t \in T : i[t] = Retry!StartIndex(t) /\ result[t] = 0
  BY <1>1
<1>5. \A from, to : Printed(reported, from, to) = {}
  BY <1>1 DEF Printed
<1>6. Retry!TypeOK
  BY <1>0, <1>1, <1>2, <1>4 DEF Retry!TypeOK, Retry!Threads, Retry!ValueIdx
<1>7. ResultsOK
  <2>1. ASSUME NEW t \in T
        PROVE  /\ result[t] <= 2 * (i[t] - Retry!StartIndex(t))
               /\ result[t] = i[t] - Retry!StartIndex(t) + 0
    <3>1. i[t] = Retry!StartIndex(t) /\ result[t] = 0 /\ Retry!StartIndex(t) \in Nat
      BY <1>2, <1>4
    <3> QED  BY <3>1
  <2> QED  BY <1>5, <2>1, FS_EmptySet DEF ResultsOK, Retry!Threads
<1>8. SumOK
  <2>1. Below(added) = 0 /\ finalResult = 0 /\ ~(added > 0)
    BY <1>1, Ranges
  <2>2. finalResult <= 2 * Below(added) /\ finalResult = Below(added) + 0
    BY <2>1
  <2> QED  BY <1>5, <2>1, <2>2, FS_EmptySet DEF SumOK
<1> QED  BY <1>3, <1>6, <1>7, <1>8 DEF RetryIInv, Retry!Threads

(* What the invariant says in this module's terms.                         *)
LEMMA RetryFacts ==
  ASSUME RetryIInv
  PROVE  /\ NumValues \in Nat \ {0} /\ NumThreads \in Nat \ {0} /\ MaxRetries \in Nat
         /\ usingTM \in BOOLEAN /\ errors \in [0 .. NumValues - 1 -> BOOLEAN]
         /\ i \in [0 .. NumThreads - 1 -> 0 .. NumValues]
         /\ \A t \in 0 .. NumThreads - 1 :
              i[t] \in Retry!StartIndex(t) .. Retry!EndIndex(t)
         /\ retriedTimes \in [0 .. NumThreads - 1 -> 0 .. MaxRetries]
         /\ result \in [0 .. NumThreads - 1 -> 0 .. 2 * NumValues]
         /\ reported \subseteq 0 .. NumValues - 1
         /\ added \in 0 .. NumThreads /\ finalResult \in 0 .. 2 * NumValues
BY TsxTestAssumption DEF RetryIInv, Retry!TypeOK, Retry!Threads, Retry!ValueIdx

(* A thread adds a value and goes on: with transactions it is wrong if and *)
(* only if its error is printed.                                           *)
LEMMA ValueCounted ==
  ASSUME RetryIInv, NEW t \in 0 .. NumThreads - 1, Retry!Running(t),
         NEW value \in 1 .. 2, Retry!CountValue(t, value),
         errors' \in [0 .. NumValues - 1 -> BOOLEAN],
         reported' = IF usingTM /\ value = 2 THEN reported \cup {i[t]} ELSE reported,
         UNCHANGED <<usingTM, added, finalResult>>
  PROVE  RetryIInv'
<1> DEFINE T == 0 .. NumThreads - 1
           start == [u \in T |-> Retry!StartIndex(u)]
           end == [u \in T |-> Retry!EndIndex(u)]
<1>a. \A u \in T : start[u] = Retry!StartIndex(u) /\ end[u] = Retry!EndIndex(u)
  OBVIOUS
<1>0. /\ NumValues \in Nat \ {0} /\ NumThreads \in Nat \ {0} /\ MaxRetries \in Nat
      /\ usingTM \in BOOLEAN /\ errors \in [0 .. NumValues - 1 -> BOOLEAN]
      /\ i \in [T -> 0 .. NumValues]
      /\ retriedTimes \in [T -> 0 .. MaxRetries]
      /\ result \in [T -> 0 .. 2 * NumValues]
      /\ reported \subseteq 0 .. NumValues - 1
      /\ added \in 0 .. NumThreads /\ finalResult \in 0 .. 2 * NumValues
  BY RetryFacts
<1>1. /\ start \in [T -> Nat] /\ end \in [T -> Nat]
      /\ \A u \in T : start[u] <= end[u] /\ end[u] <= NumValues
      /\ \A u, v \in T : u < v => end[u] <= start[v]
  BY Ranges
<1>b. \A u \in T : i[u] \in start[u] .. end[u]
  BY RetryFacts
<1>c. i[t] < end[t]
  BY DEF Retry!Running
<1>5. \A u \in T :
        /\ result[u] <= 2 * (i[u] - start[u])
        /\ usingTM =>
             /\ result[u] = i[u] - start[u] + Cardinality(Printed(reported, start[u], i[u]))
             /\ Printed(reported, i[u], end[u]) = {}
  BY DEF RetryIInv, ResultsOK, Retry!Threads
<1> HIDE DEF start, end
<1>n. /\ NumValues \in Nat \ {0} /\ NumThreads \in Nat \ {0} /\ i \in [T -> 0 .. NumValues]
      /\ result \in [T -> 0 .. 2 * NumValues] /\ reported \subseteq 0 .. NumValues - 1
  BY <1>0
<1>2. /\ i[t] \in Nat /\ start[t] <= i[t] /\ i[t] < NumValues
      /\ start[t] \in Nat /\ end[t] \in Nat
  <2>1. /\ i[t] \in start[t] .. end[t] /\ end[t] <= NumValues
        /\ start[t] \in Nat /\ end[t] \in Nat
    BY <1>1, <1>b
  <2> QED  BY <1>c, <1>n, <2>1
<1>3. /\ result' = [result EXCEPT ![t] = @ + value]
      /\ i' = [i EXCEPT ![t] = @ + 1]
      /\ retriedTimes' = [retriedTimes EXCEPT ![t] = 0]
  BY DEF Retry!CountValue
<1>4. /\ i'[t] = i[t] + 1 /\ result'[t] = result[t] + value
      /\ \A u \in T : u # t => i'[u] = i[u] /\ result'[u] = result[u]
  BY <1>0, <1>3
<1>6. result[t] \in Nat /\ result'[t] <= 2 * (i'[t] - start[t]) /\ result'[t] \in 0 .. 2 * NumValues
  <2>1. result[t] \in Nat /\ result[t] <= 2 * (i[t] - start[t])
    BY <1>0, <1>5
  <2> DEFINE r == result[t]
             k == i[t]
             f == start[t]
  <2>2. r \in Nat /\ k \in Nat /\ f \in Nat /\ r <= 2 * (k - f) /\ k < NumValues /\ NumValues \in Nat
    BY <1>2, <1>n, <2>1
  <2>3. i'[t] = k + 1 /\ result'[t] = r + value
    BY <1>4
  <2> HIDE DEF r, k, f
  <2>4. r + value <= 2 * (k + 1 - f) /\ r + value \in 0 .. 2 * NumValues
    BY <2>2
  <2>5. r \in Nat /\ result'[t] <= 2 * (i'[t] - f) /\ result'[t] \in 0 .. 2 * NumValues
    BY <2>3, <2>4, <2>2
  <2> QED  BY <2>5 DEF r, f
<1>7. reported' \subseteq 0 .. NumValues - 1
  <2>1. i[t] \in 0 .. NumValues - 1
    BY <1>2, <1>n
  <2> QED  BY <1>n, <2>1
<1>8. i' \in [T -> 0 .. NumValues]
  <2>1. i[t] + 1 \in 0 .. NumValues
    BY <1>2, <1>n
  <2> QED  BY <1>3, <1>n, <2>1
<1>9. Retry!TypeOK'
  <2>1. \A u \in T : i'[u] \in start[u] .. end[u]
    BY <1>2, <1>4, <1>b, <1>c
  <2>2. result' \in [T -> 0 .. 2 * NumValues]
    BY <1>0, <1>3, <1>4, <1>6
  <2>3. retriedTimes' \in [T -> 0 .. MaxRetries]
    BY <1>0, <1>3, SMTT(30)
  <2> QED
    BY <1>0, <1>7, <1>a, <2>1, <2>2, <2>3
    DEF Retry!TypeOK, Retry!Threads, Retry!ValueIdx, Retry!StartIndex, Retry!EndIndex
<1>10. ASSUME usingTM
       PROVE  /\ result'[t] = i'[t] - start[t] + Cardinality(Printed(reported', start[t], i'[t]))
              /\ Printed(reported', i'[t], end[t]) = {}
  <2> DEFINE before == Printed(reported, start[t], i[t])
             after == Printed(reported', start[t], i'[t])
  <2>1. i[t] \notin reported /\ \A k \in reported : k \in Int /\ (k >= end[t] \/ k < i[t])
    <3>1. \A k \in reported : ~(i[t] <= k /\ k < end[t])
      BY <1>5, <1>10 DEF Printed
    <3>2. \A k \in reported : k \in Int
      BY <1>n
    <3> QED  BY <1>2, <1>c, <3>1, <3>2
  <2>2. after = IF value = 2 THEN before \cup {i[t]} ELSE before
    BY <1>1, <1>2, <1>4, <1>10, <1>c, <2>1 DEF Printed
  <2>3. Printed(reported', i'[t], end[t]) = {}
    BY <1>1, <1>2, <1>4, <1>10, <2>1 DEF Printed
  <2>4. i[t] \notin before
    BY <2>1 DEF Printed
  <2>5. IsFiniteSet(before) /\ Cardinality(before) \in Nat
    BY <1>0, PrintedFinite
  <2>6. result[t] = i[t] - start[t] + Cardinality(before)
    BY <1>5, <1>10
  <2> HIDE DEF before, after
  <2>7. Cardinality(after) = Cardinality(before) + (value - 1)
    <3>1. CASE value = 2
      <4>1. after = before \cup {i[t]}
        BY <2>2, <3>1
      <4>2. Cardinality(after) = Cardinality(before) + 1
        BY <2>4, <2>5, <4>1, FS_AddElement
      <4> QED  BY <3>1, <4>2
    <3>2. CASE value = 1
      BY <2>2, <2>5, <3>2
    <3> QED  BY <3>1, <3>2
  <2>8. result'[t] = i'[t] - start[t] + Cardinality(after)
    BY <1>2, <1>4, <1>6, <2>5, <2>6, <2>7
  <2> QED  BY <2>3, <2>8 DEF after
<1>11. ASSUME NEW u \in T, u # t, usingTM
       PROVE  /\ result'[u] = i'[u] - start[u] + Cardinality(Printed(reported', start[u], i'[u]))
              /\ Printed(reported', i'[u], end[u]) = {}
  <2>1. i[t] < start[u] \/ i[t] >= end[u]
    BY <1>1, <1>2, <1>11, <1>c
  <2>2. i[u] \in start[u] .. end[u] /\ i[u] \in Nat
    BY <1>0, <1>b
  <2>3. /\ Printed(reported', start[u], i[u]) = Printed(reported, start[u], i[u])
        /\ Printed(reported', i[u], end[u]) = Printed(reported, i[u], end[u])
    BY <1>1, <1>2, <1>11, <2>1, <2>2 DEF Printed
  <2> QED  BY <1>4, <1>5, <1>11, <2>3
<1>12. ResultsOK'
  <2>1. \A u \in T : result'[u] <= 2 * (i'[u] - start[u])
    BY <1>4, <1>5, <1>6
  <2> QED
    BY <1>10, <1>11, <1>a, <2>1
    DEF ResultsOK, Retry!Threads, Retry!StartIndex, Retry!EndIndex
<1>13. SumOK'
  <2>1. added = 0
    BY <1>0 DEF RetryIInv, SumOK, Retry!Threads
  <2>2. Below(added) = 0
    BY <2>1, Ranges
  <2>3. Printed(reported, 0, 0) = {} /\ Printed(reported', 0, 0) = {}
    BY <1>0, <1>7, SMTT(30) DEF Printed
  <2>4. finalResult <= 2 * 0 /\ (usingTM => finalResult = 0 + Cardinality({}))
    BY <2>2, <2>3 DEF RetryIInv, SumOK
  <2>6. finalResult' = finalResult /\ usingTM' = usingTM /\ ~(added' > 0)
    BY <2>1
  <2>5. added' = 0 /\ Below(added') = 0
    BY <2>1, <2>2
  <2> QED
    <3>1. finalResult' <= 2 * Below(added')
      BY <2>4, <2>5, <2>6
    <3>2. ASSUME usingTM'
          PROVE  finalResult' = Below(added') + Cardinality(Printed(reported', 0, Below(added')))
      <4>1. finalResult' = 0 + Cardinality({})
        BY <2>4, <2>6, <3>2
      <4>2. Printed(reported', 0, Below(added')) = {}
        BY <2>3, <2>5
      <4> QED  BY <2>5, <4>1, <4>2
    <3>3. (added > 0)' => \A u \in Retry!Threads : ~Retry!Running(u)'
      BY <2>6
    <3> QED  BY <3>1, <3>2, <3>3 DEF SumOK
<1> QED  BY <1>8, <1>9, <1>12, <1>13 DEF RetryIInv, Retry!Threads

(* A step that neither adds a value nor a result.                          *)
LEMMA ValueRetried ==
  ASSUME RetryIInv,
         errors' \in [0 .. NumValues - 1 -> BOOLEAN],
         retriedTimes' \in [0 .. NumThreads - 1 -> 0 .. MaxRetries],
         UNCHANGED <<usingTM, i, result, reported, added, finalResult>>
  PROVE  RetryIInv'
<1>1. Retry!TypeOK'
  BY DEF RetryIInv, Retry!TypeOK, Retry!Threads, Retry!ValueIdx, Retry!StartIndex,
         Retry!EndIndex
<1>2. ResultsOK'
  BY DEF RetryIInv, ResultsOK, Retry!Threads, Retry!StartIndex, Retry!EndIndex
<1>3. SumOK'
  BY DEF RetryIInv, SumOK, Retry!Threads, Retry!Running, Retry!StartIndex, Retry!EndIndex
<1> QED  BY <1>1, <1>2, <1>3 DEF RetryIInv, Retry!Threads

LEMMA CollectStep ==
  ASSUME RetryIInv, Retry!Collect
  PROVE  RetryIInv'
<1> DEFINE T == 0 .. NumThreads - 1
           start == Retry!StartIndex(added)
           end == Retry!EndIndex(added)
           before == Printed(reported, 0, start)
           its == Printed(reported, start, end)
           after == Printed(reported, 0, end)
<1>0. /\ NumValues \in Nat \ {0} /\ NumThreads \in Nat \ {0} /\ MaxRetries \in Nat
      /\ usingTM \in BOOLEAN
      /\ reported \subseteq 0 .. NumValues - 1
      /\ added \in 0 .. NumThreads /\ finalResult \in 0 .. 2 * NumValues
      /\ result \in [T -> 0 .. 2 * NumValues]
  BY RetryFacts
<1>1. /\ added < NumThreads
      /\ finalResult' = finalResult + result[added] /\ added' = added + 1
      /\ UNCHANGED <<usingTM, errors, i, retriedTimes, result, reported>>
      /\ \A t \in T : ~Retry!Running(t)
  BY DEF Retry!Collect, Retry!Threads
<1>2. added \in T /\ added + 1 \in 0 .. NumThreads
  BY <1>0, <1>1
<1>3. /\ start \in Nat /\ end \in Nat /\ start <= end /\ end <= NumValues
      /\ Below(added) = start /\ Below(added + 1) = end
  BY <1>2, Ranges
<1>4. i[added] = end
  <2>1. i[added] \in start .. end /\ ~(i[added] < end)
    BY <1>1, <1>2, RetryFacts DEF Retry!Running
  <2> HIDE DEF start, end
  <2> QED  BY <1>3, <2>1
<1>5. /\ result[added] <= 2 * (end - start)
      /\ usingTM => result[added] = end - start + Cardinality(its)
  BY <1>2, <1>4 DEF RetryIInv, ResultsOK, Retry!Threads
<1>6. /\ finalResult <= 2 * start
      /\ usingTM => finalResult = start + Cardinality(before)
  BY <1>3 DEF RetryIInv, SumOK
<1>7. Cardinality(after) = Cardinality(before) + Cardinality(its)
  <2>1. IsFiniteSet(before) /\ IsFiniteSet(its)
    BY <1>0, PrintedFinite
  <2>2. after = before \cup its /\ before \cap its = {}
    <3> HIDE DEF start, end
    <3>1. \A k \in reported : k \in Int
      BY <1>0
    <3>2. start \in Nat /\ end \in Nat /\ start <= end
      BY <1>3
    <3>3. ASSUME NEW k \in reported
          PROVE  /\ (0 <= k /\ k < end) <=> (0 <= k /\ k < start) \/ (start <= k /\ k < end)
                 /\ ~(k < start /\ start <= k)
      BY <3>1, <3>2
    <3>4. after = before \cup its
      BY <3>3 DEF Printed
    <3>5. before \cap its = {}
      BY <3>3 DEF Printed
    <3> QED  BY <3>4, <3>5
  <2> HIDE DEF before, its, after
  <2> QED  BY <2>1, <2>2, CountDisjoint
<1>8. Cardinality(before) \in Nat /\ Cardinality(its) \in Nat
  BY <1>0, PrintedFinite
<1>9. result[added] \in Nat
  BY <1>0, <1>2
<1> HIDE DEF start, end, before, its, after
<1>10. finalResult' <= 2 * end /\ finalResult' \in 0 .. 2 * NumValues
  BY <1>0, <1>1, <1>3, <1>5, <1>6, <1>9
<1>11. ASSUME usingTM
       PROVE  finalResult' = end + Cardinality(after)
  BY <1>0, <1>1, <1>3, <1>5, <1>6, <1>7, <1>8, <1>9, <1>11
<1>12. Retry!TypeOK'
  BY <1>0, <1>1, <1>2, <1>10
  DEF RetryIInv, Retry!TypeOK, Retry!Threads, Retry!ValueIdx, Retry!StartIndex,
      Retry!EndIndex
<1>13. ResultsOK'
  BY <1>1 DEF RetryIInv, ResultsOK, Retry!Threads, Retry!StartIndex, Retry!EndIndex
<1>14. SumOK'
  <2>1. Below(added') = end
    BY <1>1, <1>3
  <2>2. finalResult' <= 2 * Below(added')
    BY <1>10, <2>1
  <2>3. ASSUME usingTM'
        PROVE  finalResult' = Below(added') + Cardinality(Printed(reported', 0, Below(added')))
    <3>1. reported' = reported /\ usingTM
      BY <1>1, <2>3
    <3> QED  BY <1>11, <2>1, <3>1 DEF after
  <2>4. \A t \in T : ~Retry!Running(t)'
    BY <1>1 DEF Retry!Running, Retry!StartIndex, Retry!EndIndex
  <2> QED  BY <2>2, <2>3, <2>4 DEF SumOK, Retry!Threads
<1> QED  BY <1>1, <1>12, <1>13, <1>14 DEF RetryIInv, Retry!Threads

LEMMA RetryNext == RetryIInv /\ [Retry!Next]_(Retry!vars) => RetryIInv'
<1> SUFFICES ASSUME RetryIInv, [Retry!Next]_(Retry!vars)
             PROVE  RetryIInv'
  OBVIOUS
<1> DEFINE T == 0 .. NumThreads - 1
<1>0. /\ NumValues \in Nat \ {0} /\ MaxRetries \in Nat /\ usingTM \in BOOLEAN
      /\ errors \in [0 .. NumValues - 1 -> BOOLEAN]
      /\ retriedTimes \in [T -> 0 .. MaxRetries]
  BY RetryFacts
<1>1. Retry!Value(TRUE) = 2 /\ Retry!Value(FALSE) = 1 /\ 1 \in 1 .. 2 /\ 2 \in 1 .. 2
  BY DEF Retry!Value
<1>2. ASSUME NEW t \in T, NEW error \in BOOLEAN, Retry!Redraw(t, error)
      PROVE  errors' \in [0 .. NumValues - 1 -> BOOLEAN]
  BY <1>0, <1>2 DEF Retry!Redraw
<1>3. ASSUME NEW t \in T, Retry!Commit(t)
      PROVE  RetryIInv'
  <2>1. /\ Retry!Running(t) /\ Retry!CountValue(t, 1)
        /\ UNCHANGED <<usingTM, errors, reported, added, finalResult>>
    BY <1>1, <1>3 DEF Retry!Commit, Retry!sum
  <2> QED  BY <1>0, <1>1, <2>1, ValueCounted
<1>4. ASSUME NEW t \in T, Retry!RetryAfterError(t)
      PROVE  RetryIInv'
  <2>1. /\ retriedTimes[t] < MaxRetries /\ retriedTimes' = [retriedTimes EXCEPT ![t] = @ + 1]
        /\ UNCHANGED <<usingTM, i, result, reported, added, finalResult>>
        /\ errors' \in [0 .. NumValues - 1 -> BOOLEAN]
    BY <1>2, <1>4 DEF Retry!RetryAfterError, Retry!sum
  <2>2. retriedTimes' \in [T -> 0 .. MaxRetries]
    <3>1. retriedTimes[t] + 1 \in 0 .. MaxRetries
      BY <1>0, <2>1
    <3> QED  BY <1>0, <2>1, <3>1
  <2> QED  BY <2>1, <2>2, ValueRetried
<1>5. ASSUME NEW t \in T, Retry!RetryAsHinted(t)
      PROVE  RetryIInv'
  <2>1. /\ UNCHANGED <<usingTM, i, retriedTimes, result, reported, added, finalResult>>
        /\ errors' \in [0 .. NumValues - 1 -> BOOLEAN]
    BY <1>2, <1>5 DEF Retry!RetryAsHinted, Retry!sum
  <2> QED  BY <1>0, <2>1, ValueRetried
<1>6. ASSUME NEW t \in T, usingTM, Retry!Running(t), Retry!FallBack(t)
      PROVE  RetryIInv'
  <2>1. PICK error \in BOOLEAN :
               /\ Retry!Redraw(t, error)
               /\ Retry!CountValue(t, Retry!Value(error))
               /\ reported' = IF error THEN reported \cup {i[t]} ELSE reported
               /\ UNCHANGED <<usingTM, Retry!sum>>
    BY <1>6 DEF Retry!FallBack
  <2>2. UNCHANGED <<usingTM, added, finalResult>>
    BY <2>1 DEF Retry!sum
  <2>3. errors' \in [0 .. NumValues - 1 -> BOOLEAN]
    BY <1>2, <2>1
  <2>4. CASE error = TRUE
    <3>1. Retry!CountValue(t, 2) /\ reported' = reported \cup {i[t]}
      BY <1>1, <2>1, <2>4
    <3> QED  BY <1>1, <1>6, <2>2, <2>3, <3>1, ValueCounted
  <2>5. CASE error = FALSE
    <3>1. Retry!CountValue(t, 1) /\ reported' = reported
      BY <1>1, <2>1, <2>5
    <3> QED  BY <1>1, <1>6, <2>2, <2>3, <3>1, ValueCounted
  <2> QED  BY <2>4, <2>5
<1>7. ASSUME NEW t \in T, Retry!PlainStep(t)
      PROVE  RetryIInv'
  <2>1. /\ ~usingTM /\ Retry!Running(t)
        /\ Retry!CountValue(t, Retry!Value(errors[i[t]]))
        /\ UNCHANGED <<usingTM, errors, reported, added, finalResult>>
    BY <1>7 DEF Retry!PlainStep, Retry!sum
  <2>2. Retry!Value(errors[i[t]]) \in 1 .. 2
    BY DEF Retry!Value
  <2> QED  BY <1>0, <2>1, <2>2, ValueCounted
<1>8. CASE UNCHANGED Retry!vars
  <2>1. /\ UNCHANGED <<usingTM, i, retriedTimes, result, reported, added, finalResult>>
        /\ errors' = errors
    BY <1>8 DEF Retry!vars, Retry!sum
  <2> QED  BY <1>0, <2>1, ValueRetried
<1> QED
  BY <1>3, <1>4, <1>5, <1>6, <1>7, <1>8, CollectStep
  DEF Retry!Next, Retry!ThreadStep, Retry!Try, Retry!GiveUp, Retry!HardwareAbort,
      Retry!Ended, Retry!Threads

LEMMA RetrySafe == RetryIInv => Retry!RetryInv /\ Retry!PassesIffNothingReported
<1> SUFFICES ASSUME RetryIInv
             PROVE  Retry!RetryInv /\ Retry!PassesIffNothingReported
  OBVIOUS
<1>1. Retry!OffByReportedErrors
  BY SameCardinality
  DEF RetryIInv, ResultsOK, Printed, Retry!OffByReportedErrors
<1>2. Retry!PassesIffNothingReported
  <2> SUFFICES ASSUME usingTM, added = NumThreads
               PROVE  finalResult = NumValues <=> reported = {}
    BY DEF Retry!PassesIffNothingReported, Retry!Collected, Retry!Passed
  <2>1. NumValues \in Nat \ {0} /\ reported \subseteq 0 .. NumValues - 1
    BY RetryFacts
  <2>2. Printed(reported, 0, NumValues) = reported
    <3>1. \A k \in reported : 0 <= k /\ k < NumValues
      BY <2>1
    <3> QED  BY <3>1 DEF Printed
  <2>3. finalResult = NumValues + Cardinality(reported)
    BY <2>2, Ranges DEF RetryIInv, SumOK
  <2>4. IsFiniteSet(reported) /\ Cardinality(reported) \in Nat
    BY <2>1, <2>2, PrintedFinite
  <2>5. Cardinality(reported) = 0 <=> reported = {}
    BY <2>4, FS_EmptySet
  <2> QED  BY <2>1, <2>3, <2>4, <2>5
<1> QED  BY <1>1, <1>2 DEF RetryIInv, Retry!RetryInv

-----------------------------------------------------------------------------
(* A behaviour of MCTsxTests is one of the four.                           *)
TestsIInv ==
  /\ InSignal => SignalIInv
  /\ InBarriers => BarriersIInv
  /\ InCounting => CountingIInv
  /\ InRetry => RetryIInv

(* The inductive invariants of the four tests hold for any number of       *)
(* values, threads and runs.                                               *)
THEOREM TestsSafe == Spec => []TestsIInv
<1> USE DEF InSignal, InBarriers, InCounting, InRetry
<1>1. Init => TestsIInv
  BY SignalInit, BarriersInit, CountingInit, RetryInit DEF Init, TestsIInv
<1>2. TestsIInv /\ [Next]_allVars => TestsIInv'
  <2> SUFFICES ASSUME TestsIInv, [Next]_allVars
               PROVE  TestsIInv'
    OBVIOUS
  <2>1. CASE SignalStep(Signal!Next)
    BY <2>1, SignalNext DEF SignalStep, TestsIInv
  <2>2. CASE BarriersStep(Barriers!Next)
    BY <2>2, BarriersNext DEF BarriersStep, TestsIInv
  <2>3. CASE CountingStep(Counting!Next)
    BY <2>3, CountingNext DEF CountingStep, TestsIInv
  <2>4. CASE RetryStep(Retry!Next)
    BY <2>4, RetryNext DEF RetryStep, TestsIInv
  <2>5. CASE UNCHANGED allVars
    <3>1. /\ UNCHANGED test
          /\ UNCHANGED Signal!vars /\ UNCHANGED Barriers!vars
          /\ UNCHANGED Counting!vars /\ UNCHANGED Retry!vars
      BY <2>5
      DEF allVars, replication, barriers, counting, retries, Signal!vars, Barriers!vars,
          Counting!vars, Retry!vars, Retry!sum
    <3> QED
      BY <3>1, SignalNext, BarriersNext, CountingNext, RetryNext DEF TestsIInv
  <2> QED  BY <2>1, <2>2, <2>3, <2>4, <2>5 DEF Next
<1> QED  BY <1>1, <1>2, PTL DEF Spec

(* SignalSync: in every iteration without the injected error the threads   *)
(* compare the results of the same iteration, Replication_Signal_Test.     *)
THEOREM SignalInLockstep == Spec => []LockstepInv
<1>1. TestsIInv => LockstepInv
  <2> SUFFICES ASSUME SignalIInv
               PROVE  Signal!LockstepInv
    BY DEF TestsIInv, LockstepInv
  <2>1. Signal!TypeOK
    BY DEF SignalIInv
  <2>2. i \in [0 .. 1 -> 0 .. NumValues] /\ NumValues \in Nat
    BY <2>1, TsxTestAssumption
    DEF Signal!TypeOK, Signal!Threads, Signal!Main, Signal!Replica
  <2>3. ASSUME Signal!NoError, pc[0] = "verify"
        PROVE  i[0] = i[1]
    <3>1. iterationStatus = "replicationFinished"
      BY <2>3 DEF SignalIInv, SignalWaits
    <3> QED
      BY <2>3, <3>1 DEF SignalIInv, SignalLockstep, ComparedByMain, ComparedByReplica
  <2> QED
    BY <2>1, <2>3 DEF Signal!LockstepInv, Signal!SameIteration, Signal!Main, Signal!Replica
<1> QED  BY <1>1, TestsSafe, PTL

(* SignalSync: while the main thread compares, the replica is inside its   *)
(* pthread_cond_wait, and when the replica decides, the verdict still      *)
(* stands, injected error or not.                                          *)
THEOREM SignalReplicaInStep == Spec => []ReplicaInStep
<1>1. TestsIInv => ReplicaInStep
  BY DEF TestsIInv, SignalIInv, SignalWaits, ReplicaInStep, Signal!ReplicaInStep,
         Signal!ReplicaWaitsForVerdict, Signal!ReplicaMissesNoVerdict, Signal!Main,
         Signal!Replica
<1> QED  BY <1>1, TestsSafe, PTL

(* BarrierSync: the comparison follows the calculation of the replica,     *)
(* which does not begin another one meanwhile, and no barrier holds both   *)
(* threads, unless a thread used one before it was initialised.            *)
THEOREM BarriersHold == Spec => []BarrierSyncInv
<1>1. TestsIInv => BarrierSyncInv
  BY BarriersSafe DEF TestsIInv, BarrierSyncInv
<1> QED  BY <1>1, TestsSafe, PTL

(* Atomicity: with transactions no increment is lost, and the comparison   *)
(* with the int product says so if and only if the product fits.           *)
THEOREM CountingSafe == Spec => []AtomicityInv
<1>1. TestsIInv => AtomicityInv
  BY DEF TestsIInv, CountingIInv, AtomicityInv
<1> QED  BY <1>1, TestsSafe, PTL

(* TransactionalRetry: the retries stay within their limit, and a result   *)
(* is off by exactly the errors that were printed.                         *)
THEOREM TransactionalRetrySafe == Spec => []RetryInv
<1>1. TestsIInv => RetryInv
  BY RetrySafe DEF TestsIInv, RetryInv
<1> QED  BY <1>1, TestsSafe, PTL

(* TransactionalRetry: the test passes if and only if no error was         *)
(* printed, whatever the remainder of the division into ranges.            *)
THEOREM PassesIffQuiet == Spec => []PassesIffNothingReported
<1>1. TestsIInv => PassesIffNothingReported
  BY RetrySafe DEF TestsIInv, PassesIffNothingReported
<1> QED  BY <1>1, TestsSafe, PTL

=============================================================================
