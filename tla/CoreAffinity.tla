---------------------------- MODULE CoreAffinity ------------------------------
(***************************************************************************)
(* The thread tasks of TestCoreAffinity.c: every thread sums the results   *)
(* of Affinity_CalcFunc over its range.  thread_task_normal calculates     *)
(* once, thread_task_normally_replicated twice in the same thread, and in  *)
(* thread_task_hyper_replicated the threads 2 and 3 replicate what the     *)
(* threads 0 and 1 do: a replica hands its result over in                  *)
(* globalTempResults and says so in hyperThreadsFinished, on which its     *)
(* main thread spins; a barrier ends the round.                            *)
(*                                                                         *)
(* Threads t and t + 2 share a core, a barrier and an entry of the shared  *)
(* arrays; the pairs share nothing.  tempResult holds what was summed up,  *)
(* as pairs of an iteration and the value added in it.                     *)
(***************************************************************************)
EXTENDS ThreadTestParameters, PthreadBarrier

VARIABLES
  executionType,
  hoisted,                \* the build reads the flag once before the busy wait
  pc, i, tempResult,      \* per thread
  localTempResult,        \* per main thread
  globalTempResults, hyperThreadsFinished, waiting, faults   \* per core

shared == <<globalTempResults, hyperThreadsFinished, waiting>>
vars == <<executionType, hoisted, pc, i, tempResult, localTempResult, shared, faults>>

Cores  == 0 .. 1
Values == 0 .. NumValues - 1
Wrong  == -1
Core(t) == t % 2

(* The number of threads that CoreAffinity_Replication_Test has for a type.*)
Threads ==
  CASE executionType = "normal"             -> {0}
    [] executionType = "normallyReplicated" -> 0 .. 1
    [] executionType = "hyperReplicated"    -> 0 .. 3

Hyper == executionType = "hyperReplicated"
IsHyperThread(t) == t \in {2, 3}
Parts == IF executionType = "normal" THEN 1 ELSE 2

(* The range of a thread, which its replica iterates through as well.      *)
First(t) == Core(t) * (NumValues \div Parts)
Limit(t) ==
  First(t) + NumValues \div Parts
    + (IF Core(t) = Parts - 1 THEN NumValues % Parts ELSE 0)

(* Results are remainders, so different iterations may have the same one.  *)
Affinity_CalcFunc(k) == k % NumResults

TypeOK ==
  /\ i \in [0 .. 3 -> 0 .. NumValues]
  /\ \A t \in 0 .. 3 : tempResult[t] \subseteq Values \X (Values \cup {Wrong})
  /\ localTempResult \in [Cores -> Values \cup {Wrong}]
  /\ globalTempResults \in [Cores -> Values \cup {Wrong}]
  /\ hyperThreadsFinished \in [Cores -> 0 .. 1]
  /\ \A c \in Cores : waiting[c] \subseteq {c, c + 2} /\ Cardinality(waiting[c]) < 2
  /\ faults \in [Cores -> 0 .. MaxCoreFaults]

Init ==
  /\ executionType \in {"normal", "normallyReplicated", "hyperReplicated"}
  /\ hoisted \in (IF Hyper THEN BOOLEAN ELSE {FALSE})
  /\ pc = [t \in 0 .. 3 |-> IF t \in Threads THEN "setup" ELSE "ended"]
  /\ i = [t \in 0 .. 3 |-> First(t)]
  /\ tempResult = [t \in 0 .. 3 |-> {}]
  /\ localTempResult = [c \in Cores |-> 0]
  /\ globalTempResults = [c \in Cores |-> 0]
  /\ hyperThreadsFinished = [c \in Cores |-> 0]
  /\ waiting = [c \in Cores |-> {}]
  /\ faults = [c \in Cores |-> 0]

Go(t, from, to) == pc[t] = from /\ pc' = [pc EXCEPT ![t] = to]

(* A calculation of thread t, which a soft error may spoil.                *)
Calculates(t, value) ==
  \/ value = Affinity_CalcFunc(i[t]) /\ UNCHANGED faults
  \/ /\ faults[Core(t)] < MaxCoreFaults
     /\ value = Wrong
     /\ faults' = [faults EXCEPT ![Core(t)] = @ + 1]

Results == {Affinity_CalcFunc(k) : k \in Values} \cup {Wrong}

Add(t, value) == tempResult' = [tempResult EXCEPT ![t] = @ \cup {<<i[t], value>>}]

InLoop(t) == pc[t] = "loop" /\ t \notin waiting[Core(t)] /\ i[t] < Limit(t)

(* barrierWait(0).                                                         *)
BarrierWait(t) == waiting' = [waiting EXCEPT ![Core(t)] = Arrive(@, t, 2)]

NextIteration(t) == i' = [i EXCEPT ![t] = @ + 1]

-----------------------------------------------------------------------------
(* The hyper-threads begin with a barrier, the other tasks do not.         *)
Setup(t) ==
  /\ Go(t, "setup", "loop")
  /\ IF Hyper THEN BarrierWait(t) ELSE UNCHANGED waiting
  /\ UNCHANGED <<executionType, hoisted, i, tempResult, localTempResult,
                 globalTempResults, hyperThreadsFinished, faults>>

(* One iteration of thread_task_normal.                                    *)
NormalIteration(t) ==
  /\ executionType = "normal" /\ InLoop(t)
  /\ \E value \in Results : Calculates(t, value) /\ Add(t, value)
  /\ NextIteration(t)
  /\ UNCHANGED <<executionType, hoisted, pc, localTempResult, shared>>

\* A bug that adds the first result whatever the second one is.
ReplicatedAdd_Unchecked(t, v1, v2) == Add(t, v1)

ReplicatedAdd(t, v1, v2) == IF v1 = v2 THEN Add(t, v1) ELSE UNCHANGED tempResult

(* One iteration of thread_task_normally_replicated; a soft error strikes  *)
(* one of the two calculations.                                            *)
ReplicatedIteration(t) ==
  /\ executionType = "normallyReplicated" /\ InLoop(t)
  /\ \E v1, v2 \in Results :
       /\ \/ Calculates(t, v1) /\ v2 = Affinity_CalcFunc(i[t])
          \/ Calculates(t, v2) /\ v1 = Affinity_CalcFunc(i[t])
       /\ ReplicatedAdd(t, v1, v2)
  /\ NextIteration(t)
  /\ UNCHANGED <<executionType, hoisted, pc, localTempResult, shared>>

-----------------------------------------------------------------------------
(* The replica.                                                            *)
ReplicaCalculate(t) ==
  /\ Hyper /\ IsHyperThread(t) /\ InLoop(t)
  /\ Go(t, "loop", "flag")
  /\ \E value \in Results :
       /\ Calculates(t, value)
       /\ globalTempResults' = [globalTempResults EXCEPT ![Core(t)] = value]
  /\ UNCHANGED <<executionType, hoisted, i, tempResult, localTempResult,
                 hyperThreadsFinished, waiting>>

ReplicaFlag(t) ==
  /\ Go(t, "flag", "barrier")
  /\ hyperThreadsFinished' = [hyperThreadsFinished EXCEPT ![Core(t)] = 1]
  /\ UNCHANGED <<executionType, hoisted, i, tempResult, localTempResult,
                 globalTempResults, waiting, faults>>

(* Both threads end a round with the barrier.                              *)
EndRound(t) ==
  /\ Go(t, "barrier", "loop")
  /\ BarrierWait(t)
  /\ NextIteration(t)
  /\ UNCHANGED <<executionType, hoisted, tempResult, localTempResult,
                 globalTempResults, hyperThreadsFinished, faults>>

-----------------------------------------------------------------------------
(* The main thread of a pair; its number is that of its core.              *)
MainCalculate(t) ==
  /\ Hyper /\ ~IsHyperThread(t) /\ InLoop(t)
  /\ Go(t, "loop", "spin")
  /\ \E value \in Results :
       /\ Calculates(t, value)
       /\ localTempResult' = [localTempResult EXCEPT ![t] = value]
  /\ UNCHANGED <<executionType, hoisted, i, tempResult, shared>>

\* A bug that does not wait.
FlagIsSet_Always(t) == TRUE

FlagIsSet(t) == hyperThreadsFinished[t] = 1

SpinEnds(t) ==
  /\ Go(t, "spin", "compare")
  /\ FlagIsSet(t)
  /\ UNCHANGED <<executionType, hoisted, i, tempResult, localTempResult, shared, faults>>

(* The flag is neither volatile nor atomic: a build may read it once, and  *)
(* spin for ever if it found 0.                                            *)
SpinForEver(t) ==
  /\ hoisted
  /\ Go(t, "spin", "stuck")
  /\ ~FlagIsSet(t)
  /\ UNCHANGED <<executionType, hoisted, i, tempResult, localTempResult, shared, faults>>

\* A bug that leaves the round without its barrier when the results differ.
Compare_Continue(t) ==
  /\ pc[t] = "compare"
  /\ IF localTempResult[t] = globalTempResults[t]
     THEN Go(t, "compare", "reset") /\ Add(t, localTempResult[t]) /\ UNCHANGED i
     ELSE Go(t, "compare", "loop") /\ NextIteration(t) /\ UNCHANGED tempResult
  /\ UNCHANGED <<executionType, hoisted, localTempResult, shared, faults>>

(* The flag is reset only after a comparison that succeeded.               *)
Compare(t) ==
  /\ pc[t] = "compare"
  /\ IF localTempResult[t] = globalTempResults[t]
     THEN Go(t, "compare", "reset") /\ Add(t, localTempResult[t])
     ELSE Go(t, "compare", "barrier") /\ UNCHANGED tempResult
  /\ UNCHANGED <<executionType, hoisted, i, localTempResult, shared, faults>>

ResetFlag(t) ==
  /\ Go(t, "reset", "barrier")
  /\ hyperThreadsFinished' = [hyperThreadsFinished EXCEPT ![t] = 0]
  /\ UNCHANGED <<executionType, hoisted, i, tempResult, localTempResult,
                 globalTempResults, waiting, faults>>

(* results[__thread_id] = tempResult.                                      *)
Finish(t) ==
  /\ t \notin waiting[Core(t)] /\ i[t] = Limit(t)
  /\ Go(t, "loop", "ended")
  /\ UNCHANGED <<executionType, hoisted, i, tempResult, localTempResult, shared, faults>>

-----------------------------------------------------------------------------
ThreadStep(t) ==
  \/ Setup(t) \/ NormalIteration(t) \/ ReplicatedIteration(t)
  \/ ReplicaCalculate(t) \/ ReplicaFlag(t) \/ EndRound(t)
  \/ MainCalculate(t) \/ SpinEnds(t) \/ SpinForEver(t) \/ Compare(t) \/ ResetFlag(t)
  \/ Finish(t)

Ended == (\A t \in 0 .. 3 : pc[t] = "ended") /\ UNCHANGED vars

Next == (\E t \in 0 .. 3 : ThreadStep(t)) \/ Ended

(* The operating system runs every thread.                                 *)
Spec == Init /\ [][Next]_vars /\ \A t \in 0 .. 3 : WF_vars(ThreadStep(t))

-----------------------------------------------------------------------------
(* "finished and waiting for hyper-thread": when main thread c compares,   *)
(* its replica has finished the calculation of the same iteration and not  *)
(* begun the next one.                                                     *)
InStep(c) ==
  pc[c] = "compare" =>
    \/ pc[c + 2] = "barrier" /\ i[c + 2] = i[c]
    \/ c + 2 \in waiting[c] /\ i[c + 2] = i[c] + 1

(* As long as no soft error struck a core, its main thread compares the    *)
(* results of one iteration, and no iteration is missing from its sum.     *)
NoRoundLost ==
  \A c \in Cores :
    c \in Threads /\ faults[c] = 0 =>
      /\ InStep(c)
      /\ pc[c] = "loop" =>
           tempResult[c] = {<<k, Affinity_CalcFunc(k)>> : k \in First(c) .. i[c] - 1}

(* The types, above all that a barrier is never overrun, and NoRoundLost.  *)
AffinityInv == TypeOK /\ NoRoundLost

(* A single soft error on a core never gets into the sum of a replicated   *)
(* task, even though the main thread is out of step with its replica from  *)
(* then on and compares with whatever is there.                            *)
AddedIsRight ==
  executionType # "normal" =>
    \A t \in Threads :
      faults[Core(t)] <= 1 =>
        \A entry \in tempResult[t] : entry[2] = Affinity_CalcFunc(entry[1])

(* All threads end, with or without soft errors, unless the build read the *)
(* flag before the busy wait.                                              *)
NoneStuck == \A t \in Threads : pc[t] # "stuck"
AllEnded  == \A t \in Threads : pc[t] = "ended"
Ends == []NoneStuck => <>AllEnded

=============================================================================
