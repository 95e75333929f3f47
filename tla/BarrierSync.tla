----------------------------- MODULE BarrierSync ------------------------------
(***************************************************************************)
(* ThreadReplicationFunc_BarrierSync of TestTSX.c: main thread 0 and       *)
(* replica 1 meet at barrier1 before the main thread compares; the replica *)
(* goes on to wait at barrier2.  The main thread initialises the barriers  *)
(* when it enters the function, which the replica may have entered before. *)
(***************************************************************************)
EXTENDS TsxTestParameters, PthreadBarrier

VARIABLES
  errorAt,                       \* 6 in the code
  pc, i,                         \* per thread
  v1, v2, firstTime,
  iterationStatus,
  initialised,                   \* the barriers are
  waiting,                       \* per barrier
  misused                        \* a thread came to a barrier before that

vars == <<errorAt, pc, i, v1, v2, firstTime, iterationStatus, initialised, waiting, misused>>

Threads == 0 .. 1

TypeOK ==
  /\ errorAt \in ErrorsAt
  /\ i \in [Threads -> 0 .. NumValues]
  /\ v1 \in {-1, 1} /\ v2 \in {-1, 1, 2} /\ firstTime \in BOOLEAN
  /\ iterationStatus \in {"started", "successfull", "failed"}
  /\ initialised \in BOOLEAN /\ misused \in BOOLEAN
  /\ \A b \in 1 .. 2 :
       waiting[b] \subseteq Threads /\ (misused \/ waiting[b] # Threads)

Init ==
  /\ errorAt \in ErrorsAt
  /\ pc = [t \in Threads |-> IF t = 0 THEN "init" ELSE "calculate"]
  /\ i = [t \in Threads |-> 0]
  /\ v1 = -1 /\ v2 = -1 /\ firstTime = TRUE
  /\ iterationStatus = "started"
  /\ initialised = FALSE
  /\ waiting = [b \in 1 .. 2 |-> {}]
  /\ misused = FALSE

Go(t, from, to) == pc[t] = from /\ pc' = [pc EXCEPT ![t] = to]
Free(t) == \A b \in 1 .. 2 : t \notin waiting[b]

(* pthread_barrier_init twice.                                             *)
InitBarriers ==
  /\ Go(0, "init", "calculate")
  /\ initialised' = TRUE
  /\ UNCHANGED <<errorAt, i, v1, v2, firstTime, iterationStatus, waiting, misused>>

(* Both calculate 1, but for the injected error.                           *)
Calculate(t) ==
  LET error == t = 1 /\ i[1] = errorAt /\ firstTime
      value == IF error THEN 2 ELSE 1
  IN  /\ Go(t, "calculate", "barrier1")
      /\ IF t = 0 THEN v1' = value /\ UNCHANGED v2 ELSE v2' = value /\ UNCHANGED v1
      /\ firstTime' = (firstTime /\ ~error)
      /\ UNCHANGED <<errorAt, i, iterationStatus, initialised, waiting, misused>>

(* A barrier that was used before it was initialised may do anything from  *)
(* then on: let the thread pass, let both go, or keep the thread.          *)
BarrierWait(t, b) ==
  LET arrived == [waiting EXCEPT ![b] = Arrive(@, t, 2)]
      kept    == [waiting EXCEPT ![b] = @ \cup {t}]
  IN  /\ misused' = (misused \/ ~initialised)
      /\ waiting' \in IF misused' THEN {waiting, arrived, kept} ELSE {arrived}

Meet(t) ==
  /\ Go(t, "barrier1", IF t = 0 THEN "compare" ELSE "barrier2")
  /\ BarrierWait(t, 1)
  /\ UNCHANGED <<errorAt, i, v1, v2, firstTime, iterationStatus, initialised>>

\* A bug that leaves barrier2 out, as the main thread does.
ReplicaWaits_Not ==
  /\ Free(1)
  /\ Go(1, "barrier2", "decide")
  /\ UNCHANGED <<errorAt, i, v1, v2, firstTime, iterationStatus, initialised, waiting, misused>>

ReplicaWaits ==
  /\ Free(1)
  /\ Go(1, "barrier2", "decide")
  /\ BarrierWait(1, 2)
  /\ UNCHANGED <<errorAt, i, v1, v2, firstTime, iterationStatus, initialised>>

Verify ==
  /\ Free(0)
  /\ Go(0, "compare", "decide")
  /\ iterationStatus' = IF v1 # v2 THEN "failed" ELSE "successfull"
  /\ UNCHANGED <<errorAt, i, v1, v2, firstTime, initialised, waiting, misused>>

(* "both threads execute this part".                                       *)
Decide(t) ==
  LET next == IF iterationStatus = "failed" THEN i[t] ELSE i[t] + 1 IN
  /\ Free(t)
  /\ Go(t, "decide", IF next < NumValues THEN "calculate" ELSE "ended")
  /\ i' = [i EXCEPT ![t] = next]
  /\ UNCHANGED <<errorAt, v1, v2, firstTime, iterationStatus, initialised, waiting, misused>>

ThreadStep(t) ==
  \/ t = 0 /\ (InitBarriers \/ Verify)
  \/ t = 1 /\ ReplicaWaits
  \/ Calculate(t) \/ Meet(t) \/ Decide(t)

Next ==
  \/ \E t \in Threads : ThreadStep(t)
  \/ (\A t \in Threads : pc[t] = "ended") /\ UNCHANGED vars

(* The operating system runs both threads.                                 *)
Spec == Init /\ [][Next]_vars /\ \A t \in Threads : WF_vars(ThreadStep(t))

-----------------------------------------------------------------------------
(* While the main thread compares, the replica stays behind its            *)
(* calculation of the same iteration: v2, which no lock protects, is not   *)
(* written meanwhile.                                                      *)
ComparesInStep ==
  ~misused /\ pc[0] = "compare" /\ Free(0) => i[0] = i[1] /\ pc[1] # "calculate"

(* The types, above all that no barrier holds both threads, and            *)
(* ComparesInStep.                                                         *)
BarrierSyncInv == TypeOK /\ ComparesInStep

(* "both threads execute this part": if the barriers are initialised in    *)
(* time, each thread gets to the decision on its iteration, at least once. *)
(* The code violates this: nobody but the replica comes to barrier2.       *)
BothDecide ==
  \A t \in Threads : <>(misused \/ (pc[t] = "decide" /\ Free(t)))

=============================================================================
