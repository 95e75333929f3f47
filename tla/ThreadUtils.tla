----------------------------- MODULE ThreadUtils ------------------------------
(***************************************************************************)
(* ThreadUtils.c: the array THREAD_UTILS_Threads of handles, by which a    *)
(* thread finds out its index.  The tests call THREAD_UTILS_SetNumThreads, *)
(* CreateThreads, StartThreads and DestroyThreads in this order, one test  *)
(* after the other.                                                        *)
(*                                                                         *)
(* The first entry of the array points to mainThread, a local variable of  *)
(* CreateThreads, which has returned when a thread looks there: it holds   *)
(* whatever later calls of the main thread left on the stack.  The memory  *)
(* of a handle that is not stored yet is not initialised either.           *)
(***************************************************************************)
EXTENDS ThreadTestParameters

VARIABLES
  pc,          \* of the main thread
  numThreads,  \* THREAD_UTILS_NUM_THREADS
  memory,      \* of the array: "null", "live" or "freed"
  slot,        \* *THREAD_UTILS_Threads[j], j > 0
  handle,      \* the handles of the threads that are not joined; 0 is main
  index        \* what THREAD_UTILS_GetThreadIndex returned to them

vars == <<pc, numThreads, memory, slot, handle, index>>

Threads == 0 .. numThreads - 1
Children == 1 .. numThreads - 1
Unknown == -1

TypeOK ==
  /\ pc \in {"idle", "create", "start", "run", "join", "destroy"}
  /\ numThreads \in 0 .. MaxThreads
  /\ memory \in {"null", "live", "freed"}
  /\ \A j \in DOMAIN slot : slot[j] \in Handles
  /\ 0 \in DOMAIN handle /\ DOMAIN handle \subseteq Threads \cup {0}
  /\ \A s, t \in DOMAIN handle : s # t => handle[s] # handle[t]
  /\ \A t \in DOMAIN index : index[t] \in 0 .. MaxThreads - 1 \cup {Unknown}

Init ==
  /\ pc = "idle" /\ numThreads = 0 /\ memory = "null"
  /\ slot = [j \in {} |-> 0]
  /\ \E h \in Handles : handle = [t \in {0} |-> h]
  /\ index = [t \in {0} |-> Unknown]

-----------------------------------------------------------------------------
THREAD_UTILS_SetNumThreads ==
  /\ pc = "idle" /\ pc' = "create"
  /\ numThreads' \in 1 .. MaxThreads
  /\ index' = [t \in {0} |-> Unknown]
  /\ UNCHANGED <<memory, slot, handle>>

THREAD_UTILS_CreateThreads ==
  /\ pc = "create" /\ pc' = "start"
  /\ memory' = "live"
  /\ slot' \in [Children -> Handles]
  /\ UNCHANGED <<numThreads, handle, index>>

(* pthread_create in THREAD_UTILS_StartThreads stores the handle before    *)
(* the thread starts, and no two threads have the same.                    *)
StartThread(j) ==
  /\ pc = "start" /\ j \in Children
  /\ j = Cardinality(DOMAIN handle)
  /\ \E h \in Handles \ {handle[t] : t \in DOMAIN handle} :
       /\ slot' = [slot EXCEPT ![j] = h]
       /\ handle' = [t \in DOMAIN handle \cup {j} |-> IF t = j THEN h ELSE handle[t]]
  /\ index' = [t \in DOMAIN index \cup {j} |-> IF t = j THEN Unknown ELSE index[t]]
  /\ UNCHANGED <<pc, numThreads, memory>>

(* The main thread executes the routine when it has started the others.    *)
RunInMain ==
  /\ pc = "start" /\ DOMAIN handle = Threads
  /\ pc' = "run"
  /\ UNCHANGED <<numThreads, memory, slot, handle, index>>

(* The entries that hold a handle; dead is what the first one points to.   *)
Matches(h, dead) ==
  {j \in Threads : h = IF j = 0 THEN dead ELSE slot[j]}

\* A bug that searches from the end.
THREAD_UTILS_GetThreadIndex_Last(h, dead) ==
  IF Matches(h, dead) = {} THEN 0
  ELSE CHOOSE j \in Matches(h, dead) : \A k \in Matches(h, dead) : k <= j

(* The first entry that holds the handle, or 0.                            *)
THREAD_UTILS_GetThreadIndex(h, dead) ==
  IF Matches(h, dead) = {} THEN 0
  ELSE CHOOSE j \in Matches(h, dead) : \A k \in Matches(h, dead) : j <= k

(* The routine asks for the index of the thread that executes it.          *)
LookUp(t) ==
  /\ t \in DOMAIN handle /\ index[t] = Unknown
  /\ t = 0 => pc = "run"
  /\ \E dead \in Handles :
       index' = [index EXCEPT ![t] = THREAD_UTILS_GetThreadIndex(handle[t], dead)]
  /\ UNCHANGED <<pc, numThreads, memory, slot, handle>>

RoutineEnds ==
  /\ pc = "run" /\ index[0] # Unknown
  /\ pc' = "join"
  /\ UNCHANGED <<numThreads, memory, slot, handle, index>>

(* pthread_join, by the handle in the array; the handle may be used again. *)
Join(j) ==
  /\ pc = "join" /\ j \in DOMAIN handle /\ j > 0
  /\ \A k \in DOMAIN handle : k > 0 => j <= k
  /\ slot[j] = handle[j] /\ index[j] # Unknown
  /\ handle' = [t \in DOMAIN handle \ {j} |-> handle[t]]
  /\ UNCHANGED <<pc, numThreads, memory, slot, index>>

AllJoined ==
  /\ pc = "join" /\ DOMAIN handle = {0}
  /\ pc' = "destroy"
  /\ UNCHANGED <<numThreads, memory, slot, handle, index>>

THREAD_UTILS_DestroyThreads ==
  /\ pc = "destroy" /\ pc' = "idle"
  /\ memory' = "freed"
  /\ UNCHANGED <<numThreads, slot, handle, index>>

-----------------------------------------------------------------------------
Next ==
  \/ THREAD_UTILS_SetNumThreads \/ THREAD_UTILS_CreateThreads
  \/ \E j \in Children : StartThread(j) \/ Join(j)
  \/ RunInMain
  \/ \E t \in Threads : LookUp(t)
  \/ RoutineEnds \/ AllJoined
  \/ THREAD_UTILS_DestroyThreads

Spec == Init /\ [][Next]_vars

-----------------------------------------------------------------------------
LookedUp == {t \in DOMAIN index : index[t] # Unknown}

(* A thread gets its own index or, if what the first entry points to       *)
(* happens to be its handle, 0; never that of another child, whatever the  *)
(* entries of threads not started yet hold.  The main thread is always 0,  *)
(* although its entry is not its own any more.                             *)
OwnIndexOrZero == \A t \in LookedUp : index[t] \in {0, t}

(* The array is not freed before the threads that look into it are joined. *)
ArrayOutlivesThreads == memory = "live" \/ DOMAIN handle = {0}

(* The types, above all that no two running threads share a handle, and    *)
(* what holds of the look-ups.                                             *)
IndexInv == TypeOK /\ OwnIndexOrZero /\ ArrayOutlivesThreads

=============================================================================
