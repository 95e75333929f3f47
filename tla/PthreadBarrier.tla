---- MODULE PthreadBarrier ----
(***************************************************************************)
(* pthread_barrier_t, as the tests use it: waiting is the set of threads   *)
(* inside pthread_barrier_wait.  A thread that arrived goes on as soon as  *)
(* it is not in the set any more.                                          *)
(***************************************************************************)
EXTENDS Naturals, FiniteSets

(* Thread t arrives at a barrier for that many parties; the last one that  *)
(* comes lets all of them go.                                              *)
Arrive(waiting, t, parties) ==
  IF Cardinality(waiting) + 1 = parties THEN {} ELSE waiting \cup {t}

====
