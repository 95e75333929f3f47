------------------------- MODULE ThreadTestParameters -------------------------
(* The constants of TestAtomicOps.c, TestCoreAffinity.c and ThreadUtils.c. *)
EXTENDS Integers, FiniteSets

CONSTANTS
  NumValues,      \* NUM_VALUES
  MaxAborts,      \* bound on the aborts of a transaction that nothing forces
  NumResults,     \* how many different results Affinity_CalcFunc has
  MaxCoreFaults,  \* how many soft errors strike a core at most
  MaxThreads,     \* the largest number of threads that is tried
  Handles         \* the values of pthread_t

ASSUME ThreadTestAssumption ==
  /\ {NumValues, NumResults, MaxThreads} \subseteq Nat \ {0}
  /\ MaxAborts \in Nat /\ MaxCoreFaults \in Nat
  /\ IsFiniteSet(Handles) /\ Cardinality(Handles) >= MaxThreads

=============================================================================
