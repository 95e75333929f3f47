-------------------------- MODULE TsxTestParameters ---------------------------
(* The constants of the tests in TestTSX.c, which share NUM_VALUES.        *)
EXTENDS Integers

CONSTANTS
  NumValues,    \* NUM_VALUES
  NumThreads,   \* THREAD_UTILS_NUM_THREADS of the tests that set it
  ErrorsAt,     \* the iterations at which the replica may inject its error;
                \* one that is never reached for none
  MaxRetries,   \* how many explicit aborts are retried, 5 in the code
  NTimes,       \* how often Atomicity_Test executes
  IntMax        \* INT_MAX; long is wide enough for every count

ASSUME TsxTestAssumption ==
  /\ {NumValues, NumThreads, NTimes} \subseteq Nat \ {0}
  /\ MaxRetries \in Nat /\ IntMax \in Nat
  /\ ErrorsAt \subseteq Nat

=============================================================================
