------------------------- MODULE TransactionalRetry --------------------------
(***************************************************************************)
(* Transactions_Test of TestTSX.c: threads sum the values of their ranges. *)
(* In Thread_FuncWithTM each value is calculated twice in a hardware       *)
(* transaction, which a soft error aborts; the value is tried again, and   *)
(* after too many aborts, or when the hardware sees no sense in it, it is  *)
(* calculated without a transaction.  Thread_Func does without from the    *)
(* start.                                                                  *)
(*                                                                         *)
(* A right value is 1, a wrong one 2; errors says which values are going   *)
(* to be wrong and is drawn again by rand() whenever a transaction failed. *)
(* A transaction is one step with what follows it in its iteration: i,     *)
(* retriedTimes and result are the thread's own, and no two threads use    *)
(* the same entry of errors.                                               *)
(***************************************************************************)
EXTENDS TsxTestParameters, FiniteSets

VARIABLES
  usingTM,
  errors,
  i, retriedTimes, result,   \* per thread; result becomes results[threadIndex]
  reported,                  \* the iterations whose error was printed
  added, finalResult         \* how many results are added, and their sum

sum == <<added, finalResult>>
vars == <<usingTM, errors, i, retriedTimes, result, reported, sum>>

Threads == 0 .. NumThreads - 1
ValueIdx == 0 .. NumValues - 1

StartIndex(t) == t * (NumValues \div NumThreads)

\* A bug that leaves the remainder of the division to nobody.
EndIndex_NoRemainder(t) == StartIndex(t) + NumValues \div NumThreads

EndIndex(t) ==
  StartIndex(t) + NumValues \div NumThreads
    + (IF t = NumThreads - 1 THEN NumValues % NumThreads ELSE 0)

TypeOK ==
  /\ usingTM \in BOOLEAN
  /\ errors \in [ValueIdx -> BOOLEAN]
  /\ \A t \in Threads : i[t] \in StartIndex(t) .. EndIndex(t)
  /\ retriedTimes \in [Threads -> 0 .. MaxRetries]
  /\ result \in [Threads -> 0 .. 2 * NumValues]
  /\ reported \subseteq ValueIdx
  /\ added \in 0 .. NumThreads /\ finalResult \in 0 .. 2 * NumValues

Init ==
  /\ usingTM \in BOOLEAN
  /\ errors \in [ValueIdx -> BOOLEAN]
  /\ i = [t \in Threads |-> StartIndex(t)]
  /\ retriedTimes = [t \in Threads |-> 0]
  /\ result = [t \in Threads |-> 0]
  /\ reported = {}
  /\ added = 0 /\ finalResult = 0

Running(t) == i[t] < EndIndex(t)

Value(error) == IF error THEN 2 ELSE 1

(* Add a value and go on to the next one.                                  *)
CountValue(t, value) ==
  /\ result' = [result EXCEPT ![t] = @ + value]
  /\ i' = [i EXCEPT ![t] = @ + 1]
  /\ retriedTimes' = [retriedTimes EXCEPT ![t] = 0]

(* The error of the iteration is drawn again.                              *)
Redraw(t, error) == errors' = [errors EXCEPT ![i[t]] = error]

-----------------------------------------------------------------------------
\* A bug that commits a transaction whose values are wrong.
Commit_Unchecked(t) ==
  /\ usingTM /\ Running(t)
  /\ CountValue(t, Value(errors[i[t]]))
  /\ UNCHANGED <<usingTM, errors, reported, sum>>

Commit(t) ==
  /\ usingTM /\ Running(t)
  /\ ~errors[i[t]]
  /\ CountValue(t, Value(FALSE))
  /\ UNCHANGED <<usingTM, errors, reported, sum>>

\* A bug that forgets to count the retries.
RetryAfterError_NotCounted(t) ==
  /\ usingTM /\ Running(t)
  /\ errors[i[t]]
  /\ \E error \in BOOLEAN : Redraw(t, error)
  /\ UNCHANGED <<usingTM, i, retriedTimes, result, reported, sum>>

(* _xabort(0xff), and one more try.                                        *)
RetryAfterError(t) ==
  /\ usingTM /\ Running(t)
  /\ errors[i[t]]
  /\ retriedTimes[t] < MaxRetries
  /\ retriedTimes' = [retriedTimes EXCEPT ![t] = @ + 1]
  /\ \E error \in BOOLEAN : Redraw(t, error)
  /\ UNCHANGED <<usingTM, i, result, reported, sum>>

(* The hardware aborts the transaction and says that a retry may succeed.  *)
RetryAsHinted(t) ==
  /\ usingTM /\ Running(t)
  /\ \E error \in BOOLEAN : Redraw(t, error)
  /\ UNCHANGED <<usingTM, i, retriedTimes, result, reported, sum>>

(* The non-transactional execution; its error is only reported.            *)
FallBack(t) ==
  \E error \in BOOLEAN :
    /\ Redraw(t, error)
    /\ CountValue(t, Value(error))
    /\ reported' = IF error THEN reported \cup {i[t]} ELSE reported
    /\ UNCHANGED <<usingTM, sum>>

(* One explicit abort too many.                                            *)
GiveUp(t) ==
  /\ usingTM /\ Running(t)
  /\ errors[i[t]]
  /\ retriedTimes[t] >= MaxRetries
  /\ FallBack(t)

(* The hardware aborts the transaction, without the hint.                  *)
HardwareAbort(t) ==
  /\ usingTM /\ Running(t)
  /\ FallBack(t)

(* Thread_Func.                                                            *)
PlainStep(t) ==
  /\ ~usingTM /\ Running(t)
  /\ CountValue(t, Value(errors[i[t]]))
  /\ UNCHANGED <<usingTM, errors, reported, sum>>

(* All threads are joined; add the results, one after the other.           *)
Collect ==
  /\ \A t \in Threads : ~Running(t)
  /\ added < NumThreads
  /\ finalResult' = finalResult + result[added]
  /\ added' = added + 1
  /\ UNCHANGED <<usingTM, errors, i, retriedTimes, result, reported>>

(* What a try comes to if the hardware lets the transaction run.           *)
Try(t) == Commit(t) \/ RetryAfterError(t) \/ GiveUp(t) \/ PlainStep(t)

ThreadStep(t) == Try(t) \/ RetryAsHinted(t) \/ HardwareAbort(t)

Collected == added = NumThreads

Ended == Collected /\ UNCHANGED vars

Next == (\E t \in Threads : ThreadStep(t)) \/ Collect \/ Ended

(* The operating system runs every thread, and the hardware does not abort *)
(* all the transactions of a thread from some time on with a hint to retry:*)
(* the code would follow it for ever.                                      *)
Fairness == (\A t \in Threads : WF_vars(Try(t))) /\ WF_vars(Collect)

Spec == Init /\ [][Next]_vars /\ Fairness

-----------------------------------------------------------------------------
Passed == finalResult = NumValues

(* With transactions a result is off by exactly the errors that were       *)
(* printed: no retry adds a value twice or drops it, and no wrong value    *)
(* leaves a transaction.                                                   *)
OffByReportedErrors ==
  usingTM =>
    \A t \in Threads :
      result[t] = i[t] - StartIndex(t)
                    + Cardinality({k \in reported : StartIndex(t) <= k /\ k < i[t]})

(* The types, above all that the retries stay within their limit, and      *)
(* OffByReportedErrors.                                                    *)
RetryInv == TypeOK /\ OffByReportedErrors

(* The test passes if and only if no error was printed: the ranges cover   *)
(* every value once, and errors do not make up for each other.             *)
PassesIffNothingReported ==
  usingTM /\ Collected => (Passed <=> reported = {})

(* The test ends: the retries after soft errors and those that the         *)
(* hardware asks for do not keep a thread at one value for ever.           *)
TestEnds == <>Collected

=============================================================================
