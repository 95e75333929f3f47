---------------------------- MODULE QueueStreams -----------------------------
(***************************************************************************)
(* The replicated streams of FirstTestHyperThreads.c: producer and         *)
(* consumer calculate the same values, and the consumer compares, in the   *)
(* rhythm that checkFrequency gives: every value, the values of a whole    *)
(* group of MODULO one after the other, or one exclusive or for a group.   *)
(* The functions for SimpleQueue and for SectionQueue "are the same except *)
(* the queue they use"; here the queue is the channel that both implement. *)
(*                                                                         *)
(* A long is the set of its one bits, so that the exclusive or is the      *)
(* symmetric difference, and a soft error, which strikes CalcFunction in   *)
(* either thread, flips bits.  A result is the sequence of its summands.   *)
(***************************************************************************)
EXTENDS Integers, Sequences, FiniteSets

CONSTANTS
  NumValues,       \* NUM_VALUES
  MODULO,
  Capacity,        \* what the queue holds at most
  Bits,
  CalcFunction,    \* CalcFunction[i]: the right value of iteration i
  Flips,           \* the bits that one soft error may flip
  MaxFaults        \* bound on the number of soft errors

Values == SUBSET Bits
Iterations == 0 .. NumValues - 1

(* A last group that is not full would be neither sent nor compared: MODULO*)
(* divides NUM_VALUES.                                                     *)
ASSUME StreamAssumption ==
  /\ MODULO \in Nat \ {0}
  /\ NumValues \in Nat /\ NumValues % MODULO = 0
  /\ Capacity \in Nat \ {0}
  /\ CalcFunction \in [Iterations -> Values]
  /\ Flips \subseteq Values \ {{}}
  /\ MaxFaults \in Nat

VARIABLES
  checkFrequency,
  queue,
  iP, auxP, outP, resultP,   \* the producer: i, the group so far, what is to
                             \* be sent of the last group, result
  iC, auxC, dueC, resultC,   \* the consumer: dueC is what is to be compared
  exited,                    \* exit(1) was called
  faults                     \* the number of soft errors so far

producerVars == <<iP, auxP, outP, resultP>>
consumerVars == <<iC, auxC, dueC, resultC>>
vars == <<checkFrequency, queue, producerVars, consumerVars, exited, faults>>

TypeOK ==
  /\ checkFrequency \in {"everyTime", "eachModuloTimes", "Encoding"}
  /\ queue \in Seq(Values) /\ Len(queue) <= Capacity
  /\ iP \in 0 .. NumValues /\ iC \in 0 .. NumValues
  /\ {auxP, outP, resultP, auxC, dueC, resultC} \subseteq Seq(Values)
  /\ \A group \in {auxP, outP, auxC, dueC} : Len(group) <= MODULO
  /\ exited \in BOOLEAN
  /\ faults \in 0 .. MaxFaults

Init ==
  /\ checkFrequency \in {"everyTime", "eachModuloTimes", "Encoding"}
  /\ queue = <<>>
  /\ iP = 0 /\ auxP = <<>> /\ outP = <<>> /\ resultP = <<>>
  /\ iC = 0 /\ auxC = <<>> /\ dueC = <<>> /\ resultC = <<>>
  /\ exited = FALSE
  /\ faults = 0

Xor(a, b) == (a \ b) \cup (b \ a)

(* The exclusive or of the values of a group has the bits that an odd      *)
(* number of them has.                                                     *)
XorOf(group) ==
  {b \in Bits : Cardinality({k \in DOMAIN group : b \in group[k]}) % 2 = 1}

(* How many values are checked together.                                   *)
GroupSize == IF checkFrequency = "everyTime" THEN 1 ELSE MODULO

\* A bug that encodes only the last value of a group.
Message_LastOnly(group) ==
  IF checkFrequency = "Encoding" THEN <<group[Len(group)]>> ELSE group

(* What goes through the queue for a group.                                *)
Message(group) ==
  IF checkFrequency = "Encoding" THEN <<XorOf(group)>> ELSE group

(* The value a thread calculates in iteration i.                           *)
Calculates(i, value) ==
  \E flip \in Flips \cup {{}} :
    /\ flip # {} => faults < MaxFaults
    /\ faults' = IF flip = {} THEN faults ELSE faults + 1
    /\ value = Xor(CalcFunction[i], flip)

-----------------------------------------------------------------------------
\* A bug in the limit of a group: residue++ == MODULO.
ProducerCalculate_LateLimit ==
  /\ outP = <<>>
  /\ iP < NumValues
  /\ \E value \in Values :
       LET group == Append(auxP, value) IN
       /\ Calculates(iP, value)
       /\ resultP' = Append(resultP, value)
       /\ IF Len(group) = GroupSize + 1
          THEN outP' = Message(group) /\ auxP' = <<>>
          ELSE auxP' = group /\ UNCHANGED outP
  /\ iP' = iP + 1
  /\ UNCHANGED <<checkFrequency, queue, consumerVars, exited>>

ProducerCalculate ==
  /\ outP = <<>>
  /\ iP < NumValues
  /\ \E value \in Values :
       LET group == Append(auxP, value) IN
       /\ Calculates(iP, value)
       /\ resultP' = Append(resultP, value)
       /\ IF Len(group) = GroupSize
          THEN outP' = Message(group) /\ auxP' = <<>>
          ELSE auxP' = group /\ UNCHANGED outP
  /\ iP' = iP + 1
  /\ UNCHANGED <<checkFrequency, queue, consumerVars, exited>>

ProducerEnqueue ==
  /\ outP # <<>>
  /\ Len(queue) < Capacity
  /\ queue' = Append(queue, Head(outP))
  /\ outP' = Tail(outP)
  /\ UNCHANGED <<checkFrequency, iP, auxP, resultP, consumerVars, exited,
                 faults>>

-----------------------------------------------------------------------------
(* With the encoding the consumer adds its own value, before it is checked.*)
ConsumerCalculate ==
  /\ dueC = <<>>
  /\ iC < NumValues
  /\ \E value \in Values :
       LET group == Append(auxC, value) IN
       /\ Calculates(iC, value)
       /\ resultC' = IF checkFrequency = "Encoding" THEN Append(resultC, value)
                                                    ELSE resultC
       /\ IF (iC + 1) % GroupSize = 0
          THEN dueC' = Message(group) /\ auxC' = <<>>
          ELSE auxC' = group /\ UNCHANGED dueC
  /\ iC' = iC + 1
  /\ UNCHANGED <<checkFrequency, queue, producerVars, exited>>

\* A bug that does not look at the value it received.
ConsumerDequeue_Accept ==
  /\ dueC # <<>>
  /\ queue # <<>>
  /\ queue' = Tail(queue)
  /\ dueC' = Tail(dueC)
  /\ resultC' = IF checkFrequency = "Encoding"
                THEN resultC ELSE Append(resultC, Head(queue))
  /\ UNCHANGED <<checkFrequency, producerVars, iC, auxC, exited, faults>>

(* Without it the consumer adds the value it received and found equal.     *)
ConsumerDequeue ==
  /\ dueC # <<>>
  /\ queue # <<>>
  /\ queue' = Tail(queue)
  /\ IF Head(dueC) # Head(queue)
     THEN exited' = TRUE /\ UNCHANGED <<dueC, resultC>>
     ELSE /\ dueC' = Tail(dueC)
          /\ resultC' = IF checkFrequency = "Encoding"
                        THEN resultC ELSE Append(resultC, Head(queue))
          /\ UNCHANGED exited
  /\ UNCHANGED <<checkFrequency, producerVars, iC, auxC, faults>>

Producer == ~exited /\ (ProducerCalculate \/ ProducerEnqueue)
Consumer == ~exited /\ (ConsumerCalculate \/ ConsumerDequeue)

AllDone ==
  iP = NumValues /\ outP = <<>> /\ iC = NumValues /\ dueC = <<>>

Ended == (exited \/ AllDone) /\ UNCHANGED vars

Next == Producer \/ Consumer \/ Ended

(* The operating system runs both threads.                                 *)
Fairness == WF_vars(Producer) /\ WF_vars(Consumer)

Spec == Init /\ [][Next]_vars /\ Fairness

-----------------------------------------------------------------------------
(* The consumer announces an error only when one happened: both threads    *)
(* make their groups of the same iterations.                               *)
NoFalseAlarm == exited => faults > 0

(* One soft error, whichever value it strikes and in whichever thread, is  *)
(* announced before both threads are done: every value is compared, and an *)
(* exclusive or does not lose the error of one value of its group.         *)
NoErrorMissed == AllDone /\ faults = 1 => exited

(* No group outgrows MODULO nor the queue its capacity, and the alarm means*)
(* a soft error, as one soft error means the alarm.                        *)
StreamInv == TypeOK /\ NoFalseAlarm /\ NoErrorMissed

(* How many values the consumer compared.                                  *)
Compared ==
  IF checkFrequency = "Encoding"
  THEN iC - Len(auxC) - (IF dueC = <<>> THEN 0 ELSE MODULO)
  ELSE iC - Len(auxC) - Len(dueC)

(* One soft error never gets past its comparison: the values that the      *)
(* consumer compared and added are right.                                  *)
ComparedIsRight ==
  ~exited /\ faults <= 1 =>
    \A i \in 0 .. Compared - 1 : resultC[i + 1] = CalcFunction[i]

(* Executions that were not abandoned end with equal results, even if the  *)
(* same error struck both threads.  The encoding promises less: two errors *)
(* in one group of the producer may cancel.                                *)
ResultsAgree ==
  AllDone /\ ~exited /\ (checkFrequency = "Encoding" => faults <= 1) =>
    resultP = resultC

(* Both threads finish, or the alarm ends them: no thread waits for a      *)
(* value that the other does not send.                                     *)
Terminates == <>(exited \/ AllDone)

=============================================================================
