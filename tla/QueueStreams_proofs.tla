------------------------- MODULE QueueStreams_proofs -------------------------
(***************************************************************************)
(* The streams compare what they should, whatever the number of values,    *)
(* the size of a group and of the queue, and whichever of the three        *)
(* rhythms: what is on the way from the producer's history to the          *)
(* consumer's comparison is that history, encoded group by group, and as   *)
(* long as there is one soft error at most, it is in the part that is not  *)
(* compared yet.                                                           *)
(***************************************************************************)
EXTENDS QueueStreams, FiniteSetTheorems, SequenceTheorems, TLAPS

(* How many values a message stands for.                                   *)
Weight == IF checkFrequency = "Encoding" THEN MODULO ELSE 1

(* A thread starts a group when the last one is made up; what is made of   *)
(* it is sent, or compared, before the next one starts.                    *)
GroupInv ==
  /\ Len(auxP) < GroupSize /\ (outP # <<>> => auxP = <<>>)
  /\ Len(auxC) < GroupSize /\ (dueC # <<>> => auxC = <<>>)
  /\ \E k \in Nat : iP = k * GroupSize + Len(auxP)
  /\ \E k \in Nat : iC = k * GroupSize + Len(auxC)
  /\ checkFrequency = "Encoding" => Len(outP) <= 1 /\ Len(dueC) <= 1

(* What was calculated was compared, is under way or in the group.         *)
CountInv ==
  /\ Len(resultP) = iP
  /\ Compared \in Nat
  /\ Len(resultC) = IF checkFrequency = "Encoding" THEN iC ELSE Compared
  /\ ~exited =>
       iP = Compared + (Len(queue) + Len(outP)) * Weight + Len(auxP)

(* The values of a result from position p on, as long as a group.          *)
GroupOf(result, p) == [k \in 1 .. MODULO |-> result[p + k]]

(* The k-th message after those that were compared.                        *)
MessageAfter(k) ==
  IF checkFrequency = "Encoding"
  THEN XorOf(GroupOf(resultP, Compared + (k - 1) * MODULO))
  ELSE resultP[Compared + k]

ProducerInv ==
  /\ \A k \in 1 .. Len(auxP) : auxP[k] = resultP[iP - Len(auxP) + k]
  /\ ~exited =>
       /\ \A k \in 1 .. Len(queue) : queue[k] = MessageAfter(k)
       /\ \A k \in 1 .. Len(outP) : outP[k] = MessageAfter(Len(queue) + k)

(* With the encoding the consumer's result is made of its own values,      *)
(* without it of the producer's.                                           *)
ConsumerInv ==
  IF checkFrequency = "Encoding"
  THEN /\ \A k \in 1 .. Len(auxC) : auxC[k] = resultC[iC - Len(auxC) + k]
       /\ dueC # <<>> => dueC[1] = XorOf(GroupOf(resultC, Compared))
  ELSE ~exited => \A k \in 1 .. Len(resultC) : resultC[k] = resultP[k]

(* The consumer's own value of an iteration that is not compared yet.      *)
OwnValue(i) ==
  IF checkFrequency = "Encoding" THEN resultC[i + 1]
  ELSE IF i < Compared + Len(dueC) THEN dueC[i - Compared + 1]
  ELSE auxC[i - Compared - Len(dueC) + 1]

(* The producer is wrong in iteration p at most, the consumer in c.        *)
ProducerWrong(p) ==
  \A i \in Compared .. iP - 1 : resultP[i + 1] = CalcFunction[i] <=> i # p
ConsumerWrong(c) ==
  \A i \in Compared .. iC - 1 : OwnValue(i) = CalcFunction[i] <=> i # c

(* Where the one soft error is before it is compared, if there was one.    *)
ErrorAt(p, c) ==
  /\ faults = 0 => p = -1 /\ c = -1
  /\ faults = 1 => (p = -1 /\ c >= Compared) \/ (c = -1 /\ p >= Compared)
  /\ ProducerWrong(p) /\ ConsumerWrong(c)

ErrorInv ==
  ~exited /\ faults <= 1 =>
    /\ \A i \in 0 .. Compared - 1 :
         resultC[i + 1] = CalcFunction[i] /\ resultP[i + 1] = CalcFunction[i]
    /\ \E p \in -1 .. iP - 1, c \in -1 .. iC - 1 : ErrorAt(p, c)

StreamIInv ==
  /\ TypeOK /\ NoFalseAlarm
  /\ GroupInv /\ CountInv /\ ProducerInv /\ ConsumerInv /\ ErrorInv

-----------------------------------------------------------------------------
(* Which bits an exclusive or has, and that it is one.                     *)
LEMMA XorOfType ==
  ASSUME NEW group
  PROVE  XorOf(group) \in Values
BY DEF XorOf, Values

LEMMA XorType ==
  ASSUME NEW a \in Values, NEW b \in Values
  PROVE  Xor(a, b) \in Values /\ (Xor(a, b) = a <=> b = {})
BY DEF Xor, Values

(* The positions of a group of n values that have a bit.                   *)
Having(group, n, b) == {k \in 1 .. n : b \in group[k]}

(* There are finitely many.                                                *)
LEMMA HavingFinite ==
  ASSUME NEW group, NEW n \in Nat, NEW b
  PROVE  /\ IsFiniteSet(Having(group, n, b))
         /\ Cardinality(Having(group, n, b)) \in Nat
<1>1. IsFiniteSet(1 .. n)
  BY FS_Interval
<1>2. Having(group, n, b) \in SUBSET (1 .. n)
  BY DEF Having
<1>3. IsFiniteSet(Having(group, n, b))
  BY <1>1, <1>2, FS_Subset
<1> QED  BY <1>3, FS_CardinalityType

(* One number more changes the parity.                                     *)
LEMMA Parity ==
  ASSUME NEW n \in Nat
  PROVE  n % 2 = 1 <=> ~((n + 1) % 2 = 1)
OBVIOUS

(* The exclusive or is what the loops compute: xorMine starts at 0, and    *)
(* xorMine ^= calcValue takes it from a group to the group with one value  *)
(* more.                                                                   *)
THEOREM XorOfIsTheLoops ==
  /\ XorOf(<<>>) = {}
  /\ \A group \in Seq(Values), value \in Values :
       XorOf(Append(group, value)) = Xor(XorOf(group), value)
<1>1. XorOf(<<>>) = {}
  <2> SUFFICES ASSUME NEW b \in XorOf(<<>>)
               PROVE  FALSE
    OBVIOUS
  <2>1. {k \in DOMAIN <<>> : b \in <<>>[k]} = {}
    OBVIOUS
  <2>2. Cardinality({k \in DOMAIN <<>> : b \in <<>>[k]}) = 0
    BY <2>1, FS_EmptySet
  <2>3. Cardinality({k \in DOMAIN <<>> : b \in <<>>[k]}) % 2 = 1
    BY DEF XorOf
  <2> QED  BY <2>2, <2>3
<1>2. ASSUME NEW group \in Seq(Values), NEW value \in Values
      PROVE  XorOf(Append(group, value)) = Xor(XorOf(group), value)
  <2> DEFINE n == Len(group)
             more == Append(group, value)
  <2>1. /\ n \in Nat /\ DOMAIN group = 1 .. n /\ more \in Seq(Values)
        /\ Len(more) = n + 1 /\ DOMAIN more = 1 .. n + 1
        /\ (\A k \in 1 .. n : more[k] = group[k]) /\ more[n + 1] = value
    BY LenProperties, AppendProperties
  <2> SUFFICES ASSUME NEW b \in Bits
               PROVE  b \in XorOf(more) <=> b \in Xor(XorOf(group), value)
    <3>1. XorOf(more) \subseteq Bits /\ Xor(XorOf(group), value) \subseteq Bits
      BY XorOfType, XorType DEF Values
    <3> QED  BY <3>1
  <2> HIDE DEF n, more
  <2> DEFINE H == Having(group, n, b)
             c == Cardinality(H)
  <2>2. IsFiniteSet(H) /\ c \in Nat
    BY <2>1, HavingFinite
  <2>3. /\ b \in XorOf(group) <=> c % 2 = 1
        /\ b \in XorOf(more) <=> Cardinality(Having(more, n + 1, b)) % 2 = 1
    BY <2>1 DEF XorOf, Having
  <2>4. Having(more, n + 1, b) = IF b \in value THEN H \cup {n + 1} ELSE H
    BY <2>1 DEF Having
  <2>5. n + 1 \notin H
    BY <2>1 DEF Having
  <2> HIDE DEF H
  <2>6. Cardinality(Having(more, n + 1, b)) = IF b \in value THEN c + 1 ELSE c
    BY <2>2, <2>4, <2>5, FS_AddElement
  <2>7. b \in XorOf(more) <=> IF b \in value THEN ~(c % 2 = 1) ELSE c % 2 = 1
    BY <2>2, <2>3, <2>6, Parity
  <2> QED  BY <2>3, <2>7 DEF Xor
<1> QED  BY <1>1, <1>2

(* Groups of n values that agree except in position p, and that differ     *)
(* exactly there.                                                          *)
AgreeBut(g, h, n, p)  == \A k \in 1 .. n : k # p => g[k] = h[k]
DifferOnly(g, h, n, p) == \A k \in 1 .. n : g[k] = h[k] <=> k # p

(* Groups that differ in one value have different encodings: the error of  *)
(* one value is not lost.                                                  *)
LEMMA OneErrorChangesXor ==
  ASSUME NEW n \in Nat, NEW g \in [1 .. n -> Values], NEW h \in [1 .. n -> Values],
         NEW p, AgreeBut(g, h, n, p), XorOf(g) = XorOf(h)
  PROVE  g = h
<1> SUFFICES ASSUME p \in 1 .. n, g[p] # h[p]
             PROVE  FALSE
  BY DEF AgreeBut
<1>1. PICK b \in Bits : ~(b \in g[p] <=> b \in h[p])
  BY DEF Values
<1> DEFINE G == Having(g, n, b)
           H == Having(h, n, b)
<1>2. /\ IsFiniteSet(G) /\ Cardinality(G) \in Nat
      /\ IsFiniteSet(H) /\ Cardinality(H) \in Nat
  BY HavingFinite
<1>3. Cardinality(G) % 2 = 1 <=> Cardinality(H) % 2 = 1
  <2>1. b \in XorOf(g) <=> Cardinality(G) % 2 = 1
    BY DEF XorOf, Having
  <2>2. b \in XorOf(h) <=> Cardinality(H) % 2 = 1
    BY DEF XorOf, Having
  <2> QED  BY <2>1, <2>2
<1>4. (G = H \cup {p} /\ p \notin H) \/ (H = G \cup {p} /\ p \notin G)
  BY <1>1 DEF Having, AgreeBut
<1> HIDE DEF G, H
<1>5. Cardinality(G) = Cardinality(H) + 1 \/ Cardinality(H) = Cardinality(G) + 1
  BY <1>2, <1>4, FS_AddElement
<1> QED  BY <1>2, <1>3, <1>5, Parity

-----------------------------------------------------------------------------
(* How long groups and messages are.                                       *)
LEMMA GroupSizeType ==
  ASSUME TypeOK
  PROVE  /\ MODULO \in Nat \ {0}
         /\ GroupSize \in Nat \ {0} /\ GroupSize <= MODULO
         /\ Weight \in Nat \ {0}
         /\ checkFrequency = "Encoding" => GroupSize = MODULO /\ Weight = MODULO
         /\ checkFrequency # "Encoding" => Weight = 1
<1>1. MODULO \in Nat \ {0}
  BY StreamAssumption
<1> QED  BY <1>1 DEF GroupSize, Weight

LEMMA MessageType ==
  ASSUME TypeOK, NEW group \in Seq(Values), Len(group) = GroupSize
  PROVE  /\ Message(group) \in Seq(Values) /\ Message(group) # <<>>
         /\ Len(Message(group)) <= MODULO
         /\ IF checkFrequency = "Encoding"
            THEN Len(Message(group)) = 1 /\ Message(group)[1] = XorOf(group)
            ELSE Message(group) = group
<1>1. GroupSize \in Nat \ {0} /\ GroupSize <= MODULO /\ MODULO \in Nat \ {0}
  BY GroupSizeType
<1>2. CASE checkFrequency = "Encoding"
  <2>1. Message(group) = <<XorOf(group)>>
    BY <1>2 DEF Message
  <2>2. XorOf(group) \in Values
    BY XorOfType
  <2> HIDE DEF XorOf, Message
  <2> QED  BY <1>1, <1>2, <2>1, <2>2
<1>3. CASE checkFrequency # "Encoding"
  <2>1. Message(group) = group
    BY <1>3 DEF Message
  <2> QED  BY <1>1, <1>3, <2>1, EmptySeq
<1> QED  BY <1>2, <1>3

(* Multiples of a number are ordered as their factors.                     *)
LEMMA MulMono ==
  ASSUME NEW m \in Nat, NEW a \in Int, NEW b \in Int, a <= b
  PROVE  a * m <= b * m
OBVIOUS

LEMMA MulSucc ==
  ASSUME NEW m \in Nat, NEW k \in Int
  PROVE  (k + 1) * m = k * m + m
OBVIOUS

(* What the invariant says of the numbers and of the lengths.              *)
LEMMA StreamTypes ==
  ASSUME StreamIInv
  PROVE  /\ TypeOK
         /\ iP \in Nat /\ iC \in Nat /\ Compared \in Nat /\ NumValues \in Nat
         /\ iP <= NumValues /\ iC <= NumValues
         /\ Len(auxP) \in Nat /\ Len(outP) \in Nat /\ Len(resultP) \in Nat
         /\ Len(auxC) \in Nat /\ Len(dueC) \in Nat /\ Len(resultC) \in Nat
         /\ Len(queue) \in Nat
         /\ auxP \in Seq(Values) /\ outP \in Seq(Values) /\ resultP \in Seq(Values)
         /\ auxC \in Seq(Values) /\ dueC \in Seq(Values) /\ resultC \in Seq(Values)
         /\ queue \in Seq(Values)
         /\ faults \in Nat
<1>1. TypeOK /\ Compared \in Nat
  BY DEF StreamIInv, CountInv
<1>2. NumValues \in Nat /\ MaxFaults \in Nat
  BY StreamAssumption
<1>3. /\ auxP \in Seq(Values) /\ outP \in Seq(Values) /\ resultP \in Seq(Values)
      /\ auxC \in Seq(Values) /\ dueC \in Seq(Values) /\ resultC \in Seq(Values)
      /\ queue \in Seq(Values)
  BY <1>1 DEF TypeOK
<1>4. /\ iP \in 0 .. NumValues /\ iC \in 0 .. NumValues /\ faults \in 0 .. MaxFaults
  BY <1>1 DEF TypeOK
<1> QED  BY <1>1, <1>2, <1>3, <1>4, LenProperties

(* Where the comparison stands.                                            *)
LEMMA ComparedIs ==
  ASSUME StreamIInv
  PROVE  iC = Compared + Len(dueC) * Weight + Len(auxC)
<1>1. /\ iC \in Nat /\ Len(auxC) \in Nat /\ Len(dueC) \in Nat /\ dueC \in Seq(Values)
      /\ Compared \in Nat /\ TypeOK
  BY StreamTypes
<1>2. MODULO \in Nat \ {0}
  BY <1>1, GroupSizeType
<1>3. dueC = <<>> => Len(dueC) = 0
  OBVIOUS
<1>4. dueC # <<>> => Len(dueC) > 0
  BY <1>1, EmptySeq
<1>5. CASE checkFrequency = "Encoding"
  <2>1. Weight = MODULO /\ Len(dueC) <= 1
    BY <1>5 DEF Weight, StreamIInv, GroupInv
  <2>2. Len(dueC) * Weight = IF dueC = <<>> THEN 0 ELSE MODULO
    BY <1>1, <1>2, <1>3, <1>4, <2>1
  <2> QED  BY <1>1, <1>2, <1>5, <2>2 DEF Compared
<1>6. CASE checkFrequency # "Encoding"
  BY <1>1, <1>6 DEF Compared, Weight
<1> QED  BY <1>5, <1>6

(* A message is made of values the producer will not change any more.      *)
LEMMA MessageKept ==
  ASSUME StreamIInv, checkFrequency' = checkFrequency, Compared' = Compared,
         \A i \in 1 .. iP : resultP'[i] = resultP[i],
         NEW k \in Nat \ {0}, Compared + k * Weight <= iP
  PROVE  MessageAfter(k)' = MessageAfter(k)
<1>1. MODULO \in Nat \ {0} /\ Compared \in Nat /\ iP \in Nat
  BY StreamTypes, GroupSizeType
<1>2. CASE checkFrequency = "Encoding"
  <2> DEFINE p == Compared + (k - 1) * MODULO
  <2>1. (k - 1) * MODULO \in Nat /\ p \in Nat /\ p + MODULO = Compared + k * MODULO
    BY <1>1
  <2>2. p + MODULO <= iP
    BY <1>2, <2>1 DEF Weight
  <2> HIDE DEF p
  <2>3. GroupOf(resultP', p) = GroupOf(resultP, p)
    BY <1>1, <2>1, <2>2 DEF GroupOf
  <2>4. MessageAfter(k) = XorOf(GroupOf(resultP, p))
    BY <1>2 DEF MessageAfter, p
  <2>5. MessageAfter(k)' = XorOf(GroupOf(resultP', p))
    BY <1>2 DEF MessageAfter, p, GroupOf
  <2> QED  BY <2>3, <2>4, <2>5
<1>3. CASE checkFrequency # "Encoding"
  <2>1. Compared + k \in 1 .. iP
    BY <1>1, <1>3 DEF Weight
  <2> QED  BY <1>3, <2>1 DEF MessageAfter
<1> QED  BY <1>2, <1>3

(* The invariant holds at first.                                           *)
LEMMA StreamInit == Init => StreamIInv
<1> SUFFICES ASSUME Init
             PROVE  StreamIInv
  OBVIOUS
<1> USE DEF Init
<1>1. MODULO \in Nat \ {0} /\ NumValues \in Nat /\ MaxFaults \in Nat /\ Capacity \in Nat
  BY StreamAssumption
<1>2. Compared = 0 /\ Len(<<>>) = 0
  <2>1. Len(<<>>) = 0
    BY EmptySeq
  <2>2. Compared = IF checkFrequency = "Encoding" THEN 0 - Len(<<>>) - 0
                                                  ELSE 0 - Len(<<>>) - Len(<<>>)
    BY Zenon DEF Compared
  <2>3. 0 - 0 - 0 = 0
    OBVIOUS
  <2> QED  BY <2>1, <2>2, <2>3, Zenon
<1>3. <<>> \in Seq(Values)
  BY EmptySeq
<1>4. TypeOK
  <2>1. 0 \in 0 .. NumValues /\ 0 \in 0 .. MaxFaults /\ 0 <= Capacity /\ 0 <= MODULO
    BY <1>1
  <2>2. {auxP, outP, resultP, auxC, dueC, resultC} = {<<>>}
    OBVIOUS
  <2>3. {auxP, outP, auxC, dueC} = {<<>>}
    OBVIOUS
  <2> QED  BY <1>2, <1>3, <2>1, <2>2, <2>3 DEF TypeOK
<1>5. GroupSize \in Nat \ {0} /\ Weight \in Nat
  BY <1>4, GroupSizeType
<1>6. NoFalseAlarm /\ CountInv
  BY <1>2, <1>5 DEF NoFalseAlarm, CountInv
<1>7. GroupInv
  <2>1. 0 = 0 * GroupSize + 0
    BY <1>5
  <2> QED  BY <1>2, <1>5, <2>1 DEF GroupInv
<1>8. ProducerInv /\ ConsumerInv
  BY <1>2 DEF ProducerInv, ConsumerInv
<1>9. ErrorInv
  <2>1. ErrorAt(-1, -1)
    BY <1>2 DEF ErrorAt, ProducerWrong, ConsumerWrong
  <2> QED  BY <1>2, <2>1 DEF ErrorInv
<1> QED  BY <1>4, <1>6, <1>7, <1>8, <1>9 DEF StreamIInv

-----------------------------------------------------------------------------
(* What a calculation is: the right value, or a wrong one and one soft     *)
(* error more.                                                             *)
LEMMA CalculatesIs ==
  ASSUME TypeOK, NEW i \in Iterations, NEW value, Calculates(i, value)
  PROVE  /\ value \in Values /\ faults' \in 0 .. MaxFaults
         /\ CalcFunction[i] \in Values
         /\ IF value = CalcFunction[i] THEN faults' = faults ELSE faults' = faults + 1
<1>1. PICK flip \in Flips \cup {{}} :
        /\ flip # {} => faults < MaxFaults
        /\ faults' = IF flip = {} THEN faults ELSE faults + 1
        /\ value = Xor(CalcFunction[i], flip)
  BY Zenon DEF Calculates
<1>2. CalcFunction[i] \in Values /\ flip \in Values
  <2>1. {} \in Values
    BY DEF Values
  <2> QED  BY <2>1, StreamAssumption
<1>3. value \in Values /\ (value = CalcFunction[i] <=> flip = {})
  BY <1>1, <1>2, XorType
<1>4. faults \in 0 .. MaxFaults /\ MaxFaults \in Nat
  BY StreamAssumption DEF TypeOK
<1>5. faults' \in 0 .. MaxFaults
  BY <1>1, <1>4
<1> QED  BY <1>1, <1>2, <1>3, <1>5

(* The producer calculates a value: with the last one of a group, what is  *)
(* to be sent is known.                                                    *)
LEMMA ProducerCalculateOK ==
  ASSUME StreamIInv, ProducerCalculate, ~exited
  PROVE  StreamIInv'
<1> DEFINE n == Len(auxP)
<1>1. /\ TypeOK /\ NoFalseAlarm /\ GroupInv /\ CountInv /\ ProducerInv /\ ConsumerInv
      /\ ErrorInv
  BY DEF StreamIInv
<1>2. /\ iP \in Nat /\ iC \in Nat /\ Compared \in Nat /\ NumValues \in Nat
      /\ n \in Nat /\ Len(outP) \in Nat /\ Len(resultP) \in Nat
      /\ Len(auxC) \in Nat /\ Len(dueC) \in Nat /\ Len(resultC) \in Nat
      /\ Len(queue) \in Nat /\ faults \in Nat /\ iC <= NumValues
      /\ auxP \in Seq(Values) /\ resultP \in Seq(Values)
  BY StreamTypes
<1>3. /\ GroupSize \in Nat \ {0} /\ GroupSize <= MODULO /\ MODULO \in Nat \ {0}
      /\ Weight \in Nat \ {0}
      /\ checkFrequency = "Encoding" => GroupSize = MODULO /\ Weight = MODULO
      /\ checkFrequency # "Encoding" => Weight = 1
  BY <1>1, GroupSizeType
<1>4. /\ outP = <<>> /\ iP < NumValues /\ iP' = iP + 1
      /\ checkFrequency' = checkFrequency /\ queue' = queue /\ iC' = iC /\ auxC' = auxC
      /\ dueC' = dueC /\ resultC' = resultC /\ exited' = exited
  BY DEF ProducerCalculate, consumerVars
<1>5. PICK value \in Values :
        /\ Calculates(iP, value)
        /\ resultP' = Append(resultP, value)
        /\ IF Len(Append(auxP, value)) = GroupSize
           THEN outP' = Message(Append(auxP, value)) /\ auxP' = <<>>
           ELSE auxP' = Append(auxP, value) /\ UNCHANGED outP
  BY Zenon DEF ProducerCalculate
<1> DEFINE group == Append(auxP, value)
<1>6. /\ group \in Seq(Values) /\ Len(group) = n + 1
      /\ (\A k \in 1 .. n : group[k] = auxP[k]) /\ group[n + 1] = value
      /\ resultP' \in Seq(Values) /\ Len(resultP') = iP + 1
      /\ (\A k \in 1 .. iP : resultP'[k] = resultP[k]) /\ resultP'[iP + 1] = value
  BY <1>1, <1>2, <1>5, AppendProperties DEF CountInv
<1> HIDE DEF group
<1>7. IF n + 1 = GroupSize THEN outP' = Message(group) /\ auxP' = <<>>
                           ELSE outP' = <<>> /\ auxP' = group
  BY <1>4, <1>5, <1>6 DEF group
<1>8. /\ n < GroupSize /\ Len(outP) = 0
      /\ iP = Compared + Len(queue) * Weight + n
  <2>1. n < GroupSize
    BY <1>1 DEF GroupInv
  <2>2. Len(outP) = 0
    BY <1>4, EmptySeq
  <2>3. iP = Compared + (Len(queue) + Len(outP)) * Weight + n
    BY <1>1, <1>2 DEF CountInv
  <2>4. Len(queue) + Len(outP) = Len(queue)
    BY <1>2, <2>2
  <2> QED  BY <2>1, <2>2, <2>3, <2>4
<1>9. /\ outP' \in Seq(Values) /\ auxP' \in Seq(Values)
      /\ Len(outP') \in Nat /\ Len(auxP') \in Nat
      /\ Len(outP') <= MODULO /\ Len(auxP') < GroupSize
      /\ outP' # <<>> => auxP' = <<>>
      /\ checkFrequency = "Encoding" => Len(outP') <= 1
      /\ Len(outP') * Weight + Len(auxP') = n + 1
  <2>1. <<>> \in Seq(Values) /\ Len(<<>>) = 0
    BY EmptySeq
  <2>2. CASE n + 1 = GroupSize
    <3>1. /\ outP' \in Seq(Values) /\ Len(outP') <= MODULO
          /\ IF checkFrequency = "Encoding" THEN Len(outP') = 1 ELSE Len(outP') = n + 1
      BY <1>1, <1>6, <1>7, <2>2, MessageType
    <3>2. Len(outP') * Weight = n + 1 /\ Len(outP') \in Nat
      <4>1. CASE checkFrequency = "Encoding"
        <5>1. Len(outP') = 1 /\ Weight = n + 1
          BY <1>3, <2>2, <3>1, <4>1
        <5> QED  BY <1>2, <5>1
      <4>2. CASE checkFrequency # "Encoding"
        <5>1. Len(outP') = n + 1 /\ Weight = 1
          BY <1>3, <3>1, <4>2
        <5> QED  BY <1>2, <5>1
      <4> QED  BY <4>1, <4>2
    <3>3. auxP' = <<>> /\ Len(auxP') = 0 /\ auxP' \in Seq(Values)
      BY <1>7, <2>1, <2>2
    <3>4. Len(outP') * Weight + Len(auxP') = n + 1
      BY <1>2, <3>2, <3>3
    <3>5. Len(auxP') < GroupSize
      BY <1>3, <3>3
    <3>6. Len(auxP') \in Nat /\ (checkFrequency = "Encoding" => Len(outP') <= 1)
      <4>1. 0 \in Nat /\ 1 <= 1
        OBVIOUS
      <4> QED  BY <3>1, <3>3, <4>1, Zenon
    <3> QED  BY <3>1, <3>2, <3>3, <3>4, <3>5, <3>6, Zenon
  <2>3. CASE n + 1 # GroupSize
    <3>1. outP' = <<>> /\ auxP' = group
      BY <1>7, <2>3
    <3>2. Len(auxP') = n + 1 /\ Len(outP') = 0 /\ Len(outP') * Weight = 0
      BY <1>3, <1>6, <2>1, <3>1
    <3> QED  BY <1>2, <1>3, <1>6, <1>8, <2>1, <2>3, <3>1, <3>2
  <2> QED  BY <2>2, <2>3
<1>10. /\ GroupSize' = GroupSize /\ Weight' = Weight /\ Compared' = Compared
  BY <1>4 DEF GroupSize, Weight, Compared
<1>11. iP \in Iterations /\ iP \in 0 .. NumValues - 1
  BY <1>2, <1>4 DEF Iterations
<1>12. /\ faults' \in 0 .. MaxFaults
       /\ IF value = CalcFunction[iP] THEN faults' = faults ELSE faults' = faults + 1
  BY <1>1, <1>5, <1>11, CalculatesIs
<1>13. TypeOK'
  <2>1. iP' \in 0 .. NumValues
    BY <1>2, <1>4
  <2>2. Len(auxP') <= MODULO
    BY <1>3, <1>9
  <2> QED  BY <1>1, <1>4, <1>6, <1>9, <1>12, <2>1, <2>2 DEF TypeOK
<1>14. NoFalseAlarm'
  BY <1>4 DEF NoFalseAlarm
<1>15. GroupInv'
  <2>1. \E k \in Nat : iP' = k * GroupSize + Len(auxP')
    <3>1. PICK k \in Nat : iP = k * GroupSize + n
      BY <1>1 DEF GroupInv
    <3>2. CASE n + 1 = GroupSize
      <4>1. Len(auxP') = 0
        BY <1>7, <3>2, EmptySeq
      <4>2. (k + 1) * GroupSize = k * GroupSize + GroupSize
        BY <1>3, MulSucc
      <4>3. iP' = (k + 1) * GroupSize + Len(auxP')
        <5> DEFINE start == k * GroupSize
        <5>1. start \in Nat /\ iP = start + n /\ (k + 1) * GroupSize = start + GroupSize
          BY <1>3, <3>1, <4>2
        <5> HIDE DEF start
        <5> QED  BY <1>2, <1>3, <1>4, <3>2, <4>1, <5>1
      <4>4. k + 1 \in Nat
        OBVIOUS
      <4> QED  BY <4>3, <4>4
    <3>3. CASE n + 1 # GroupSize
      <4>1. Len(auxP') = n + 1
        BY <1>6, <1>7, <3>3
      <4>2. iP' = k * GroupSize + Len(auxP')
        BY <1>2, <1>3, <1>4, <3>1, <4>1
      <4> QED  BY <4>2
    <3> QED  BY <3>2, <3>3
  <2> QED  BY <1>1, <1>4, <1>9, <1>10, <2>1 DEF GroupInv
<1>16. CountInv'
  <2>1. (Len(queue) + Len(outP')) * Weight = Len(queue) * Weight + Len(outP') * Weight
    BY <1>2, <1>3, <1>9
  <2>2. Len(queue) * Weight \in Nat /\ Len(outP') * Weight \in Nat
    BY <1>2, <1>3, <1>9
  <2>3. iP' = Compared + (Len(queue) + Len(outP')) * Weight + Len(auxP')
    <3> DEFINE inQueue == Len(queue) * Weight
               inOut == Len(outP') * Weight
               all == (Len(queue) + Len(outP')) * Weight
    <3>1. iP' = Compared + inQueue + n + 1 /\ all = inQueue + inOut
      BY <1>4, <1>8, <2>1
    <3>2. /\ inOut + Len(auxP') = n + 1 /\ inQueue \in Nat /\ inOut \in Nat
          /\ Len(auxP') \in Nat /\ n \in Nat /\ Compared \in Nat
      BY <1>2, <1>9, <2>2
    <3> HIDE DEF inQueue, inOut, all, n
    <3>3. iP' = Compared + all + Len(auxP')
      BY <3>1, <3>2
    <3> QED  BY <3>3 DEF all
  <2> QED  BY <1>1, <1>4, <1>6, <1>10, <2>3 DEF CountInv
<1>17. \A k \in 1 .. n + 1 : group[k] = resultP'[iP - n + k]
  <2> SUFFICES ASSUME NEW k \in 1 .. n + 1
               PROVE  group[k] = resultP'[iP - n + k]
    OBVIOUS
  <2>1. n <= iP
    <3>1. Len(queue) * Weight \in Nat
      BY <1>2, <1>3
    <3> QED  BY <1>2, <1>8, <3>1
  <2>2. CASE k = n + 1
    BY <1>2, <1>6, <2>1, <2>2
  <2>3. CASE k \in 1 .. n
    <3>1. auxP[k] = resultP[iP - n + k] /\ iP - n + k \in 1 .. iP
      BY <1>1, <1>2, <2>1, <2>3 DEF ProducerInv
    <3>2. group[k] = auxP[k]
      BY <1>6, <2>3
    <3>3. resultP'[iP - n + k] = resultP[iP - n + k]
      BY <1>6, <3>1
    <3> QED  BY <3>1, <3>2, <3>3
  <2> QED  BY <1>2, <2>2, <2>3
<1>18. ProducerInv'
  <2>1. \A k \in 1 .. Len(auxP') : auxP'[k] = resultP'[iP' - Len(auxP') + k]
    <3>1. CASE n + 1 = GroupSize
      BY <1>7, <3>1, EmptySeq
    <3>2. CASE n + 1 # GroupSize
      <4>1. auxP' = group /\ Len(auxP') = n + 1
        BY <1>6, <1>7, <3>2
      <4>2. iP' - Len(auxP') = iP - n
        BY <1>2, <1>4, <4>1
      <4> QED  BY <1>17, <4>1, <4>2
    <3> QED  BY <3>1, <3>2
  <2>2. ASSUME NEW k \in 1 .. Len(queue)
        PROVE  queue'[k] = MessageAfter(k)'
    <3>1. k * Weight <= Len(queue) * Weight
      BY <1>2, <1>3, MulMono
    <3>2. Compared + k * Weight <= iP
      BY <1>2, <1>3, <1>8, <3>1
    <3>3. MessageAfter(k)' = MessageAfter(k)
      BY <1>2, <1>4, <1>6, <1>10, <3>2, MessageKept
    <3> QED  BY <1>1, <1>4, <3>3 DEF ProducerInv
  <2>3. ASSUME NEW k \in 1 .. Len(outP')
        PROVE  outP'[k] = MessageAfter(Len(queue) + k)'
    <3>1. n + 1 = GroupSize /\ outP' = Message(group)
      BY <1>7, EmptySeq
    <3>2. CASE checkFrequency = "Encoding"
      <4>1. Len(Message(group)) = 1 /\ Message(group)[1] = XorOf(group)
        BY <1>1, <1>6, <3>1, <3>2, MessageType
      <4>5. k = 1 /\ outP'[1] = XorOf(group)
        BY <3>1, <4>1
      <4>2. group = GroupOf(resultP', Compared + Len(queue) * MODULO)
        <5>1. iP - n = Compared + Len(queue) * MODULO /\ n + 1 = MODULO
          BY <1>2, <1>3, <1>8, <3>1, <3>2
        <5>2. \A m \in 1 .. MODULO :
                group[m] = resultP'[Compared + Len(queue) * MODULO + m]
          BY <1>17, <5>1
        <5>3. group \in [1 .. MODULO -> Values]
          BY <1>6, <5>1, LenProperties
        <5> QED  BY <5>2, <5>3 DEF GroupOf
      <4>3. MessageAfter(Len(queue) + 1)' =
              XorOf(GroupOf(resultP', Compared + (Len(queue) + 1 - 1) * MODULO))
        BY <1>4, <1>10, <3>2 DEF MessageAfter, GroupOf
      <4>4. Len(queue) + 1 - 1 = Len(queue)
        BY <1>2
      <4> QED  BY <4>2, <4>3, <4>4, <4>5
    <3>3. CASE checkFrequency # "Encoding"
      <4>1. outP' = group
        BY <1>1, <1>6, <3>1, <3>3, MessageType
      <4>2. k \in 1 .. n + 1 /\ iP - n + k = Compared + (Len(queue) + k)
        BY <1>2, <1>3, <1>6, <1>8, <3>3, <4>1
      <4>3. MessageAfter(Len(queue) + k)' = resultP'[Compared + (Len(queue) + k)]
        BY <1>4, <1>10, <3>3 DEF MessageAfter
      <4> QED  BY <1>17, <4>1, <4>2, <4>3
    <3> QED  BY <3>2, <3>3
  <2> QED  BY <1>4, <2>1, <2>2, <2>3 DEF ProducerInv
<1>19. Compared <= iP /\ Compared <= iC
  <2>1. Len(queue) * Weight \in Nat /\ Len(dueC) * Weight \in Nat
    BY <1>2, <1>3
  <2> QED  BY <1>2, <1>8, <2>1, ComparedIs
<1>20. ConsumerInv'
  <2>1. CASE checkFrequency = "Encoding"
    <3>1. /\ \A k \in 1 .. Len(auxC) : auxC[k] = resultC[iC - Len(auxC) + k]
          /\ dueC # <<>> => dueC[1] = XorOf(GroupOf(resultC, Compared))
      BY <1>1, <2>1 DEF ConsumerInv
    <3>2. GroupOf(resultC, Compared)' = GroupOf(resultC, Compared)
      BY <1>4, <1>10 DEF GroupOf
    <3> QED  BY <1>4, <2>1, <3>1, <3>2 DEF ConsumerInv
  <2>2. CASE checkFrequency # "Encoding"
    <3>1. Len(resultC) = Compared
      BY <1>1, <2>2 DEF CountInv
    <3> QED  BY <1>1, <1>2, <1>4, <1>6, <1>19, <2>2, <3>1 DEF ConsumerInv
  <2> QED  BY <2>1, <2>2
<1>21. ErrorInv'
  <2> SUFFICES ASSUME faults' <= 1
               PROVE  /\ \A i \in 0 .. Compared - 1 :
                             /\ resultC[i + 1] = CalcFunction[i]
                             /\ resultP'[i + 1] = CalcFunction[i]
                      /\ \E p \in -1 .. iP, c \in -1 .. iC - 1 : ErrorAt(p, c)'
    <3>1. iP' - 1 = iP
      BY <1>2, <1>4
    <3> QED  BY <1>4, <1>10, <3>1 DEF ErrorInv
  <2>1. faults <= 1
    BY <1>2, <1>12
  <2>2. \A i \in 0 .. Compared - 1 :
          resultC[i + 1] = CalcFunction[i] /\ resultP[i + 1] = CalcFunction[i]
    BY <1>1, <2>1 DEF ErrorInv
  <2>3. PICK p \in -1 .. iP - 1, c \in -1 .. iC - 1 : ErrorAt(p, c)
    BY <1>1, <2>1 DEF ErrorInv
  <2>4. ConsumerWrong(c)'
    <3>1. \A i \in Compared .. iC - 1 : OwnValue(i)' = OwnValue(i)
      BY <1>4, <1>10 DEF OwnValue
    <3> QED  BY <1>4, <1>10, <2>3, <3>1 DEF ErrorAt, ConsumerWrong
  <2>5. \A i \in 0 .. iP - 1 : resultP'[i + 1] = resultP[i + 1]
    BY <1>2, <1>6
  <2>6. \E q \in -1 .. iP : ErrorAt(q, c)'
    <3>1. CASE value = CalcFunction[iP]
      <4>1. faults' = faults
        BY <1>12, <3>1
      <4>2. ProducerWrong(p)'
        <5> SUFFICES ASSUME NEW i \in Compared .. iP
                     PROVE  resultP'[i + 1] = CalcFunction[i] <=> i # p
          BY <1>2, <1>4, <1>10 DEF ProducerWrong
        <5>1. CASE i = iP
          BY <1>2, <1>6, <3>1, <5>1
        <5>2. CASE i # iP
          BY <1>2, <2>3, <2>5, <5>2 DEF ErrorAt, ProducerWrong
        <5> QED  BY <5>1, <5>2
      <4> QED  BY <1>2, <1>10, <2>3, <2>4, <4>1, <4>2 DEF ErrorAt
    <3>2. CASE value # CalcFunction[iP]
      <4>1. faults = 0 /\ faults' = 1
        BY <1>2, <1>12, <3>2
      <4>2. p = -1 /\ c = -1
        BY <2>3, <4>1 DEF ErrorAt
      <4>3. PICK q \in -1 .. iP : q = iP
        BY <1>2
      <4>4. ProducerWrong(q)'
        <5>1. iP' - 1 = iP
          BY <1>2, <1>4
        <5> SUFFICES ASSUME NEW i \in Compared .. iP
                     PROVE  resultP'[i + 1] = CalcFunction[i] <=> i # q
          BY <1>10, <5>1 DEF ProducerWrong
        <5>2. CASE i = iP
          BY <1>2, <1>6, <3>2, <4>3, <5>2
        <5>3. CASE i # iP
          BY <1>2, <2>3, <2>5, <4>2, <4>3, <5>3 DEF ErrorAt, ProducerWrong
        <5> QED  BY <5>2, <5>3
      <4>5. ErrorAt(q, c)'
        BY <1>2, <1>10, <1>19, <2>4, <4>1, <4>2, <4>3, <4>4 DEF ErrorAt
      <4> QED  BY <4>5
    <3> QED  BY <3>1, <3>2
  <2>7. \A i \in 0 .. Compared - 1 :
          resultC[i + 1] = CalcFunction[i] /\ resultP'[i + 1] = CalcFunction[i]
    BY <1>2, <1>19, <2>2, <2>5
  <2> QED  BY <2>6, <2>7
<1> QED  BY <1>13, <1>14, <1>15, <1>16, <1>18, <1>20, <1>21 DEF StreamIInv

(* The producer sends the next value, or the encoding.                     *)
LEMMA ProducerEnqueueOK ==
  ASSUME StreamIInv, ProducerEnqueue, ~exited
  PROVE  StreamIInv'
<1> DEFINE q == Len(queue)
           o == Len(outP)
<1>1. /\ TypeOK /\ NoFalseAlarm /\ GroupInv /\ CountInv /\ ProducerInv /\ ConsumerInv
      /\ ErrorInv
  BY DEF StreamIInv
<1>2. /\ q \in Nat /\ o \in Nat /\ iP \in Nat /\ Compared \in Nat /\ Len(auxP) \in Nat
      /\ queue \in Seq(Values) /\ outP \in Seq(Values)
  BY StreamTypes
<1>3. /\ outP # <<>> /\ q < Capacity
      /\ queue' = Append(queue, Head(outP)) /\ outP' = Tail(outP)
      /\ checkFrequency' = checkFrequency /\ iP' = iP /\ auxP' = auxP
      /\ resultP' = resultP /\ iC' = iC /\ auxC' = auxC /\ dueC' = dueC
      /\ resultC' = resultC /\ exited' = exited /\ faults' = faults
  BY DEF ProducerEnqueue, consumerVars
<1>4. /\ Head(outP) \in Values /\ Head(outP) = outP[1]
      /\ outP' \in Seq(Values) /\ Len(outP') = o - 1
      /\ \A k \in 1 .. o - 1 : outP'[k] = outP[k + 1]
  BY <1>2, <1>3, HeadTailProperties
<1>5. /\ queue' \in Seq(Values) /\ Len(queue') = q + 1
      /\ (\A k \in 1 .. q : queue'[k] = queue[k]) /\ queue'[q + 1] = outP[1]
  BY <1>2, <1>3, <1>4, AppendProperties
<1>6. o > 0
  BY <1>2, <1>3, EmptySeq
<1> HIDE DEF q, o
<1>7. /\ GroupSize' = GroupSize /\ Weight' = Weight /\ Compared' = Compared
  BY <1>3 DEF GroupSize, Weight, Compared
<1>8. TypeOK'
  <2>1. Len(outP') <= MODULO
    <3>1. Len(outP) <= MODULO /\ MODULO \in Nat
      BY <1>1, GroupSizeType DEF TypeOK
    <3> QED  BY <1>2, <1>4, <3>1 DEF o
  <2>2. Len(queue') <= Capacity
    BY <1>2, <1>3, <1>5, StreamAssumption
  <2> QED  BY <1>1, <1>3, <1>4, <1>5, <2>1, <2>2 DEF TypeOK
<1>9. NoFalseAlarm'
  BY <1>1, <1>3 DEF NoFalseAlarm
<1>10. GroupInv'
  <2>1. auxP = <<>> /\ (checkFrequency = "Encoding" => Len(outP') <= 1)
    <3>1. checkFrequency = "Encoding" => o <= 1
      BY <1>1 DEF GroupInv, o
    <3>2. auxP = <<>>
      BY <1>1, <1>3 DEF GroupInv
    <3> QED  BY <1>2, <1>4, <3>1, <3>2
  <2> QED  BY <1>1, <1>3, <1>7, <2>1 DEF GroupInv
<1>11. CountInv'
  <2>1. iP = Compared + (q + o) * Weight + Len(auxP)
    BY <1>1 DEF CountInv, q, o
  <2>2. Len(queue') + Len(outP') = q + o
    BY <1>2, <1>4, <1>5
  <2> QED  BY <1>1, <1>3, <1>7, <2>1, <2>2 DEF CountInv
<1>12. \A k : MessageAfter(k)' = MessageAfter(k)
  BY <1>3, <1>7 DEF MessageAfter, GroupOf
<1>13. ProducerInv'
  <2>1. /\ \A k \in 1 .. q : queue[k] = MessageAfter(k)
        /\ \A k \in 1 .. o : outP[k] = MessageAfter(q + k)
    BY <1>1 DEF ProducerInv, q, o
  <2>2. \A k \in 1 .. q + 1 : queue'[k] = MessageAfter(k)
    <3>1. queue'[q + 1] = MessageAfter(q + 1)
      BY <1>2, <1>5, <1>6, <2>1
    <3> QED  BY <1>2, <1>5, <2>1, <3>1
  <2>3. \A k \in 1 .. o - 1 : outP'[k] = MessageAfter(q + 1 + k)
    <3> SUFFICES ASSUME NEW k \in 1 .. o - 1
                 PROVE  outP'[k] = MessageAfter(q + 1 + k)
      OBVIOUS
    <3>1. outP'[k] = MessageAfter(q + (k + 1))
      BY <1>2, <1>4, <2>1
    <3>2. q + (k + 1) = q + 1 + k
      BY <1>2
    <3> QED  BY <3>1, <3>2
  <2>4. \A k \in 1 .. Len(auxP) : auxP[k] = resultP[iP - Len(auxP) + k]
    BY <1>1 DEF ProducerInv
  <2> QED  BY <1>3, <1>4, <1>5, <1>12, <2>2, <2>3, <2>4 DEF ProducerInv
<1>14. ConsumerInv'
  BY <1>1, <1>3, <1>7 DEF ConsumerInv, GroupOf
<1>15. ErrorInv'
  <2>1. \A i : OwnValue(i)' = OwnValue(i)
    BY <1>3, <1>7 DEF OwnValue
  <2>2. ASSUME NEW p \in -1 .. iP - 1, NEW c \in -1 .. iC - 1, ErrorAt(p, c)
        PROVE  ErrorAt(p, c)'
    BY <1>3, <1>7, <2>1, <2>2 DEF ErrorAt, ProducerWrong, ConsumerWrong
  <2> QED  BY <1>1, <1>3, <1>7, <2>2 DEF ErrorInv
<1> QED  BY <1>8, <1>9, <1>10, <1>11, <1>13, <1>14, <1>15 DEF StreamIInv

(* The remainder of a number that is put together from multiples and rest. *)
LEMMA RestOf ==
  ASSUME NEW m \in Nat \ {0}, NEW i, NEW k \in Int, NEW r \in 0 .. m - 1,
         i = k * m + r
  PROVE  i % m = r
OBVIOUS

(* The consumer calculates its own value: with the last one of a group, it *)
(* is known what is to be compared.                                        *)
LEMMA ConsumerCalculateOK ==
  ASSUME StreamIInv, ConsumerCalculate, ~exited
  PROVE  StreamIInv'
<1> DEFINE n == Len(auxC)
<1>1. /\ TypeOK /\ NoFalseAlarm /\ GroupInv /\ CountInv /\ ProducerInv /\ ConsumerInv
      /\ ErrorInv
  BY DEF StreamIInv
<1>2. /\ iP \in Nat /\ iC \in Nat /\ Compared \in Nat /\ NumValues \in Nat
      /\ n \in Nat /\ Len(dueC) \in Nat /\ Len(resultC) \in Nat
      /\ faults \in Nat /\ iP <= NumValues
      /\ auxC \in Seq(Values) /\ resultC \in Seq(Values)
  BY StreamTypes
<1>3. /\ GroupSize \in Nat \ {0} /\ GroupSize <= MODULO /\ MODULO \in Nat \ {0}
      /\ Weight \in Nat \ {0}
      /\ checkFrequency = "Encoding" => GroupSize = MODULO /\ Weight = MODULO
      /\ checkFrequency # "Encoding" => Weight = 1
  BY <1>1, GroupSizeType
<1>4. /\ dueC = <<>> /\ iC < NumValues /\ iC' = iC + 1
      /\ checkFrequency' = checkFrequency /\ queue' = queue /\ iP' = iP /\ auxP' = auxP
      /\ outP' = outP /\ resultP' = resultP /\ exited' = exited
  BY DEF ConsumerCalculate, producerVars
<1>5. PICK value \in Values :
        /\ Calculates(iC, value)
        /\ resultC' = IF checkFrequency = "Encoding" THEN Append(resultC, value)
                                                     ELSE resultC
        /\ IF (iC + 1) % GroupSize = 0
           THEN dueC' = Message(Append(auxC, value)) /\ auxC' = <<>>
           ELSE auxC' = Append(auxC, value) /\ UNCHANGED dueC
  BY Zenon DEF ConsumerCalculate
<1> DEFINE group == Append(auxC, value)
<1>6. /\ group \in Seq(Values) /\ Len(group) = n + 1
      /\ (\A k \in 1 .. n : group[k] = auxC[k]) /\ group[n + 1] = value
  BY <1>1, <1>2, <1>5, AppendProperties
<1>7. /\ n < GroupSize /\ Len(dueC) = 0 /\ iC = Compared + n
  <2>1. n < GroupSize
    BY <1>1 DEF GroupInv
  <2>2. Len(dueC) = 0
    BY <1>4, EmptySeq
  <2>3. iC = Compared + Len(dueC) * Weight + n
    BY ComparedIs
  <2>4. Len(dueC) * Weight = 0
    BY <1>3, <2>2
  <2> QED  BY <1>2, <2>1, <2>2, <2>3, <2>4
<1>8. /\ resultC' \in Seq(Values)
      /\ checkFrequency = "Encoding" =>
           /\ Len(resultC') = iC + 1
           /\ (\A k \in 1 .. iC : resultC'[k] = resultC[k]) /\ resultC'[iC + 1] = value
      /\ checkFrequency # "Encoding" => resultC' = resultC /\ Len(resultC) = Compared
  <2>1. Len(resultC) = IF checkFrequency = "Encoding" THEN iC ELSE Compared
    BY <1>1 DEF CountInv
  <2> QED  BY <1>2, <1>5, <2>1, AppendProperties
<1> HIDE DEF group
<1>9. PICK k \in Nat : iC = k * GroupSize + n
  BY <1>1 DEF GroupInv
<1>10. (iC + 1) % GroupSize = 0 <=> n + 1 = GroupSize
  <2>1. CASE n + 1 = GroupSize
    <3>1. iC + 1 = (k + 1) * GroupSize + 0
      BY <1>2, <1>3, <1>9, <2>1
    <3>2. (iC + 1) % GroupSize = 0
      <4>1. 0 \in 0 .. GroupSize - 1 /\ k + 1 \in Int
        BY <1>3
      <4>2. GroupSize \in Nat \ {0}
        BY <1>3
      <4> HIDE DEF GroupSize
      <4> QED  BY <3>1, <4>1, <4>2, RestOf
    <3> QED  BY <2>1, <3>2
  <2>2. CASE n + 1 # GroupSize
    <3>1. iC + 1 = k * GroupSize + (n + 1) /\ n + 1 \in 0 .. GroupSize - 1
      BY <1>2, <1>3, <1>7, <1>9, <2>2
    <3>2. (iC + 1) % GroupSize = n + 1
      <4> DEFINE i == iC + 1
                 rest == n + 1
      <4>1. i = k * GroupSize + rest /\ rest \in 0 .. GroupSize - 1
        BY <3>1
      <4>2. GroupSize \in Nat \ {0} /\ k \in Int
        BY <1>3
      <4> HIDE DEF i, rest
      <4>3. i % GroupSize = rest
        BY <4>1, <4>2, RestOf
      <4> QED  BY <4>3 DEF i, rest
    <3> QED  BY <1>2, <2>2, <3>2
  <2> QED  BY <2>1, <2>2
<1>11. IF n + 1 = GroupSize THEN dueC' = Message(group) /\ auxC' = <<>>
                            ELSE dueC' = <<>> /\ auxC' = group
  BY <1>4, <1>5, <1>10 DEF group
<1>12. /\ dueC' \in Seq(Values) /\ auxC' \in Seq(Values)
       /\ Len(dueC') <= MODULO /\ Len(auxC') < GroupSize
       /\ dueC' # <<>> => auxC' = <<>>
       /\ checkFrequency = "Encoding" => Len(dueC') <= 1
  <2>1. <<>> \in Seq(Values) /\ Len(<<>>) = 0
    BY EmptySeq
  <2>2. CASE n + 1 = GroupSize
    <3>1. /\ dueC' \in Seq(Values) /\ Len(dueC') <= MODULO
          /\ checkFrequency = "Encoding" => Len(dueC') = 1
      BY <1>1, <1>6, <1>11, <2>2, MessageType
    <3>2. auxC' = <<>> /\ Len(auxC') < GroupSize
      BY <1>3, <1>11, <2>1, <2>2
    <3>3. 1 <= 1
      OBVIOUS
    <3> QED  BY <2>1, <3>1, <3>2, <3>3
  <2>3. CASE n + 1 # GroupSize
    <3>1. dueC' = <<>> /\ auxC' = group
      BY <1>11, <2>3
    <3> QED  BY <1>2, <1>3, <1>6, <1>7, <2>1, <2>3, <3>1
  <2> QED  BY <2>2, <2>3
<1>13. GroupSize' = GroupSize /\ Weight' = Weight
  BY <1>4 DEF GroupSize, Weight
<1>14. /\ Compared' = Compared
       /\ checkFrequency # "Encoding" =>
            IF n + 1 = GroupSize THEN dueC' = group /\ auxC' = <<>>
                                 ELSE dueC' = <<>> /\ auxC' = group
       /\ checkFrequency = "Encoding" /\ n + 1 = GroupSize => dueC'[1] = XorOf(group)
  <2>1. Len(<<>>) = 0
    BY EmptySeq
  <2>2. CASE n + 1 = GroupSize
    <3>1. /\ dueC' # <<>> /\ Len(auxC') = 0
          /\ IF checkFrequency = "Encoding" THEN dueC'[1] = XorOf(group)
                                            ELSE dueC' = group
      BY <1>1, <1>6, <1>11, <2>1, <2>2, MessageType
    <3>2. Compared' = IF checkFrequency = "Encoding" THEN iC + 1 - 0 - MODULO
                                                     ELSE iC + 1 - 0 - (n + 1)
      <4>1. /\ iC' = iC + 1 /\ checkFrequency' = checkFrequency
            /\ dueC' # <<>> /\ Len(auxC') = 0
        BY <1>4, <3>1
      <4>2. checkFrequency # "Encoding" => Len(dueC') = n + 1
        BY <1>6, <3>1
      <4>3. Compared' = IF checkFrequency = "Encoding"
                        THEN iC' - Len(auxC') - MODULO ELSE iC' - Len(auxC') - Len(dueC')
        BY <4>1 DEF Compared
      <4> QED  BY <1>2, <1>3, <4>1, <4>2, <4>3
    <3> QED  BY <1>2, <1>3, <1>7, <1>11, <2>2, <3>1, <3>2
  <2>3. CASE n + 1 # GroupSize
    <3>1. dueC' = <<>> /\ auxC' = group
      BY <1>11, <2>3
    <3>2. Compared' = IF checkFrequency = "Encoding" THEN iC + 1 - (n + 1) - 0
                                                     ELSE iC + 1 - (n + 1) - 0
      <4>1. /\ iC' = iC + 1 /\ checkFrequency' = checkFrequency /\ dueC' = <<>>
            /\ Len(auxC') = n + 1 /\ Len(dueC') = 0
        BY <1>4, <1>6, <2>1, <3>1
      <4>2. Compared' = IF checkFrequency = "Encoding"
                        THEN iC' - Len(auxC') - 0 ELSE iC' - Len(auxC') - Len(dueC')
        BY <4>1 DEF Compared
      <4> QED  BY <1>2, <1>3, <4>1, <4>2
    <3> QED  BY <1>2, <1>7, <1>11, <2>3, <3>2
  <2> QED  BY <2>2, <2>3
<1>15. iC \in Iterations /\ iC \in 0 .. NumValues - 1
  BY <1>2, <1>4 DEF Iterations
<1>16. /\ faults' \in 0 .. MaxFaults
       /\ IF value = CalcFunction[iC] THEN faults' = faults ELSE faults' = faults + 1
  BY <1>1, <1>5, <1>15, CalculatesIs
<1>17. TypeOK'
  <2>1. iC' \in 0 .. NumValues
    BY <1>2, <1>4
  <2>2. Len(auxC') <= MODULO
    <3>1. Len(auxC') \in Nat
      BY <1>12, LenProperties
    <3> QED  BY <1>3, <1>12, <3>1
  <2> QED  BY <1>1, <1>4, <1>8, <1>12, <1>16, <2>1, <2>2 DEF TypeOK
<1>18. NoFalseAlarm'
  BY <1>4 DEF NoFalseAlarm
<1>19. GroupInv'
  <2>1. \E j \in Nat : iC' = j * GroupSize + Len(auxC')
    <3>1. CASE n + 1 = GroupSize
      <4>1. Len(auxC') = 0
        BY <1>11, <3>1, EmptySeq
      <4>2. iC' = (k + 1) * GroupSize + Len(auxC')
        BY <1>2, <1>3, <1>4, <1>9, <3>1, <4>1
      <4> QED  BY <4>2
    <3>2. CASE n + 1 # GroupSize
      <4>1. Len(auxC') = n + 1
        BY <1>6, <1>11, <3>2
      <4>2. iC' = k * GroupSize + Len(auxC')
        BY <1>2, <1>3, <1>4, <1>9, <4>1
      <4> QED  BY <4>2
    <3> QED  BY <3>1, <3>2
  <2> QED  BY <1>1, <1>4, <1>12, <1>13, <2>1 DEF GroupInv
<1>20. CountInv'
  BY <1>1, <1>2, <1>4, <1>8, <1>13, <1>14 DEF CountInv
<1>21. ProducerInv'
  <2>1. \A j : MessageAfter(j)' = MessageAfter(j)
    BY <1>4, <1>14 DEF MessageAfter, GroupOf
  <2> QED  BY <1>1, <1>4, <2>1 DEF ProducerInv
<1>22. ConsumerInv'
  <2>1. CASE checkFrequency = "Encoding"
    <3>1. \A j \in 1 .. n + 1 : group[j] = resultC'[Compared + j]
      <4> SUFFICES ASSUME NEW j \in 1 .. n + 1
                   PROVE  group[j] = resultC'[Compared + j]
        OBVIOUS
      <4>1. CASE j = n + 1
        BY <1>2, <1>6, <1>7, <1>8, <2>1, <4>1
      <4>2. CASE j \in 1 .. n
        <5>1. auxC[j] = resultC[Compared + j]
          <6>1. iC - n = Compared
            BY <1>2, <1>7
          <6> QED  BY <1>1, <2>1, <4>2, <6>1 DEF ConsumerInv
        <5>2. Compared + j \in 1 .. iC
          BY <1>2, <1>7, <4>2
        <5> QED  BY <1>6, <1>8, <2>1, <4>2, <5>1, <5>2
      <4> QED  BY <1>2, <4>1, <4>2
    <3>2. \A j \in 1 .. Len(auxC') : auxC'[j] = resultC'[iC' - Len(auxC') + j]
      <4>1. CASE n + 1 = GroupSize
        BY <1>11, <4>1, EmptySeq
      <4>2. CASE n + 1 # GroupSize
        <5>1. auxC' = group /\ Len(auxC') = n + 1
          BY <1>6, <1>11, <4>2
        <5>2. iC' - Len(auxC') = Compared
          BY <1>2, <1>4, <1>7, <5>1
        <5> QED  BY <3>1, <5>1, <5>2
      <4> QED  BY <4>1, <4>2
    <3>3. ASSUME dueC' # <<>>
          PROVE  dueC'[1] = XorOf(GroupOf(resultC', Compared))
      <4>1. n + 1 = GroupSize /\ n + 1 = MODULO
        BY <1>3, <1>11, <2>1, <3>3
      <4>2. group \in [1 .. MODULO -> Values]
        BY <1>6, <4>1, LenProperties
      <4>3. group = GroupOf(resultC', Compared)
        BY <3>1, <4>1, <4>2 DEF GroupOf
      <4> QED  BY <1>14, <2>1, <4>1, <4>3
    <3>4. GroupOf(resultC, Compared)' = GroupOf(resultC', Compared)
      BY <1>14 DEF GroupOf
    <3> QED  BY <1>4, <2>1, <3>2, <3>3, <3>4 DEF ConsumerInv
  <2>2. CASE checkFrequency # "Encoding"
    BY <1>1, <1>4, <1>8, <2>2 DEF ConsumerInv
  <2> QED  BY <2>1, <2>2
<1>23. Compared <= iP
  <2>1. iP = Compared + (Len(queue) + Len(outP)) * Weight + Len(auxP)
    BY <1>1 DEF CountInv
  <2>2. Len(queue) \in Nat /\ Len(outP) \in Nat /\ Len(auxP) \in Nat
    BY StreamTypes
  <2>3. (Len(queue) + Len(outP)) * Weight \in Nat
    BY <1>3, <2>2
  <2> QED  BY <1>2, <2>1, <2>2, <2>3
<1>24. /\ \A i \in Compared .. iC - 1 : OwnValue(i)' = OwnValue(i)
       /\ \A i : i = iC => OwnValue(i)' = value
  <2>1. CASE checkFrequency = "Encoding"
    <3>1. ASSUME NEW i \in Compared .. iC - 1
          PROVE  resultC'[i + 1] = resultC[i + 1]
      BY <1>2, <1>8, <2>1
    <3> QED  BY <1>4, <1>8, <2>1, <3>1 DEF OwnValue
  <2>2. CASE checkFrequency # "Encoding"
    <3>1. \A i \in Compared .. iC - 1 : OwnValue(i) = auxC[i - Compared + 1]
      <4> SUFFICES ASSUME NEW i \in Compared .. iC - 1
                   PROVE  OwnValue(i) = auxC[i - Compared + 1]
        OBVIOUS
      <4>1. ~(i < Compared + Len(dueC)) /\ i - Compared - Len(dueC) + 1 = i - Compared + 1
        BY <1>2, <1>7
      <4> QED  BY <2>2, <4>1 DEF OwnValue
    <3>2. \A i \in Compared .. iC : OwnValue(i)' = group[i - Compared + 1]
      <4> SUFFICES ASSUME NEW i \in Compared .. iC
                   PROVE  OwnValue(i)' = group[i - Compared + 1]
        OBVIOUS
      <4>1. CASE n + 1 = GroupSize
        <5>1. dueC' = group /\ i < Compared + Len(group)
          BY <1>2, <1>6, <1>7, <1>14, <2>2, <4>1
        <5> QED  BY <1>4, <1>14, <2>2, <5>1 DEF OwnValue
      <4>2. CASE n + 1 # GroupSize
        <5>1. dueC' = <<>> /\ auxC' = group /\ Len(dueC') = 0
          BY <1>11, <4>2, EmptySeq
        <5>2. /\ ~(i < Compared + Len(dueC'))
              /\ i - Compared - Len(dueC') + 1 = i - Compared + 1
          BY <1>2, <5>1
        <5> QED  BY <1>4, <1>14, <2>2, <5>1, <5>2 DEF OwnValue
      <4> QED  BY <4>1, <4>2
    <3>3. \A i \in Compared .. iC - 1 : group[i - Compared + 1] = auxC[i - Compared + 1]
      <4> SUFFICES ASSUME NEW i \in Compared .. iC - 1
                   PROVE  group[i - Compared + 1] = auxC[i - Compared + 1]
        OBVIOUS
      <4>1. i - Compared + 1 \in 1 .. n
        BY <1>2, <1>7
      <4> QED  BY <1>6, <4>1
    <3>4. iC \in Compared .. iC /\ group[iC - Compared + 1] = value
      BY <1>2, <1>6, <1>7
    <3>5. ASSUME NEW i \in Compared .. iC - 1
          PROVE  OwnValue(i)' = OwnValue(i)
      <4>1. i \in Compared .. iC
        BY <1>2
      <4> QED  BY <3>1, <3>2, <3>3, <4>1
    <3>6. ASSUME NEW i, i = iC
          PROVE  OwnValue(i)' = value
      <4>1. OwnValue(i)' = group[i - Compared + 1]
        BY <3>2, <3>4, <3>6
      <4> QED  BY <3>4, <3>6, <4>1
    <3> QED  BY <3>5, <3>6
  <2> QED  BY <2>1, <2>2
<1>25. ErrorInv'
  <2> SUFFICES ASSUME faults' <= 1
               PROVE  /\ \A i \in 0 .. Compared - 1 :
                             /\ resultC'[i + 1] = CalcFunction[i]
                             /\ resultP[i + 1] = CalcFunction[i]
                      /\ \E p \in -1 .. iP - 1, c \in -1 .. iC : ErrorAt(p, c)'
    <3>1. iC' - 1 = iC
      BY <1>2, <1>4
    <3> QED  BY <1>4, <1>14, <3>1 DEF ErrorInv
  <2>1. faults <= 1
    BY <1>2, <1>16
  <2>2. \A i \in 0 .. Compared - 1 :
          resultC[i + 1] = CalcFunction[i] /\ resultP[i + 1] = CalcFunction[i]
    BY <1>1, <2>1 DEF ErrorInv
  <2>3. PICK p \in -1 .. iP - 1, c \in -1 .. iC - 1 : ErrorAt(p, c)
    BY <1>1, <2>1 DEF ErrorInv
  <2>4. ProducerWrong(p)'
    BY <1>4, <1>14, <2>3 DEF ErrorAt, ProducerWrong
  <2>5. \E q \in -1 .. iC : ErrorAt(p, q)'
    <3>1. CASE value = CalcFunction[iC]
      <4>1. faults' = faults
        BY <1>16, <3>1
      <4>2. ConsumerWrong(c)'
        <5>1. iC' - 1 = iC
          BY <1>2, <1>4
        <5> SUFFICES ASSUME NEW i \in Compared .. iC
                     PROVE  OwnValue(i)' = CalcFunction[i] <=> i # c
          BY <1>14, <5>1 DEF ConsumerWrong
        <5>2. CASE i = iC
          BY <1>2, <1>24, <3>1, <5>2
        <5>3. CASE i # iC
          BY <1>2, <1>24, <2>3, <5>3 DEF ErrorAt, ConsumerWrong
        <5> QED  BY <5>2, <5>3
      <4> QED  BY <1>2, <1>14, <2>3, <2>4, <4>1, <4>2 DEF ErrorAt
    <3>2. CASE value # CalcFunction[iC]
      <4>1. faults = 0 /\ faults' = 1
        BY <1>2, <1>16, <3>2
      <4>2. p = -1 /\ c = -1
        BY <2>3, <4>1 DEF ErrorAt
      <4>3. PICK q \in -1 .. iC : q = iC
        BY <1>2
      <4>4. ConsumerWrong(q)'
        <5>1. iC' - 1 = iC
          BY <1>2, <1>4
        <5> SUFFICES ASSUME NEW i \in Compared .. iC
                     PROVE  OwnValue(i)' = CalcFunction[i] <=> i # q
          BY <1>14, <5>1 DEF ConsumerWrong
        <5>2. CASE i = iC
          BY <1>24, <3>2, <4>3, <5>2
        <5>3. CASE i # iC
          BY <1>2, <1>24, <2>3, <4>2, <4>3, <5>3 DEF ErrorAt, ConsumerWrong
        <5> QED  BY <5>2, <5>3
      <4>5. q >= Compared
        BY <1>2, <1>7, <4>3
      <4>6. ErrorAt(p, q)'
        BY <1>14, <2>4, <4>1, <4>2, <4>4, <4>5 DEF ErrorAt
      <4> QED  BY <4>6
    <3> QED  BY <3>1, <3>2
  <2>6. \A i \in 0 .. Compared - 1 :
          resultC'[i + 1] = CalcFunction[i] /\ resultP[i + 1] = CalcFunction[i]
    <3>1. \A i \in 0 .. Compared - 1 : resultC'[i + 1] = resultC[i + 1]
      <4>1. CASE checkFrequency = "Encoding"
        <5>1. \A i \in 0 .. Compared - 1 : i + 1 \in 1 .. iC
          BY <1>2, <1>7
        <5> QED  BY <1>8, <4>1, <5>1
      <4>2. CASE checkFrequency # "Encoding"
        BY <1>8, <4>2
      <4> QED  BY <4>1, <4>2
    <3> QED  BY <2>2, <3>1
  <2> QED  BY <2>5, <2>6
<1> QED  BY <1>17, <1>18, <1>19, <1>20, <1>21, <1>22, <1>25 DEF StreamIInv

(* What is compared: the heads of the queue and of dueC stand for the same *)
(* values, the next that are not compared yet.                             *)
LEMMA HeadsAre ==
  ASSUME StreamIInv, ~exited, dueC # <<>>, queue # <<>>
  PROVE  /\ Head(queue) \in Values /\ Head(queue) = MessageAfter(1)
         /\ Head(dueC) = IF checkFrequency = "Encoding"
                         THEN XorOf(GroupOf(resultC, Compared)) ELSE OwnValue(Compared)
         /\ Compared + Weight <= iP /\ Compared + Weight <= iC
<1>1. /\ Len(queue) \in Nat /\ Len(outP) \in Nat /\ Len(auxP) \in Nat
      /\ Len(dueC) \in Nat /\ Len(auxC) \in Nat /\ Compared \in Nat /\ iP \in Nat
      /\ queue \in Seq(Values) /\ dueC \in Seq(Values) /\ TypeOK
  BY StreamTypes
<1>2. Len(queue) > 0 /\ Len(dueC) > 0 /\ Weight \in Nat \ {0}
  BY <1>1, EmptySeq, GroupSizeType
<1>3. /\ Head(queue) \in Values /\ Head(queue) = queue[1] /\ Head(dueC) = dueC[1]
  BY <1>1, HeadTailProperties
<1>4. queue[1] = MessageAfter(1)
  BY <1>1, <1>2 DEF StreamIInv, ProducerInv
<1>5. dueC[1] = IF checkFrequency = "Encoding"
                THEN XorOf(GroupOf(resultC, Compared)) ELSE OwnValue(Compared)
  <2>1. Compared < Compared + Len(dueC) /\ Compared - Compared + 1 = 1
    BY <1>1, <1>2
  <2> QED  BY <2>1 DEF StreamIInv, ConsumerInv, OwnValue
<1>6. Compared + Weight <= iP
  <2>1. iP = Compared + (Len(queue) + Len(outP)) * Weight + Len(auxP)
    BY DEF StreamIInv, CountInv
  <2>2. 1 * Weight <= (Len(queue) + Len(outP)) * Weight
    BY <1>1, <1>2, MulMono
  <2> QED  BY <1>1, <1>2, <2>1, <2>2
<1>7. Compared + Weight <= iC
  <2>1. iC = Compared + Len(dueC) * Weight + Len(auxC)
    BY ComparedIs
  <2>2. 1 * Weight <= Len(dueC) * Weight
    BY <1>1, <1>2, MulMono
  <2> QED  BY <1>1, <1>2, <2>1, <2>2
<1> QED  BY <1>3, <1>4, <1>5, <1>6, <1>7

(* Groups are equal if their values are.                                   *)
LEMMA GroupsEqual ==
  ASSUME NEW n, NEW x \in [1 .. n -> Values], NEW y \in [1 .. n -> Values],
         \A k \in 1 .. n : x[k] = y[k]
  PROVE  x = y
<1>1. x = [k \in 1 .. n |-> x[k]] /\ y = [k \in 1 .. n |-> y[k]]
  OBVIOUS
<1>2. [k \in 1 .. n |-> x[k]] = [k \in 1 .. n |-> y[k]]
  OBVIOUS
<1> QED  BY <1>1, <1>2

(* A group with one wrong value does not have the encoding of the right    *)
(* one.                                                                    *)
LEMMA WrongGroup ==
  ASSUME NEW n \in Nat, NEW right \in [1 .. n -> Values],
         NEW x \in [1 .. n -> Values], NEW y \in [1 .. n -> Values], NEW e,
         XorOf(x) = XorOf(y),
         x = right, DifferOnly(y, right, n, e)
  PROVE  x = right /\ y = right
<1>1. AgreeBut(y, x, n, e)
  BY DEF AgreeBut, DifferOnly
<1>2. XorOf(y) = XorOf(x)
  OBVIOUS
<1>3. y = x
  BY <1>1, <1>2, OneErrorChangesXor
<1> QED  BY <1>3

(* What a comparison tells, while there is at most one soft error: right   *)
(* values are equal, and equal ones are right.                             *)
LEMMA ComparisonTells ==
  ASSUME StreamIInv, ~exited, dueC # <<>>, queue # <<>>, faults <= 1
  PROVE  /\ faults = 0 => Head(dueC) = Head(queue)
         /\ Head(dueC) = Head(queue) =>
              \A i \in Compared .. Compared + Weight - 1 :
                resultP[i + 1] = CalcFunction[i] /\ OwnValue(i) = CalcFunction[i]
<1>1. /\ Compared \in Nat /\ iP \in Nat /\ iC \in Nat /\ TypeOK /\ faults \in Nat
      /\ iP <= NumValues /\ iC <= NumValues /\ NumValues \in Nat
      /\ resultP \in Seq(Values) /\ resultC \in Seq(Values)
  BY StreamTypes
<1>2. /\ Weight \in Nat \ {0} /\ MODULO \in Nat \ {0}
      /\ checkFrequency = "Encoding" => Weight = MODULO
      /\ checkFrequency # "Encoding" => Weight = 1
  BY <1>1, GroupSizeType
<1>3. Compared + Weight <= iP /\ Compared + Weight <= iC
  BY HeadsAre
<1>4. PICK p \in -1 .. iP - 1, c \in -1 .. iC - 1 : ErrorAt(p, c)
  BY DEF StreamIInv, ErrorInv
<1>5. p = -1 \/ c = -1
  BY <1>1, <1>4 DEF ErrorAt
<1>6. \A i \in Compared .. Compared + Weight - 1 :
        /\ resultP[i + 1] = CalcFunction[i] <=> i # p
        /\ OwnValue(i) = CalcFunction[i] <=> i # c
  BY <1>1, <1>2, <1>3, <1>4 DEF ErrorAt, ProducerWrong, ConsumerWrong
<1>7. CASE checkFrequency # "Encoding"
  <2>1. Head(queue) = resultP[Compared + 1] /\ Head(dueC) = OwnValue(Compared)
    BY <1>7, HeadsAre DEF MessageAfter
  <2>2. \A i \in Compared .. Compared + Weight - 1 : i = Compared
    BY <1>1, <1>2, <1>7
  <2>3. Compared \in Compared .. Compared + Weight - 1
    BY <1>1, <1>2
  <2>4. Compared # p \/ Compared # c
    BY <1>1, <1>5
  <2>5. faults = 0 => Compared # p /\ Compared # c
    BY <1>1, <1>4 DEF ErrorAt
  <2>6. /\ resultP[Compared + 1] = CalcFunction[Compared] <=> Compared # p
        /\ OwnValue(Compared) = CalcFunction[Compared] <=> Compared # c
    BY <1>6, <2>3
  <2>7. faults = 0 => Head(dueC) = Head(queue)
    BY <2>1, <2>5, <2>6
  <2>8. Head(dueC) = Head(queue) =>
          /\ resultP[Compared + 1] = CalcFunction[Compared]
          /\ OwnValue(Compared) = CalcFunction[Compared]
    BY <2>1, <2>4, <2>6
  <2> QED  BY <2>2, <2>7, <2>8
<1>8. CASE checkFrequency = "Encoding"
  <2> DEFINE g == GroupOf(resultP, Compared)
             h == GroupOf(resultC, Compared)
             right == [k \in 1 .. MODULO |-> CalcFunction[Compared + k - 1]]
  <2>1. Len(resultP) = iP /\ Len(resultC) = iC
    BY <1>8 DEF StreamIInv, CountInv
  <2>2. \A k \in 1 .. MODULO :
          /\ Compared + k - 1 \in Compared .. Compared + Weight - 1
          /\ Compared + k - 1 + 1 = Compared + k
          /\ Compared + k \in 1 .. iP /\ Compared + k \in 1 .. iC
          /\ Compared + k - 1 \in Iterations
    BY <1>1, <1>2, <1>3, <1>8 DEF Iterations
  <2>3. /\ g \in [1 .. MODULO -> Values] /\ h \in [1 .. MODULO -> Values]
        /\ right \in [1 .. MODULO -> Values]
    <3>1. \A k \in 1 .. MODULO : resultP[Compared + k] \in Values
      BY <1>1, <2>1, <2>2, ElementOfSeq
    <3>2. \A k \in 1 .. MODULO : resultC[Compared + k] \in Values
      BY <1>1, <2>1, <2>2, ElementOfSeq
    <3>3. \A k \in 1 .. MODULO : CalcFunction[Compared + k - 1] \in Values
      BY <2>2, StreamAssumption
    <3> QED  BY <3>1, <3>2, <3>3 DEF GroupOf
  <2>4. ASSUME NEW k \in 1 .. MODULO
        PROVE  /\ g[k] = right[k] <=> Compared + k - 1 # p
               /\ h[k] = right[k] <=> Compared + k - 1 # c
    <3>1. g[k] = resultP[Compared + k] /\ h[k] = resultC[Compared + k]
      BY DEF GroupOf
    <3>2. OwnValue(Compared + k - 1) = resultC[Compared + k]
      BY <1>8, <2>2 DEF OwnValue
    <3>3. /\ resultP[Compared + k] = CalcFunction[Compared + k - 1]
               <=> Compared + k - 1 # p
          /\ OwnValue(Compared + k - 1) = CalcFunction[Compared + k - 1]
               <=> Compared + k - 1 # c
      BY <1>6, <2>2
    <3> QED  BY <3>1, <3>2, <3>3
  <2>5. Head(queue) = XorOf(g) /\ Head(dueC) = XorOf(h)
    <3>1. Compared + (1 - 1) * MODULO = Compared
      BY <1>1, <1>2
    <3> QED  BY <1>8, <3>1, HeadsAre DEF MessageAfter
  <2> HIDE DEF g, h, right
  <2>6. faults = 0 => Head(dueC) = Head(queue)
    <3> SUFFICES ASSUME faults = 0
                 PROVE  g = h
      BY <2>5
    <3>1. p = -1 /\ c = -1
      BY <1>4 DEF ErrorAt
    <3>2. \A k \in 1 .. MODULO : g[k] = h[k]
      BY <1>1, <2>4, <3>1
    <3> QED  BY <2>3, <3>2, GroupsEqual
  <2>7. ASSUME XorOf(g) = XorOf(h)
        PROVE  g = right /\ h = right
    <3>1. PICK kp \in Int, kc \in Int : kp = p - Compared + 1 /\ kc = c - Compared + 1
      BY <1>1
    <3>4. \A k \in 1 .. MODULO :
            (g[k] = right[k] <=> k # kp) /\ (h[k] = right[k] <=> k # kc)
      BY <1>1, <2>4, <3>1
    <3>5. MODULO \in Nat
      BY <1>2
    <3>2. CASE p = -1
      <4>1. \A k \in 1 .. MODULO : k # kp
        BY <1>1, <3>1, <3>2
      <4>2. g = right
        <5>1. \A k \in 1 .. MODULO : g[k] = right[k]
          BY <3>4, <4>1
        <5> QED  BY <2>3, <5>1, GroupsEqual
      <4>3. DifferOnly(h, right, MODULO, kc)
        BY <3>4 DEF DifferOnly
      <4> QED  BY <2>3, <2>7, <3>5, <4>2, <4>3, WrongGroup
    <3>3. CASE c = -1
      <4>1. \A k \in 1 .. MODULO : k # kc
        BY <1>1, <3>1, <3>3
      <4>2. h = right
        <5>1. \A k \in 1 .. MODULO : h[k] = right[k]
          BY <3>4, <4>1
        <5> QED  BY <2>3, <5>1, GroupsEqual
      <4>3. DifferOnly(g, right, MODULO, kp) /\ XorOf(h) = XorOf(g)
        BY <2>7, <3>4 DEF DifferOnly
      <4> QED  BY <2>3, <3>5, <4>2, <4>3, WrongGroup
    <3> QED  BY <1>5, <3>2, <3>3
  <2>8. ASSUME Head(dueC) = Head(queue), NEW i \in Compared .. Compared + Weight - 1
        PROVE  resultP[i + 1] = CalcFunction[i] /\ OwnValue(i) = CalcFunction[i]
    <3> DEFINE k == i - Compared + 1
    <3>1. k \in 1 .. MODULO /\ Compared + k - 1 = i
      BY <1>1, <1>2, <1>8
    <3>2. g = right /\ h = right
      BY <2>5, <2>7, <2>8
    <3>3. i # p /\ i # c
      BY <2>4, <3>1, <3>2
    <3> QED  BY <1>6, <3>3
  <2> QED  BY <2>6, <2>8
<1> QED  BY <1>7, <1>8

(* The consumer compares the next value, or the encoding: the alarm, or it *)
(* goes on.                                                                *)
LEMMA ConsumerDequeueOK ==
  ASSUME StreamIInv, ConsumerDequeue, ~exited
  PROVE  StreamIInv'
<1>1. /\ TypeOK /\ NoFalseAlarm /\ GroupInv /\ CountInv /\ ProducerInv /\ ConsumerInv
      /\ ErrorInv
  BY DEF StreamIInv
<1>2. /\ iP \in Nat /\ iC \in Nat /\ Compared \in Nat
      /\ Len(queue) \in Nat /\ Len(outP) \in Nat /\ Len(auxP) \in Nat
      /\ Len(auxC) \in Nat /\ Len(dueC) \in Nat /\ Len(resultC) \in Nat
      /\ faults \in Nat /\ queue \in Seq(Values)
      /\ dueC \in Seq(Values) /\ resultC \in Seq(Values)
  BY StreamTypes
<1>3. /\ MODULO \in Nat \ {0} /\ Weight \in Nat \ {0}
      /\ checkFrequency = "Encoding" => Weight = MODULO
      /\ checkFrequency # "Encoding" => Weight = 1
  BY <1>1, GroupSizeType
<1>4. /\ dueC # <<>> /\ queue # <<>> /\ queue' = Tail(queue)
      /\ checkFrequency' = checkFrequency /\ iP' = iP /\ auxP' = auxP /\ outP' = outP
      /\ resultP' = resultP /\ iC' = iC /\ auxC' = auxC /\ faults' = faults
      /\ IF Head(dueC) # Head(queue)
         THEN exited' = TRUE /\ dueC' = dueC /\ resultC' = resultC
         ELSE /\ dueC' = Tail(dueC) /\ exited' = exited
              /\ resultC' = IF checkFrequency = "Encoding"
                            THEN resultC ELSE Append(resultC, Head(queue))
  BY DEF ConsumerDequeue, producerVars
<1>5. /\ queue' \in Seq(Values) /\ Len(queue') = Len(queue) - 1 /\ Len(queue) > 0
      /\ \A k \in 1 .. Len(queue) - 1 : queue'[k] = queue[k + 1]
  BY <1>2, <1>4, HeadTailProperties, EmptySeq
<1>6. Len(queue') <= Capacity
  <2>1. Len(queue) <= Capacity /\ Capacity \in Nat
    BY <1>1, StreamAssumption DEF TypeOK
  <2> QED  BY <1>2, <1>5, <2>1
<1>7. GroupSize' = GroupSize /\ Weight' = Weight
  BY <1>4 DEF GroupSize, Weight
<1>8. /\ Head(queue) \in Values /\ Head(queue) = MessageAfter(1)
      /\ Compared + Weight <= iP /\ Compared + Weight <= iC
  BY <1>4, HeadsAre
<1>9. CASE Head(dueC) # Head(queue)
  <2>1. exited' /\ dueC' = dueC /\ resultC' = resultC /\ exited' \in BOOLEAN
    BY <1>4, <1>9
  <2>2. Compared' = Compared
    BY <1>4, <2>1 DEF Compared
  <2>3. TypeOK'
    BY <1>1, <1>4, <1>5, <1>6, <2>1 DEF TypeOK
  <2>4. NoFalseAlarm'
    <3>1. faults # 0
      BY <1>4, <1>9, ComparisonTells
    <3> QED  BY <1>2, <1>4, <3>1 DEF NoFalseAlarm
  <2>5. GroupInv'
    BY <1>1, <1>4, <1>7, <2>1 DEF GroupInv
  <2>6. CountInv'
    BY <1>1, <1>4, <1>7, <2>1, <2>2 DEF CountInv
  <2>7. ProducerInv'
    BY <1>1, <1>4, <2>1 DEF ProducerInv
  <2>8. ConsumerInv'
    <3>1. GroupOf(resultC, Compared)' = GroupOf(resultC, Compared)
      BY <2>1, <2>2 DEF GroupOf
    <3> QED  BY <1>1, <1>4, <2>1, <3>1 DEF ConsumerInv
  <2>9. ErrorInv'
    BY <2>1 DEF ErrorInv
  <2> QED  BY <2>3, <2>4, <2>5, <2>6, <2>7, <2>8, <2>9 DEF StreamIInv
<1>10. CASE Head(dueC) = Head(queue)
  <2>1. /\ dueC' = Tail(dueC) /\ exited' = exited
        /\ checkFrequency = "Encoding" => resultC' = resultC
        /\ checkFrequency # "Encoding" => resultC' = Append(resultC, Head(queue))
    BY <1>4, <1>10
  <2>2. /\ dueC' \in Seq(Values) /\ Len(dueC') = Len(dueC) - 1 /\ Len(dueC) > 0
        /\ \A k \in 1 .. Len(dueC) - 1 : dueC'[k] = dueC[k + 1]
    BY <1>2, <1>4, <2>1, HeadTailProperties, EmptySeq
  <2>3. auxC = <<>> /\ Len(auxC) = 0
    BY <1>1, <1>4, EmptySeq DEF GroupInv
  <2>4. /\ resultC' \in Seq(Values)
        /\ checkFrequency # "Encoding" =>
             /\ Len(resultC) = Compared /\ Len(resultC') = Compared + 1
             /\ (\A k \in 1 .. Compared : resultC'[k] = resultC[k])
             /\ resultC'[Compared + 1] = resultP[Compared + 1]
        /\ checkFrequency = "Encoding" =>
             Len(resultC) = iC /\ dueC' = <<>> /\ Len(dueC) = 1 /\ Len(dueC') = 0
    <3>1. CASE checkFrequency # "Encoding"
      <4>1. Len(resultC) = Compared /\ MessageAfter(1) = resultP[Compared + 1]
        BY <1>1, <3>1 DEF CountInv, MessageAfter
      <4>2. Head(queue) \in Values /\ Head(queue) = resultP[Compared + 1]
        BY <1>8, <4>1
      <4>3. resultC' = Append(resultC, Head(queue))
        BY <2>1, <3>1
      <4>4. /\ resultC' \in Seq(Values) /\ Len(resultC') = Compared + 1
            /\ (\A k \in 1 .. Compared : resultC'[k] = resultC[k])
            /\ resultC'[Compared + 1] = Head(queue)
        BY <1>2, <4>1, <4>2, <4>3, AppendProperties
      <4> QED  BY <3>1, <4>1, <4>2, <4>4
    <3>2. CASE checkFrequency = "Encoding"
      <4>1. Len(resultC) = iC /\ Len(dueC) = 1
        BY <1>1, <1>2, <2>2, <3>2 DEF CountInv, GroupInv
      <4>2. Len(dueC') = 0
        BY <2>2, <4>1
      <4>3. dueC' = <<>>
        BY <2>2, <4>2, EmptySeq
      <4> QED  BY <1>2, <2>1, <3>2, <4>1, <4>2, <4>3
    <3> QED  BY <3>1, <3>2
  <2>5. Compared' = Compared + Weight
    <3>1. CASE checkFrequency # "Encoding"
      <4>1. Compared = iC - Len(auxC) - Len(dueC)
        BY <3>1 DEF Compared
      <4>2. Compared' = iC - Len(auxC) - Len(dueC')
        BY <1>4, <3>1 DEF Compared
      <4> QED  BY <1>2, <1>3, <2>2, <3>1, <4>1, <4>2
    <3>2. CASE checkFrequency = "Encoding"
      <4>1. Compared = iC - Len(auxC) - MODULO
        BY <1>4, <3>2 DEF Compared
      <4>2. Compared' = iC - Len(auxC) - 0
        BY <1>4, <2>4, <3>2 DEF Compared
      <4> QED  BY <1>2, <1>3, <3>2, <4>1, <4>2
    <3> QED  BY <3>1, <3>2
  <2>6. TypeOK'
    <3>1. Len(dueC') <= MODULO
      <4>1. Len(dueC) <= MODULO
        BY <1>1 DEF TypeOK
      <4> QED  BY <1>2, <1>3, <2>2, <4>1
    <3> QED  BY <1>1, <1>4, <1>5, <1>6, <2>1, <2>2, <2>4, <3>1 DEF TypeOK
  <2>7. NoFalseAlarm'
    BY <2>1 DEF NoFalseAlarm
  <2>8. GroupInv'
    <3>1. checkFrequency = "Encoding" => Len(dueC') <= 1
      BY <2>4
    <3> QED  BY <1>1, <1>4, <1>7, <2>3, <3>1 DEF GroupInv
  <2>9. CountInv'
    <3>1. iP = Compared + (Len(queue) + Len(outP)) * Weight + Len(auxP)
      BY <1>1 DEF CountInv
    <3>2. iP = Compared + Weight + (Len(queue) - 1 + Len(outP)) * Weight + Len(auxP)
      BY <1>2, <1>3, <3>1
    <3>3. Compared' \in Nat
      BY <1>2, <1>3, <2>5
    <3>4. Len(resultC') = IF checkFrequency = "Encoding" THEN iC ELSE Compared'
      BY <1>3, <2>1, <2>4, <2>5
    <3>5. Len(resultP) = iP
      BY <1>1 DEF CountInv
    <3> QED  BY <1>4, <1>5, <1>7, <2>5, <3>2, <3>3, <3>4, <3>5 DEF CountInv
  <2>10. \A k \in Nat : MessageAfter(k)' = MessageAfter(k + 1)
    <3> SUFFICES ASSUME NEW k \in Nat
                 PROVE  MessageAfter(k)' = MessageAfter(k + 1)
      OBVIOUS
    <3>1. CASE checkFrequency # "Encoding"
      <4>1. Compared' + k = Compared + (k + 1)
        BY <1>2, <1>3, <2>5, <3>1
      <4> QED  BY <1>4, <3>1, <4>1 DEF MessageAfter
    <3>2. CASE checkFrequency = "Encoding"
      <4>1. Compared' + (k - 1) * MODULO = Compared + (k + 1 - 1) * MODULO
        BY <1>2, <1>3, <2>5, <3>2
      <4>2. MessageAfter(k)' = XorOf(GroupOf(resultP, Compared' + (k - 1) * MODULO))
        BY <1>4, <3>2 DEF MessageAfter, GroupOf
      <4> QED  BY <3>2, <4>1, <4>2 DEF MessageAfter
    <3> QED  BY <3>1, <3>2
  <2>11. ProducerInv'
    <3>1. /\ \A k \in 1 .. Len(queue) : queue[k] = MessageAfter(k)
          /\ \A k \in 1 .. Len(outP) : outP[k] = MessageAfter(Len(queue) + k)
          /\ \A k \in 1 .. Len(auxP) : auxP[k] = resultP[iP - Len(auxP) + k]
      BY <1>1 DEF ProducerInv
    <3>2. ASSUME NEW k \in 1 .. Len(queue')
          PROVE  queue'[k] = MessageAfter(k)'
      <4>1. k \in Nat /\ k \in 1 .. Len(queue) - 1 /\ k + 1 \in 1 .. Len(queue)
        BY <1>2, <1>5
      <4>2. queue'[k] = queue[k + 1] /\ queue[k + 1] = MessageAfter(k + 1)
        BY <1>5, <3>1, <4>1
      <4>3. MessageAfter(k)' = MessageAfter(k + 1)
        BY <2>10, <4>1
      <4> QED  BY <4>2, <4>3
    <3>3. ASSUME NEW k \in 1 .. Len(outP)
          PROVE  outP[k] = MessageAfter(Len(queue) + k)'
      <4>1. PICK j \in Nat : j = Len(queue') + k
        <5>1. Len(queue') + k \in Nat
          BY <1>2, <1>5
        <5> QED  BY <5>1
      <4>2. j + 1 = Len(queue) + k
        BY <1>2, <1>5, <4>1
      <4>3. MessageAfter(j)' = MessageAfter(j + 1)
        BY <2>10
      <4>4. MessageAfter(Len(queue) + k)' = MessageAfter(j)'
        BY <4>1 DEF MessageAfter
      <4> QED  BY <3>1, <4>2, <4>3, <4>4
    <3> QED  BY <1>4, <3>1, <3>2, <3>3 DEF ProducerInv
  <2>12. ConsumerInv'
    <3>1. CASE checkFrequency = "Encoding"
      BY <1>4, <2>3, <2>4, <3>1 DEF ConsumerInv
    <3>2. CASE checkFrequency # "Encoding"
      <4>1. \A k \in 1 .. Compared : resultC[k] = resultP[k]
        BY <1>1, <2>4, <3>2 DEF ConsumerInv
      <4>2. \A k \in 1 .. Compared + 1 : resultC'[k] = resultP[k]
        BY <1>2, <2>4, <3>2, <4>1
      <4> QED  BY <1>4, <2>4, <3>2, <4>2 DEF ConsumerInv
    <3> QED  BY <3>1, <3>2
  <2>13. \A i \in Compared' .. iC - 1 : OwnValue(i)' = OwnValue(i)
    <3> SUFFICES ASSUME NEW i \in Compared' .. iC - 1
                 PROVE  OwnValue(i)' = OwnValue(i)
      OBVIOUS
    <3>1. CASE checkFrequency = "Encoding"
      BY <1>4, <2>1, <3>1 DEF OwnValue
    <3>2. CASE checkFrequency # "Encoding"
      <4>1. Compared' = Compared + 1 /\ Compared' + Len(dueC') = Compared + Len(dueC)
        BY <1>2, <1>3, <2>2, <2>5, <3>2
      <4>2. i < Compared + Len(dueC)
        BY <1>2, <1>3, <2>3, <3>2, ComparedIs
      <4>3. i - Compared' + 1 \in 1 .. Len(dueC) - 1
        BY <1>2, <4>1, <4>2
      <4>4. dueC'[i - Compared' + 1] = dueC[i - Compared + 1]
        <5>1. i - Compared' + 1 + 1 = i - Compared + 1
          BY <1>2, <4>1
        <5> QED  BY <2>2, <4>3, <5>1
      <4> QED  BY <1>4, <3>2, <4>1, <4>2, <4>4 DEF OwnValue
    <3> QED  BY <3>1, <3>2
  <2>14. ErrorInv'
    <3> SUFFICES ASSUME faults <= 1
                 PROVE  /\ \A i \in 0 .. Compared' - 1 :
                               /\ resultC'[i + 1] = CalcFunction[i]
                               /\ resultP[i + 1] = CalcFunction[i]
                        /\ \E p \in -1 .. iP - 1, c \in -1 .. iC - 1 : ErrorAt(p, c)'
      BY <1>4 DEF ErrorInv
    <3>1. \A i \in 0 .. Compared - 1 :
            resultC[i + 1] = CalcFunction[i] /\ resultP[i + 1] = CalcFunction[i]
      BY <1>1 DEF ErrorInv
    <3>2. \A i \in Compared .. Compared + Weight - 1 :
            resultP[i + 1] = CalcFunction[i] /\ OwnValue(i) = CalcFunction[i]
      BY <1>4, <1>10, ComparisonTells
    <3>3. ASSUME NEW i \in 0 .. Compared' - 1
          PROVE  resultC'[i + 1] = CalcFunction[i] /\ resultP[i + 1] = CalcFunction[i]
      <4>1. CASE i < Compared
        <5>1. i \in 0 .. Compared - 1 /\ i + 1 \in 1 .. Compared
          BY <1>2, <4>1
        <5> QED  BY <2>1, <2>4, <3>1, <5>1
      <4>2. CASE ~(i < Compared)
        <5>1. i \in Compared .. Compared + Weight - 1
          BY <1>2, <1>3, <2>5, <4>2
        <5>2. CASE checkFrequency = "Encoding"
          BY <2>1, <3>2, <5>1, <5>2 DEF OwnValue
        <5>3. CASE checkFrequency # "Encoding"
          <6>1. i = Compared
            BY <1>2, <1>3, <5>1, <5>3
          <6> QED  BY <2>4, <3>2, <5>1, <5>3, <6>1
        <5> QED  BY <5>2, <5>3
      <4> QED  BY <4>1, <4>2
    <3>4. PICK p \in -1 .. iP - 1, c \in -1 .. iC - 1 : ErrorAt(p, c)
      BY <1>1 DEF ErrorInv
    <3>5. \A i \in Compared' .. iP - 1 : i \in Compared .. iP - 1
      BY <1>2, <1>3, <2>5
    <3>6. \A i \in Compared' .. iC - 1 : i \in Compared .. iC - 1
      BY <1>2, <1>3, <2>5
    <3>7. ProducerWrong(p)' /\ ConsumerWrong(c)'
      BY <1>4, <2>13, <3>4, <3>5, <3>6 DEF ErrorAt, ProducerWrong, ConsumerWrong
    <3>8. /\ p >= Compared => p >= Compared'
          /\ c >= Compared => c >= Compared'
      <4>1. ASSUME p >= Compared, ~(p >= Compared')
            PROVE  FALSE
        <5>1. p \in Compared .. Compared + Weight - 1 /\ p \in Compared .. iP - 1
          BY <1>2, <1>3, <1>8, <2>5, <4>1
        <5> QED  BY <3>2, <3>4, <5>1 DEF ErrorAt, ProducerWrong
      <4>2. ASSUME c >= Compared, ~(c >= Compared')
            PROVE  FALSE
        <5>1. c \in Compared .. Compared + Weight - 1 /\ c \in Compared .. iC - 1
          BY <1>2, <1>3, <1>8, <2>5, <4>2
        <5> QED  BY <3>2, <3>4, <5>1 DEF ErrorAt, ConsumerWrong
      <4> QED  BY <4>1, <4>2
    <3>9. ErrorAt(p, c)'
      BY <1>4, <3>4, <3>7, <3>8 DEF ErrorAt
    <3> QED  BY <3>3, <3>9
  <2> QED  BY <2>6, <2>7, <2>8, <2>9, <2>11, <2>12, <2>14 DEF StreamIInv
<1> QED  BY <1>9, <1>10

(* Every step keeps the invariant.                                         *)
LEMMA StreamNext == StreamIInv /\ [Next]_vars => StreamIInv'
<1> SUFFICES ASSUME StreamIInv, [Next]_vars
             PROVE  StreamIInv'
  OBVIOUS
<1>1. CASE Producer
  BY <1>1, ProducerCalculateOK, ProducerEnqueueOK DEF Producer
<1>2. CASE Consumer
  BY <1>2, ConsumerCalculateOK, ConsumerDequeueOK DEF Consumer
<1>3. CASE UNCHANGED vars
  <2>1. /\ checkFrequency' = checkFrequency /\ queue' = queue
        /\ iP' = iP /\ auxP' = auxP /\ outP' = outP /\ resultP' = resultP
        /\ iC' = iC /\ auxC' = auxC /\ dueC' = dueC /\ resultC' = resultC
        /\ exited' = exited /\ faults' = faults
    BY <1>3 DEF vars, producerVars, consumerVars
  <2>2. /\ GroupSize' = GroupSize /\ Weight' = Weight /\ Compared' = Compared
    BY <2>1 DEF GroupSize, Weight, Compared
  <2>3. /\ \A k : MessageAfter(k)' = MessageAfter(k)
        /\ \A i : OwnValue(i)' = OwnValue(i)
        /\ GroupOf(resultC, Compared)' = GroupOf(resultC, Compared)
    BY <2>1, <2>2 DEF MessageAfter, OwnValue, GroupOf
  <2>4. TypeOK' /\ NoFalseAlarm'
    BY <2>1 DEF StreamIInv, TypeOK, NoFalseAlarm
  <2>5. GroupInv' /\ CountInv'
    BY <2>1, <2>2 DEF StreamIInv, GroupInv, CountInv
  <2>6. ProducerInv' /\ ConsumerInv'
    BY <2>1, <2>3 DEF StreamIInv, ProducerInv, ConsumerInv
  <2>7. ASSUME NEW p \in -1 .. iP - 1, NEW c \in -1 .. iC - 1, ErrorAt(p, c)
        PROVE  ErrorAt(p, c)'
    BY <2>1, <2>2, <2>3, <2>7 DEF ErrorAt, ProducerWrong, ConsumerWrong
  <2>8. ErrorInv'
    BY <2>1, <2>2, <2>7 DEF StreamIInv, ErrorInv
  <2> QED  BY <2>4, <2>5, <2>6, <2>8 DEF StreamIInv
<1> QED  BY <1>1, <1>2, <1>3 DEF Next, Ended

(* When both threads are done without an alarm, every value was compared.  *)
LEMMA AllCompared ==
  ASSUME StreamIInv, AllDone, ~exited
  PROVE  /\ Compared = NumValues /\ iP = NumValues /\ iC = NumValues
         /\ Len(resultP) = NumValues /\ Len(resultC) = NumValues
<1>1. /\ iP = NumValues /\ iC = NumValues /\ outP = <<>> /\ dueC = <<>>
  BY DEF AllDone
<1>2. /\ NumValues \in Nat /\ Compared \in Nat /\ TypeOK
      /\ Len(auxC) \in Nat /\ Len(auxP) \in Nat
  BY StreamTypes
<1>3. GroupSize \in Nat \ {0} /\ MODULO \in Nat \ {0} /\ NumValues % MODULO = 0
  BY <1>2, GroupSizeType, StreamAssumption
<1>4. Len(auxC) = 0
  <2>1. PICK k \in Nat : NumValues = k * GroupSize + Len(auxC)
    BY <1>1 DEF StreamIInv, GroupInv
  <2>2. Len(auxC) < GroupSize
    BY DEF StreamIInv, GroupInv
  <2>3. CASE checkFrequency = "everyTime"
    BY <1>2, <2>2, <2>3 DEF GroupSize
  <2>4. CASE checkFrequency # "everyTime"
    <3> DEFINE r == Len(auxC)
    <3>1. NumValues = k * MODULO + r /\ r \in 0 .. MODULO - 1 /\ k \in Int
      BY <1>2, <1>3, <2>1, <2>2, <2>4 DEF GroupSize
    <3> HIDE DEF r
    <3>2. NumValues % MODULO = r
      BY <1>3, <3>1, RestOf
    <3> QED  BY <1>3, <3>2 DEF r
  <2> QED  BY <2>3, <2>4
<1>5. Compared = NumValues
  <2>1. Len(dueC) = 0
    BY <1>1, EmptySeq
  <2>2. Compared = IF checkFrequency = "Encoding"
                   THEN iC - Len(auxC) - 0 ELSE iC - Len(auxC) - Len(dueC)
    BY <1>1 DEF Compared
  <2> QED  BY <1>1, <1>2, <1>4, <2>1, <2>2
<1> QED  BY <1>1, <1>5 DEF StreamIInv, CountInv

(* The invariant implies what is promised of the streams.                  *)
LEMMA StreamSound ==
  StreamIInv => StreamInv /\ ComparedIsRight /\ ResultsAgree
<1> SUFFICES ASSUME StreamIInv
             PROVE  StreamInv /\ ComparedIsRight /\ ResultsAgree
  OBVIOUS
<1>1. /\ resultP \in Seq(Values) /\ resultC \in Seq(Values) /\ faults \in Nat
      /\ NumValues \in Nat
  BY StreamTypes
<1>3. ComparedIsRight
  BY DEF StreamIInv, ErrorInv, ComparedIsRight
<1>4. NoErrorMissed
  <2> SUFFICES ASSUME AllDone, faults = 1, ~exited
               PROVE  FALSE
    BY DEF NoErrorMissed
  <2>1. Compared = NumValues /\ iP = NumValues /\ iC = NumValues
    BY AllCompared
  <2>2. PICK p \in -1 .. iP - 1, c \in -1 .. iC - 1 : ErrorAt(p, c)
    BY DEF StreamIInv, ErrorInv
  <2> QED  BY <1>1, <2>1, <2>2 DEF ErrorAt
<1>5. ResultsAgree
  <2> SUFFICES ASSUME AllDone, ~exited, checkFrequency = "Encoding" => faults <= 1
               PROVE  resultP = resultC
    BY DEF ResultsAgree
  <2>1. /\ Compared = NumValues
        /\ Len(resultP) = NumValues /\ Len(resultC) = NumValues
    BY AllCompared
  <2>2. \A k \in 1 .. NumValues : resultP[k] = resultC[k]
    <3>1. CASE checkFrequency = "Encoding"
      <4>1. \A i \in 0 .. NumValues - 1 :
              resultC[i + 1] = CalcFunction[i] /\ resultP[i + 1] = CalcFunction[i]
        BY <2>1, <3>1 DEF StreamIInv, ErrorInv
      <4>2. \A k \in 1 .. NumValues : k - 1 \in 0 .. NumValues - 1 /\ k - 1 + 1 = k
        BY <1>1
      <4> QED  BY <4>1, <4>2
    <3>2. CASE checkFrequency # "Encoding"
      BY <2>1, <3>2 DEF StreamIInv, ConsumerInv
    <3> QED  BY <3>1, <3>2
  <2> QED  BY <1>1, <2>1, <2>2, SeqEqual
<1>6. StreamInv
  BY <1>4 DEF StreamIInv, StreamInv
<1> QED  BY <1>3, <1>5, <1>6

LEMMA StreamInvariance == Spec => []StreamIInv
  BY StreamInit, StreamNext, PTL DEF Spec

-----------------------------------------------------------------------------
(* No group outgrows MODULO nor the queue its capacity; the alarm means a  *)
(* soft error, because the groups of the two threads stay aligned; and one *)
(* soft error means the alarm, before both threads are done.               *)
THEOREM StreamsSafe == Spec => []StreamInv
<1>1. StreamIInv => StreamInv
  BY StreamSound
<1> QED  BY <1>1, StreamInvariance, PTL

(* As long as there was one soft error at most, what the consumer compared *)
(* and added is right.                                                     *)
THEOREM StreamsCompareRight == Spec => []ComparedIsRight
<1>1. StreamIInv => ComparedIsRight
  BY StreamSound
<1> QED  BY <1>1, StreamInvariance, PTL

(* Executions that were not abandoned end with equal results; with the     *)
(* encoding, if there was one soft error at most.                          *)
THEOREM StreamsAgree == Spec => []ResultsAgree
<1>1. StreamIInv => ResultsAgree
  BY StreamSound
<1> QED  BY <1>1, StreamInvariance, PTL

=============================================================================
