---------------------------- MODULE Queues_proofs ----------------------------
(***************************************************************************)
(* The two queues of Queues.c are channels.                                *)
(*                                                                         *)
(* SectionQueue, for every number and size of sections: with p sections    *)
(* handed over and c handed back so far, the sections from c up to p are   *)
(* in read mode and hold the entries of their turn, the producer fills     *)
(* section p and the consumer empties section c, less than a lap behind it.*)
(*                                                                         *)
(* SimpleQueue, for every size and every number of entries: each slot from *)
(* deqPtr up to enqPtr holds the entry of its turn, and the pointers are   *)
(* as far apart as the counts say, never a whole lap.                      *)
(***************************************************************************)
EXTENDS MCQueues, SequenceTheorems, TLAPS

-----------------------------------------------------------------------------
(* Runs of consecutive numbers, and positions round a ring of sections.    *)

(* The d numbers from n on.                                                *)
From(n, d) == [k \in 1 .. d |-> n + k - 1]

(* A run is a sequence: its length, and when it is empty.                  *)
LEMMA FromIsSeq ==
  ASSUME NEW n \in Nat, NEW d \in Nat
  PROVE  /\ From(n, d) \in Seq(Nat)
         /\ Len(From(n, d)) = d
         /\ From(n, d) = <<>> <=> d = 0
<1>1. From(n, d) \in [1 .. d -> Nat]
  BY DEF From
<1>2. From(n, d) \in Seq(Nat)
  BY <1>1, SeqDef
<1>3. Len(From(n, d)) = d
  BY <1>2, LenProperties DEF From
<1> QED  BY <1>2, <1>3, EmptySeq

(* Two sequences with the same length and elements are the same.           *)
LEMMA SeqExt ==
  ASSUME NEW S, NEW s \in Seq(S), NEW t \in Seq(S), Len(s) = Len(t),
         \A k \in 1 .. Len(s) : s[k] = t[k]
  PROVE  s = t
<1>1. s \in [1 .. Len(s) -> S] /\ t \in [1 .. Len(s) -> S]
  BY LenProperties
<1> QED  BY <1>1

(* The next number extends a run at its end.                               *)
LEMMA FromAppend ==
  ASSUME NEW n \in Nat, NEW d \in Nat
  PROVE  Append(From(n, d), n + d) = From(n, d + 1)
<1> DEFINE s == Append(From(n, d), n + d)
           t == From(n, d + 1)
<1>1. /\ From(n, d) \in Seq(Nat) /\ Len(From(n, d)) = d
      /\ t \in Seq(Nat) /\ Len(t) = d + 1
  <2>1. d + 1 \in Nat
    OBVIOUS
  <2> QED  BY <2>1, FromIsSeq, Zenon
<1>2. /\ s \in Seq(Nat) /\ Len(s) = d + 1
      /\ \A k \in 1 .. d : s[k] = From(n, d)[k]
      /\ s[d + 1] = n + d
  <2>1. n + d \in Nat
    OBVIOUS
  <2> DEFINE f == From(n, d)
             e == n + d
  <2>2. f \in Seq(Nat) /\ Len(f) = d /\ e \in Nat /\ s = Append(f, e)
    BY <1>1, <2>1
  <2> HIDE DEF f, e, s
  <2>3. /\ s \in Seq(Nat) /\ Len(s) = Len(f) + 1
        /\ \A k \in 1 .. Len(f) : s[k] = f[k]
        /\ s[Len(f) + 1] = e
    BY <2>2, AppendProperties, SMTT(30)
  <2> QED  BY <2>2, <2>3 DEF f, e
<1>3. \A k \in 1 .. d + 1 : t[k] = n + k - 1
  BY DEF From
<1>4. \A k \in 1 .. d : From(n, d)[k] = n + k - 1
  BY DEF From
<1> HIDE DEF s, t
<1>5. ASSUME NEW k \in 1 .. d + 1
      PROVE  s[k] = t[k]
  <2>1. CASE k = d + 1
    BY <1>2, <1>3, <2>1
  <2>2. CASE k \in 1 .. d
    BY <1>2, <1>3, <1>4, <2>2
  <2> QED  BY <2>1, <2>2
<1>6. s = t
  BY <1>1, <1>2, <1>5, SeqExt
<1> QED  BY <1>6 DEF s, t

(* Its first number leaves it at the front.                                *)
LEMMA FromHeadTail ==
  ASSUME NEW n \in Nat, NEW d \in Nat \ {0}
  PROVE  /\ Head(From(n, d)) = n
         /\ Tail(From(n, d)) = From(n + 1, d - 1)
<1> DEFINE s == From(n, d)
           t == From(n + 1, d - 1)
<1>1. s \in Seq(Nat) /\ Len(s) = d /\ s # <<>>
  BY FromIsSeq
<1>2. t \in Seq(Nat) /\ Len(t) = d - 1
  BY FromIsSeq
<1>3. (\A k \in 1 .. d : s[k] = n + k - 1) /\ (\A k \in 1 .. d - 1 : t[k] = n + k)
  BY DEF From
<1> HIDE DEF s, t
<1>4. Head(s) = n
  <2>1. Head(s) = s[1]
    BY <1>1
  <2> QED  BY <1>3, <2>1
<1>5. /\ Tail(s) \in Seq(Nat) /\ Len(Tail(s)) = d - 1
      /\ \A k \in 1 .. Len(Tail(s)) : Tail(s)[k] = s[k + 1]
  BY <1>1, HeadTailProperties
<1>6. \A k \in 1 .. d - 1 : Tail(s)[k] = t[k]
  BY <1>3, <1>5
<1>7. Tail(s) = t
  BY <1>2, <1>5, <1>6, SeqExt
<1> QED  BY <1>4, <1>7 DEF s, t

(* The division of a number put together from quotient and remainder.      *)
LEMMA DivMod ==
  ASSUME NEW m \in Nat \ {0}, NEW q \in Int, NEW r \in 0 .. m - 1
  PROVE  (q * m + r) \div m = q /\ (q * m + r) % m = r
OBVIOUS

(* The same for a number that is known to be put together so.              *)
LEMMA DivModOf ==
  ASSUME NEW m \in Nat \ {0}, NEW i, NEW q \in Int, NEW r \in 0 .. m - 1,
         i = q * m + r
  PROVE  i \div m = q /\ i % m = r
BY DivMod

(* Stepping round a ring.                                                  *)
LEMMA RingStep ==
  ASSUME NEW m \in Nat \ {0}, NEW x \in 0 .. m - 1
  PROVE  (x + 1) % m = IF x + 1 = m THEN 0 ELSE x + 1
<1>1. CASE x + 1 = m
  <2>1. x + 1 = 1 * m + 0
    BY <1>1
  <2> QED  BY <1>1, <2>1, DivMod
<1>2. CASE x + 1 < m
  OBVIOUS
<1> QED  BY <1>1, <1>2

(* Adding to a position, and the distance from one position to another.    *)
LEMMA RingSum ==
  ASSUME NEW m \in Nat \ {0}, NEW x \in 0 .. m - 1, NEW d \in 0 .. m - 1
  PROVE  (x + d) % m = IF x + d < m THEN x + d ELSE x + d - m
<1>1. CASE x + d < m
  BY <1>1
<1>2. CASE ~(x + d < m)
  <2>1. x + d = 1 * m + (x + d - m) /\ x + d - m \in 0 .. m - 1
    BY <1>2
  <2> QED  BY <1>2, <2>1, DivMod
<1> QED  BY <1>1, <1>2

LEMMA RingDistance ==
  ASSUME NEW m \in Nat \ {0}, NEW x \in 0 .. m - 1, NEW y \in 0 .. m - 1
  PROVE  (y - x) % m = IF y >= x THEN y - x ELSE y - x + m
<1>1. CASE y >= x
  BY <1>1
<1>2. CASE ~(y >= x)
  <2>1. y - x = (-1) * m + (y - x + m) /\ y - x + m \in 0 .. m - 1
    BY <1>2
  <2> QED  BY <1>2, <2>1, DivMod
<1> QED  BY <1>1, <1>2

(* Every number is put together from quotient and remainder.               *)
LEMMA QuotientAndRemainder ==
  ASSUME NEW i \in Int, NEW m \in Nat \ {0}, NEW q \in Int, NEW r \in Int,
         q = i \div m, r = i % m
  PROVE  i = q * m + r
OBVIOUS

LEMMA Euclid ==
  ASSUME NEW i \in Int, NEW m \in Nat \ {0}
  PROVE  \E q \in Int, r \in 0 .. m - 1 :
           i = q * m + r /\ i \div m = q /\ i % m = r
<1> DEFINE q == i \div m
           r == i % m
<1>1. q \in Int /\ r \in 0 .. m - 1 /\ r \in Int /\ q = i \div m /\ r = i % m
  OBVIOUS
<1> HIDE DEF q, r
<1>2. i = q * m + r
  BY <1>1, QuotientAndRemainder
<1> QED  BY <1>1, <1>2, Zenon

(* Multiples of a number are ordered as their factors.                     *)
LEMMA MulMono ==
  ASSUME NEW m \in Nat, NEW a \in Int, NEW b \in Int, a <= b
  PROVE  a * m <= b * m
OBVIOUS

(* The remainders of consecutive numbers go round a ring: what follows     *)
(* one, what it is a lap later, and that less than a lap apart they differ.*)
LEMMA ModSucc ==
  ASSUME NEW m \in Nat \ {0}, NEW a \in Int
  PROVE  ((a % m) + 1) % m = (a + 1) % m
<1>1. PICK q \in Int, r \in 0 .. m - 1 : a = q * m + r /\ a % m = r
  BY Euclid, Zenon
<1>2. CASE r + 1 = m
  <2>1. a + 1 = (q + 1) * m + 0 /\ q + 1 \in Int /\ 0 \in 0 .. m - 1
    BY <1>1, <1>2
  <2>2. (a + 1) % m = 0
    BY <2>1, DivModOf, Zenon
  <2>3. (r + 1) % m = 0
    BY <1>2, RingStep
  <2> QED  BY <1>1, <2>2, <2>3, Zenon
<1>3. CASE r + 1 < m
  <2>1. a + 1 = q * m + (r + 1) /\ r + 1 \in 0 .. m - 1
    BY <1>1, <1>3
  <2>2. (a + 1) % m = r + 1
    BY <2>1, DivMod
  <2>3. (r + 1) % m = r + 1
    BY <1>3, RingStep
  <2> QED  BY <1>1, <2>2, <2>3, Zenon
<1> QED  BY <1>2, <1>3

LEMMA ModLap ==
  ASSUME NEW m \in Nat \ {0}, NEW a \in Int
  PROVE  (a + m) % m = a % m
<1>1. PICK q \in Int, r \in 0 .. m - 1 : a = q * m + r /\ a % m = r
  BY Euclid, Zenon
<1>2. a + m = (q + 1) * m + r /\ q + 1 \in Int
  BY <1>1
<1>3. (a + m) % m = r
  BY <1>2, DivModOf, Zenon
<1> QED  BY <1>1, <1>3, Zenon

LEMMA ModApart ==
  ASSUME NEW m \in Nat \ {0}, NEW a \in Int, NEW b \in Int,
         a < b, b < a + m
  PROVE  a % m # b % m
<1> SUFFICES ASSUME a % m = b % m
             PROVE  FALSE
  OBVIOUS
<1>1. PICK x \in Int, r \in 0 .. m - 1 : a = x * m + r /\ a % m = r
  BY Euclid, Zenon
<1>2. PICK y \in Int, t \in 0 .. m - 1 : b = y * m + t /\ b % m = t
  BY Euclid, Zenon
<1>3. r = t
  BY <1>1, <1>2, Zenon
<1>4. y * m > x * m /\ y * m < (x + 1) * m
  BY <1>1, <1>2, <1>3
<1>5. CASE y <= x
  BY <1>4, <1>5, MulMono
<1>6. CASE y >= x + 1
  BY <1>4, <1>6, MulMono
<1> QED  BY <1>5, <1>6

(* A ring of n sections of m slots each: the slots from q * m on are the   *)
(* section q % n.                                                          *)
LEMMA SectionPosition ==
  ASSUME NEW n \in Nat \ {0}, NEW m \in Nat \ {0},
         NEW q \in Int, NEW r \in 0 .. m - 1
  PROVE  /\ ((q * m + r) % (n * m)) \div m = q % n
         /\ ((q * m + r) % (n * m)) % m = r
<1>1. PICK x \in Int, s \in 0 .. n - 1 : q = x * n + s /\ q % n = s
  BY Euclid, Zenon
<1>2. q * m + r = x * (n * m) + (s * m + r)
  BY <1>1
<1>3. s * m + r \in 0 .. n * m - 1 /\ n * m \in Nat \ {0}
  <2>1. s * m <= (n - 1) * m /\ 0 * m <= s * m /\ 1 * m <= n * m
    BY MulMono
  <2>2. (n - 1) * m = n * m - m
    OBVIOUS
  <2> QED  BY <2>1, <2>2
<1>4. (q * m + r) % (n * m) = s * m + r
  <2> DEFINE l == n * m
             i == q * m + r
             j == s * m + r
  <2>1. i = x * l + j /\ j \in 0 .. l - 1 /\ l \in Nat \ {0}
    BY <1>2, <1>3
  <2> HIDE DEF i, j, l
  <2>2. i % l = j
    BY <2>1, DivMod
  <2> QED  BY <2>2 DEF i, j, l
<1>5. (s * m + r) \div m = s /\ (s * m + r) % m = r
  BY DivMod
<1> QED  BY <1>1, <1>4, <1>5, Zenon

-----------------------------------------------------------------------------
(* The slots of the section in hand that are done with.                    *)
Filled  == IF pcP = "hand over" THEN SectionSize ELSE enqPtr
Emptied == IF pcC = "hand back" THEN SectionSize ELSE deqPtr

CountsOK(p, c) ==
  /\ sent = p * SectionSize + Filled
  /\ Len(got) = c * SectionSize + Emptied
  /\ c <= p /\ p <= c + NumSections

(* isReadMode tells the sections that were handed over from those that     *)
(* were handed back.                                                       *)
ModesOK(p, c) ==
  /\ enqueueSection = p % NumSections
  /\ dequeueSection = c % NumSections
  /\ \A q \in c .. c + NumSections - 1 : isReadMode[q % NumSections] <=> q < p

(* A thread that works in a section has it to itself.                      *)
ControlOK(p, c) ==
  /\ pcP # "wait" \/ enqPtr # 0 => p < c + NumSections
  /\ pcC # "wait" \/ deqPtr # 0 => c < p
  /\ pcP = "hand over" => enqPtr = 0
  /\ pcC = "hand back" => deqPtr = 0
  /\ pcP = "store" => sent < Count

(* The slots that were filled and not yet read.                            *)
Full(q, r, p, c) == (q < p \/ r < Filled) /\ (q > c \/ r >= Emptied)

ContentOK(p, c) ==
  \A q \in c .. p, r \in SlotIdx :
    Full(q, r, p, c) => content[q % NumSections][r] = q * SectionSize + r

Fit(p, c) == CountsOK(p, c) /\ ModesOK(p, c) /\ ControlOK(p, c) /\ ContentOK(p, c)

IInv == TypeOK /\ \E p, c \in Nat : Fit(p, c)

-----------------------------------------------------------------------------
LEMMA InitOK == Init => IInv
<1> SUFFICES ASSUME Init
             PROVE  IInv
  OBVIOUS
<1> USE SectionQueueAssumption
<1>1. Len(got) = 0 /\ got \in Seq(Entries \cup {Uninitialized})
  BY EmptySeq DEF Init
<1>2. TypeOK
  BY <1>1 DEF Init, TypeOK, SlotIdx, SectionIdx
<1>3. Filled = 0 /\ Emptied = 0 /\ sent = 0
  BY DEF Init, Filled, Emptied
<1>4. CountsOK(0, 0)
  BY <1>1, <1>3 DEF CountsOK
<1>5. ModesOK(0, 0)
  <2>1. 0 % NumSections = 0
    OBVIOUS
  <2>2. ASSUME NEW q \in 0 .. 0 + NumSections - 1
        PROVE  ~isReadMode[q % NumSections] /\ ~(q < 0)
    <3>1. q % NumSections \in SectionIdx
      BY DEF SectionIdx
    <3> QED  BY <3>1 DEF Init
  <2> QED  BY <2>1, <2>2 DEF Init, ModesOK
<1>6. ControlOK(0, 0)
  BY DEF Init, ControlOK
<1>7. ContentOK(0, 0)
  BY <1>3 DEF ContentOK, Full, SlotIdx
<1> QED  BY <1>2, <1>4, <1>5, <1>6, <1>7 DEF IInv, Fit

(* The numbers that the steps below calculate with.                        *)
LEMMA Numbers ==
  ASSUME TypeOK, NEW p \in Nat, NEW c \in Nat, Fit(p, c)
  PROVE  /\ SectionSize \in Nat \ {0} /\ NumSections \in Nat \ {0}
         /\ Len(got) \in Nat /\ sent \in Nat
         /\ enqPtr \in 0 .. SectionSize - 1 /\ deqPtr \in 0 .. SectionSize - 1
         /\ Filled \in 0 .. SectionSize /\ Emptied \in 0 .. SectionSize
         /\ p * SectionSize \in Nat /\ c * SectionSize \in Nat
<1>1. SectionSize \in Nat \ {0} /\ NumSections \in Nat \ {0} /\ Count \in Nat
  BY SectionQueueAssumption
<1>2. Len(got) \in Nat
  BY LenProperties DEF TypeOK
<1>3. enqPtr \in 0 .. SectionSize - 1 /\ deqPtr \in 0 .. SectionSize - 1 /\ sent \in 0 .. Count
  BY DEF TypeOK, SlotIdx
<1>4. Filled \in 0 .. SectionSize /\ Emptied \in 0 .. SectionSize
  <2>1. /\ SectionSize \in 0 .. SectionSize
        /\ enqPtr \in 0 .. SectionSize /\ deqPtr \in 0 .. SectionSize
    BY <1>1, <1>3
  <2> QED  BY <2>1 DEF Filled, Emptied
<1>5. p * SectionSize \in Nat /\ c * SectionSize \in Nat
  BY <1>1, MulMono
<1> QED  BY <1>1, <1>2, <1>3, <1>4, <1>5

(* Sections less than a lap apart are different ones.                      *)
LEMMA SectionsApart ==
  ASSUME NEW c \in Nat, NEW a \in c .. c + NumSections - 1,
         NEW b \in c .. c + NumSections - 1, a # b
  PROVE  a % NumSections # b % NumSections
<1>1. NumSections \in Nat \ {0} /\ a \in Int /\ b \in Int
  BY SectionQueueAssumption
<1>2. CASE a < b
  <2>1. b < a + NumSections
    BY <1>1
  <2> QED  BY <1>1, <1>2, <2>1, ModApart
<1>3. CASE b < a
  <2>1. a < b + NumSections
    BY <1>1
  <2> QED  BY <1>1, <1>3, <2>1, ModApart
<1> QED  BY <1>1, <1>2, <1>3

-----------------------------------------------------------------------------
LEMMA EnqueueWaitOK ==
  ASSUME TypeOK, NEW p \in Nat, NEW c \in Nat, Fit(p, c), EnqueueWait
  PROVE  TypeOK' /\ Fit(p, c)'
<1>0. /\ pcP = "wait" /\ pcP' = "store" /\ sent < Count /\ ~isReadMode[enqueueSection]
      /\ UNCHANGED <<sectionVars, enqPtr, enqueueSection, sent, consumerVars>>
  BY DEF EnqueueWait
<1>1. TypeOK' /\ Filled' = Filled /\ Emptied' = Emptied
  BY <1>0 DEF sectionVars, consumerVars, TypeOK, Filled, Emptied
<1>2. p < c + NumSections
  <2>1. NumSections \in Nat \ {0} /\ p <= c + NumSections
    BY SectionQueueAssumption DEF Fit, CountsOK
  <2>2. ASSUME p = c + NumSections
        PROVE  FALSE
    <3>1. p % NumSections = c % NumSections
      <4>1. NumSections \in Nat \ {0} /\ c \in Int
        BY <2>1
      <4> QED  BY <2>2, <4>1, ModLap, Zenon
    <3>2. isReadMode[c % NumSections]
      <4>1. c \in c .. c + NumSections - 1 /\ c < p
        BY <2>1, <2>2
      <4> QED  BY <4>1 DEF Fit, ModesOK
    <3> QED  BY <1>0, <3>1, <3>2 DEF Fit, ModesOK
  <2> QED  BY <2>1, <2>2
<1>3. CountsOK(p, c)' /\ ModesOK(p, c)'
  BY <1>0, <1>1 DEF sectionVars, consumerVars, Fit, CountsOK, ModesOK
<1>4. ControlOK(p, c)'
  BY <1>0, <1>2 DEF sectionVars, consumerVars, Fit, ControlOK
<1>5. ContentOK(p, c)'
  BY <1>0, <1>1 DEF sectionVars, Fit, ContentOK, Full
<1> QED  BY <1>1, <1>3, <1>4, <1>5 DEF Fit

LEMMA EnqueueStoreOK ==
  ASSUME TypeOK, NEW p \in Nat, NEW c \in Nat, Fit(p, c), EnqueueStore
  PROVE  TypeOK' /\ Fit(p, c)'
<1>0. /\ pcP = "store" /\ pcP' = IF enqPtr' = 0 THEN "hand over" ELSE "wait"
      /\ UNCHANGED <<isReadMode, enqueueSection, deqPtr, dequeueSection, pcC, got>>
  BY DEF EnqueueStore, consumerVars
<1>a. content' = [content EXCEPT ![enqueueSection][enqPtr] = sent] /\ sent' = sent + 1
  BY DEF EnqueueStore
<1>1. /\ SectionSize \in Nat \ {0} /\ NumSections \in Nat \ {0}
      /\ sent \in Nat /\ enqPtr \in 0 .. SectionSize - 1
      /\ p * SectionSize \in Nat
  BY Numbers
<1>2. /\ p < c + NumSections /\ c <= p /\ sent < Count
      /\ Filled = enqPtr /\ sent = p * SectionSize + enqPtr
      /\ enqueueSection = p % NumSections
  BY <1>0 DEF Fit, CountsOK, ControlOK, ModesOK, Filled
<1>3. enqPtr' = IF enqPtr + 1 = SectionSize THEN 0 ELSE enqPtr + 1
  <2>1. enqPtr' = (enqPtr + 1) % SectionSize
    BY DEF EnqueueStore
  <2> QED  BY <1>1, <2>1, RingStep, Zenon
<1>4. Filled' = enqPtr + 1 /\ Emptied' = Emptied
  <2>1. CASE enqPtr + 1 = SectionSize
    BY <1>0, <1>1, <1>3, <2>1 DEF Filled, Emptied
  <2>2. CASE enqPtr + 1 # SectionSize
    <3>1. enqPtr + 1 # 0
      BY <1>1
    <3> QED  BY <1>0, <1>3, <2>2, <3>1 DEF Filled, Emptied
  <2> QED  BY <2>1, <2>2
<1>5. TypeOK'
  <2>1. sent \in Entries /\ sent + 1 \in 0 .. Count
    <3>1. Count \in Nat
      BY SectionQueueAssumption
    <3> QED  BY <1>1, <1>2, <3>1 DEF Entries
  <2>2. enqPtr' \in SlotIdx
    BY <1>1, <1>3 DEF SlotIdx
  <2> QED  BY <1>0, <1>a, <2>1, <2>2 DEF TypeOK
<1>6. CountsOK(p, c)' /\ ModesOK(p, c)'
  <2>1. sent' = p * SectionSize + (enqPtr + 1)
    BY <1>1, <1>2, <1>a
  <2> QED  BY <1>0, <1>4, <2>1 DEF Fit, CountsOK, ModesOK
<1>7. ControlOK(p, c)'
  BY <1>0, <1>2 DEF Fit, ControlOK
<1>8. ContentOK(p, c)'
  <2> SUFFICES ASSUME NEW q \in c .. p, NEW r \in SlotIdx,
                      q < p \/ r < enqPtr + 1, q > c \/ r >= Emptied
               PROVE  content'[q % NumSections][r] = q * SectionSize + r
    BY <1>0, <1>4 DEF ContentOK, Full
  <2>1. /\ enqueueSection \in SectionIdx /\ enqPtr \in SlotIdx
        /\ content \in [SectionIdx -> [SlotIdx -> Entries \cup {Uninitialized}]]
        /\ q % NumSections \in SectionIdx
    <3>1. q % NumSections \in SectionIdx
      BY <1>1 DEF SectionIdx
    <3> QED  BY <3>1 DEF TypeOK
  <2>2. CASE q = p /\ r = enqPtr
    BY <1>2, <1>a, <2>1, <2>2
  <2>3. CASE q = p /\ r # enqPtr
    <3>1. content'[q % NumSections][r] = content[q % NumSections][r]
      BY <1>2, <1>a, <2>1, <2>3
    <3>2. Full(q, r, p, c)
      BY <1>1, <1>2, <2>3 DEF Full, SlotIdx
    <3> QED  BY <3>1, <3>2 DEF Fit, ContentOK
  <2>4. CASE q # p
    <3>1. q % NumSections # p % NumSections
      <4>1. q \in c .. c + NumSections - 1 /\ p \in c .. c + NumSections - 1
        BY <1>1, <1>2
      <4> QED  BY <2>4, <4>1, SectionsApart
    <3>2. content'[q % NumSections][r] = content[q % NumSections][r]
      BY <1>2, <1>a, <2>1, <3>1
    <3>3. Full(q, r, p, c)
      BY <2>4 DEF Full
    <3> QED  BY <3>2, <3>3 DEF Fit, ContentOK
  <2> QED  BY <2>2, <2>3, <2>4
<1> QED  BY <1>5, <1>6, <1>7, <1>8 DEF Fit

LEMMA HandOverOK ==
  ASSUME TypeOK, NEW p \in Nat, NEW c \in Nat, Fit(p, c), HandOver
  PROVE  TypeOK' /\ Fit(p + 1, c)'
<1>0. /\ pcP = "hand over" /\ pcP' = "wait"
      /\ UNCHANGED <<content, enqPtr, sent, deqPtr, dequeueSection, pcC, got>>
  BY DEF HandOver, consumerVars
<1>a. isReadMode' = [isReadMode EXCEPT ![enqueueSection] = TRUE]
  BY DEF HandOver
<1>1. /\ SectionSize \in Nat \ {0} /\ NumSections \in Nat \ {0}
      /\ p * SectionSize \in Nat /\ sent \in Nat
  BY Numbers
<1>2. /\ p < c + NumSections /\ c <= p /\ enqPtr = 0 /\ Filled = SectionSize
      /\ enqueueSection = p % NumSections
  BY <1>0 DEF Fit, CountsOK, ControlOK, ModesOK, Filled
<1>3. Filled' = 0 /\ Emptied' = Emptied
  BY <1>0, <1>2 DEF Filled, Emptied
<1>4. enqueueSection' = (p + 1) % NumSections
  <2>1. enqueueSection' = ((p % NumSections) + 1) % NumSections
    BY <1>2 DEF HandOver
  <2>2. p \in Int /\ NumSections \in Nat \ {0}
    BY <1>1
  <2> QED  BY <2>1, <2>2, ModSucc, Zenon
<1>5. TypeOK'
  <2>1. enqueueSection' \in SectionIdx
    BY <1>1, <1>4 DEF SectionIdx
  <2> QED  BY <1>0, <1>a, <2>1 DEF TypeOK
<1>6. CountsOK(p + 1, c)'
  <2>1. (p + 1) * SectionSize = p * SectionSize + SectionSize
    BY <1>1
  <2>2. sent = (p + 1) * SectionSize + 0
    BY <1>1, <1>2, <2>1 DEF Fit, CountsOK
  <2>3. c <= p + 1 /\ p + 1 <= c + NumSections
    BY <1>1, <1>2
  <2> QED  BY <1>0, <1>3, <2>2, <2>3 DEF Fit, CountsOK
<1>7. ModesOK(p + 1, c)'
  <2> SUFFICES ASSUME NEW q \in c .. c + NumSections - 1
               PROVE  isReadMode'[q % NumSections] <=> q < p + 1
    BY <1>0, <1>4 DEF Fit, ModesOK
  <2>1. /\ q % NumSections \in SectionIdx /\ enqueueSection \in SectionIdx
        /\ isReadMode \in [SectionIdx -> BOOLEAN]
    <3>1. q % NumSections \in SectionIdx
      BY <1>1 DEF SectionIdx
    <3> QED  BY <3>1 DEF TypeOK
  <2>2. CASE q = p
    <3>1. isReadMode'[q % NumSections] = TRUE
      BY <1>2, <1>a, <2>1, <2>2
    <3> QED  BY <2>2, <3>1
  <2>3. CASE q # p
    <3>1. q % NumSections # p % NumSections
      <4>1. p \in c .. c + NumSections - 1
        BY <1>1, <1>2
      <4> QED  BY <2>3, <4>1, SectionsApart
    <3>2. isReadMode'[q % NumSections] = isReadMode[q % NumSections]
      BY <1>2, <1>a, <2>1, <3>1
    <3>3. isReadMode[q % NumSections] <=> q < p
      BY DEF Fit, ModesOK
    <3>4. q < p <=> q < p + 1
      BY <2>3
    <3> QED  BY <3>2, <3>3, <3>4
  <2> QED  BY <2>2, <2>3
<1>8. ControlOK(p + 1, c)'
  <2>1. c < p + 1
    BY <1>2
  <2> QED  BY <1>0, <1>2, <2>1 DEF Fit, ControlOK
<1>9. ContentOK(p + 1, c)'
  <2> SUFFICES ASSUME NEW q \in c .. p + 1, NEW r \in SlotIdx,
                      q < p + 1 \/ r < 0, q > c \/ r >= Emptied
               PROVE  content[q % NumSections][r] = q * SectionSize + r
    BY <1>0, <1>3 DEF ContentOK, Full
  <2>1. q \in c .. p /\ (q < p \/ r < SectionSize)
    BY <1>1 DEF SlotIdx
  <2> QED  BY <1>2, <2>1 DEF Fit, ContentOK, Full
<1> QED  BY <1>5, <1>6, <1>7, <1>8, <1>9 DEF Fit

LEMMA DequeueWaitOK ==
  ASSUME TypeOK, NEW p \in Nat, NEW c \in Nat, Fit(p, c), DequeueWait
  PROVE  TypeOK' /\ Fit(p, c)'
<1>0. /\ pcC = "wait" /\ pcC' = "read" /\ isReadMode[dequeueSection]
      /\ UNCHANGED <<sectionVars, producerVars, deqPtr, dequeueSection, got>>
  BY DEF DequeueWait
<1>1. TypeOK' /\ Filled' = Filled /\ Emptied' = Emptied
  BY <1>0 DEF sectionVars, producerVars, TypeOK, Filled, Emptied
<1>2. c < p
  <2>1. c \in c .. c + NumSections - 1
    BY SectionQueueAssumption
  <2> QED  BY <1>0, <2>1 DEF Fit, ModesOK
<1>3. CountsOK(p, c)' /\ ModesOK(p, c)'
  BY <1>0, <1>1 DEF sectionVars, producerVars, Fit, CountsOK, ModesOK
<1>4. ControlOK(p, c)'
  BY <1>0, <1>2 DEF sectionVars, producerVars, Fit, ControlOK
<1>5. ContentOK(p, c)'
  BY <1>0, <1>1 DEF sectionVars, Fit, ContentOK, Full
<1> QED  BY <1>1, <1>3, <1>4, <1>5 DEF Fit

(* The consumer receives the entry whose turn it is.                       *)
LEMMA ReadsNext ==
  ASSUME TypeOK, NEW p \in Nat, NEW c \in Nat, Fit(p, c), DequeueRead
  PROVE  /\ got' = Append(got, Len(got)) /\ got' \in Seq(Entries \cup {Uninitialized})
         /\ Len(got') = Len(got) + 1
<1>0. pcC = "read" /\ got' = Append(got, content[dequeueSection][deqPtr])
  BY DEF DequeueRead
<1>1. c < p /\ Len(got) = c * SectionSize + deqPtr /\ dequeueSection = c % NumSections
  BY <1>0 DEF Fit, CountsOK, ControlOK, ModesOK, Emptied
<1>2. deqPtr \in SlotIdx /\ dequeueSection \in SectionIdx /\ got \in Seq(Entries \cup {Uninitialized})
  BY DEF TypeOK
<1>3. content[dequeueSection][deqPtr] = Len(got)
  <2>1. c \in c .. p
    BY <1>1
  <2>2. deqPtr >= Emptied
    BY <1>0, Numbers DEF Emptied
  <2>3. Full(c, deqPtr, p, c)
    BY <1>1, <2>2 DEF Full
  <2> QED  BY <1>1, <1>2, <2>1, <2>3 DEF Fit, ContentOK
<1>4. content[dequeueSection][deqPtr] \in Entries \cup {Uninitialized}
  BY <1>2 DEF TypeOK
<1> QED  BY <1>0, <1>2, <1>3, <1>4, AppendProperties

LEMMA DequeueReadOK ==
  ASSUME TypeOK, NEW p \in Nat, NEW c \in Nat, Fit(p, c), DequeueRead
  PROVE  TypeOK' /\ Fit(p, c)'
<1>0. /\ pcC = "read" /\ pcC' = IF deqPtr' = 0 THEN "hand back" ELSE "wait"
      /\ UNCHANGED <<content, isReadMode, enqPtr, enqueueSection, pcP, sent,
                     dequeueSection>>
  BY DEF DequeueRead, sectionVars, producerVars
<1>1. /\ SectionSize \in Nat \ {0} /\ NumSections \in Nat \ {0}
      /\ Len(got) \in Nat /\ deqPtr \in 0 .. SectionSize - 1
      /\ c * SectionSize \in Nat
  BY Numbers
<1>2. c < p /\ Emptied = deqPtr /\ Len(got) = c * SectionSize + deqPtr
  BY <1>0 DEF Fit, CountsOK, ControlOK, Emptied
<1>3. deqPtr' = IF deqPtr + 1 = SectionSize THEN 0 ELSE deqPtr + 1
  <2>1. deqPtr' = (deqPtr + 1) % SectionSize
    BY DEF DequeueRead
  <2> QED  BY <1>1, <2>1, RingStep, Zenon
<1>4. Filled' = Filled /\ Emptied' = deqPtr + 1
  <2>1. CASE deqPtr + 1 = SectionSize
    BY <1>0, <1>1, <1>3, <2>1 DEF Filled, Emptied
  <2>2. CASE deqPtr + 1 # SectionSize
    <3>1. deqPtr + 1 # 0
      BY <1>1
    <3> QED  BY <1>0, <1>3, <2>2, <3>1 DEF Filled, Emptied
  <2> QED  BY <2>1, <2>2
<1>5. TypeOK'
  <2>1. deqPtr' \in SlotIdx
    BY <1>1, <1>3 DEF SlotIdx
  <2> QED  BY <1>0, <2>1, ReadsNext DEF TypeOK
<1>6. CountsOK(p, c)' /\ ModesOK(p, c)'
  <2>1. Len(got) + 1 = c * SectionSize + (deqPtr + 1)
    BY <1>1, <1>2
  <2>2. Len(got') = Len(got) + 1
    BY ReadsNext
  <2> QED  BY <1>0, <1>4, <2>1, <2>2 DEF Fit, CountsOK, ModesOK
<1>7. ControlOK(p, c)'
  BY <1>0, <1>2 DEF Fit, ControlOK
<1>8. ContentOK(p, c)'
  <2> SUFFICES ASSUME NEW q \in c .. p, NEW r \in SlotIdx,
                      q < p \/ r < Filled, q > c \/ r >= deqPtr + 1
               PROVE  content[q % NumSections][r] = q * SectionSize + r
    BY <1>0, <1>4 DEF ContentOK, Full
  <2>1. q > c \/ r >= deqPtr
    BY <1>1 DEF SlotIdx
  <2>2. Full(q, r, p, c)
    BY <1>2, <2>1 DEF Full
  <2> QED  BY <2>2 DEF Fit, ContentOK
<1> QED  BY <1>5, <1>6, <1>7, <1>8 DEF Fit

LEMMA HandBackOK ==
  ASSUME TypeOK, NEW p \in Nat, NEW c \in Nat, Fit(p, c), HandBack
  PROVE  TypeOK' /\ Fit(p, c + 1)'
<1>0. /\ pcC = "hand back" /\ pcC' = "wait"
      /\ UNCHANGED <<content, enqPtr, enqueueSection, pcP, sent, deqPtr, got>>
  BY DEF HandBack, producerVars
<1>a. isReadMode' = [isReadMode EXCEPT ![dequeueSection] = FALSE]
  BY DEF HandBack
<1>1. /\ SectionSize \in Nat \ {0} /\ NumSections \in Nat \ {0}
      /\ c * SectionSize \in Nat /\ Len(got) \in Nat
  BY Numbers
<1>2. /\ c < p /\ p <= c + NumSections /\ deqPtr = 0 /\ Emptied = SectionSize
      /\ dequeueSection = c % NumSections
  BY <1>0 DEF Fit, CountsOK, ControlOK, ModesOK, Emptied
<1>3. Filled' = Filled /\ Emptied' = 0
  BY <1>0, <1>2 DEF Filled, Emptied
<1>4. dequeueSection' = (c + 1) % NumSections
  <2>1. dequeueSection' = ((c % NumSections) + 1) % NumSections
    BY <1>2 DEF HandBack
  <2>2. c \in Int /\ NumSections \in Nat \ {0}
    BY <1>1
  <2> QED  BY <2>1, <2>2, ModSucc, Zenon
<1>5. TypeOK'
  <2>1. dequeueSection' \in SectionIdx
    BY <1>1, <1>4 DEF SectionIdx
  <2> QED  BY <1>0, <1>a, <2>1 DEF TypeOK
<1>6. CountsOK(p, c + 1)'
  <2>1. (c + 1) * SectionSize = c * SectionSize + SectionSize
    BY <1>1
  <2>2. Len(got) = (c + 1) * SectionSize + 0
    BY <1>1, <1>2, <2>1 DEF Fit, CountsOK
  <2>3. c + 1 <= p /\ p <= c + 1 + NumSections
    BY <1>1, <1>2
  <2> QED  BY <1>0, <1>3, <2>2, <2>3 DEF Fit, CountsOK
<1>7. ModesOK(p, c + 1)'
  <2> SUFFICES ASSUME NEW q \in c + 1 .. c + 1 + NumSections - 1
               PROVE  isReadMode'[q % NumSections] <=> q < p
    BY <1>0, <1>4 DEF Fit, ModesOK
  <2>1. /\ q % NumSections \in SectionIdx /\ dequeueSection \in SectionIdx
        /\ isReadMode \in [SectionIdx -> BOOLEAN]
    <3>1. q % NumSections \in SectionIdx
      BY <1>1 DEF SectionIdx
    <3> QED  BY <3>1 DEF TypeOK
  <2>2. CASE q = c + NumSections
    <3>1. q % NumSections = c % NumSections
      <4>1. NumSections \in Nat \ {0} /\ c \in Int
        BY <1>1
      <4> QED  BY <2>2, <4>1, ModLap, Zenon
    <3>2. isReadMode'[q % NumSections] = FALSE
      BY <1>2, <1>a, <2>1, <3>1
    <3>3. ~(q < p)
      BY <1>1, <1>2, <2>2
    <3> QED  BY <3>2, <3>3
  <2>3. CASE q # c + NumSections
    <3>1. q \in c .. c + NumSections - 1 /\ c \in c .. c + NumSections - 1 /\ q # c
      BY <1>1, <2>3
    <3>2. q % NumSections # c % NumSections
      BY <3>1, SectionsApart
    <3>3. isReadMode'[q % NumSections] = isReadMode[q % NumSections]
      BY <1>2, <1>a, <2>1, <3>2
    <3> QED  BY <3>1, <3>3 DEF Fit, ModesOK
  <2> QED  BY <2>2, <2>3
<1>8. ControlOK(p, c + 1)'
  <2>1. p < c + 1 + NumSections
    BY <1>1, <1>2
  <2> QED  BY <1>0, <1>2, <2>1 DEF Fit, ControlOK
<1>9. ContentOK(p, c + 1)'
  <2> SUFFICES ASSUME NEW q \in c + 1 .. p, NEW r \in SlotIdx, q < p \/ r < Filled
               PROVE  content[q % NumSections][r] = q * SectionSize + r
    BY <1>0, <1>3 DEF ContentOK, Full
  <2>1. q \in c .. p /\ q > c
    OBVIOUS
  <2>2. Full(q, r, p, c)
    BY <2>1 DEF Full
  <2> QED  BY <2>1, <2>2 DEF Fit, ContentOK
<1> QED  BY <1>5, <1>6, <1>7, <1>8, <1>9 DEF Fit

LEMMA StepOK == IInv /\ [Next]_vars => IInv'
<1> SUFFICES ASSUME IInv, [Next]_vars
             PROVE  IInv'
  OBVIOUS
<1>1. PICK p \in Nat, c \in Nat : TypeOK /\ Fit(p, c)
  BY DEF IInv
<1>2. p + 1 \in Nat /\ c + 1 \in Nat
  OBVIOUS
<1>3. CASE Producer
  <2>1. CASE EnqueueWait
    BY <1>1, <2>1, EnqueueWaitOK DEF IInv
  <2>2. CASE EnqueueStore
    BY <1>1, <2>2, EnqueueStoreOK DEF IInv
  <2>3. CASE HandOver
    BY <1>1, <1>2, <2>3, HandOverOK DEF IInv
  <2> QED  BY <1>3, <2>1, <2>2, <2>3 DEF Producer
<1>4. CASE Consumer
  <2>1. CASE DequeueWait
    BY <1>1, <2>1, DequeueWaitOK DEF IInv
  <2>2. CASE DequeueRead
    BY <1>1, <2>2, DequeueReadOK DEF IInv
  <2>3. CASE HandBack
    BY <1>1, <1>2, <2>3, HandBackOK DEF IInv
  <2> QED  BY <1>4, <2>1, <2>2, <2>3 DEF Consumer
<1>5. CASE UNCHANGED vars
  <2>1. TypeOK' /\ Filled' = Filled /\ Emptied' = Emptied
    BY <1>1, <1>5
    DEF vars, sectionVars, producerVars, consumerVars, TypeOK, Filled, Emptied
  <2>2. Fit(p, c)'
    BY <1>1, <1>5, <2>1
    DEF vars, sectionVars, producerVars, consumerVars, Fit, CountsOK, ModesOK,
        ControlOK, ContentOK, Full
  <2> QED  BY <2>1, <2>2 DEF IInv
<1> QED  BY <1>3, <1>4, <1>5 DEF Next, Ended

LEMMA Invariance == Spec => []IInv
  BY InitOK, StepOK, PTL DEF Spec

(* The two threads never work in the same section.                         *)
LEMMA SectionsHaveOneOwner == IInv => OneOwner
<1> SUFFICES ASSUME IInv, pcP # "wait", pcC # "wait"
             PROVE  enqueueSection # dequeueSection
  BY DEF OneOwner
<1>1. PICK p \in Nat, c \in Nat : Fit(p, c)
  BY DEF IInv
<1>2. c < p /\ p < c + NumSections
  BY <1>1 DEF Fit, ControlOK
<1>3. p % NumSections # c % NumSections
  <2>1. p \in c .. c + NumSections - 1 /\ c \in c .. c + NumSections - 1 /\ p # c
    BY <1>2, SectionQueueAssumption
  <2> QED  BY <2>1, SectionsApart
<1> QED  BY <1>1, <1>3 DEF Fit, ModesOK

(* The consumer is in a section that was handed over, or at the start of   *)
(* the one that the producer fills.                                        *)
LEMMA SectionsAreWhole == IInv => WholeSections
<1> SUFFICES ASSUME IInv
             PROVE  WholeSections
  OBVIOUS
<1>1. PICK p \in Nat, c \in Nat : Fit(p, c)
  BY DEF IInv
<1>2. /\ SectionSize \in Nat \ {0} /\ Len(got) \in Nat /\ sent \in Nat
      /\ enqPtr \in 0 .. SectionSize - 1 /\ deqPtr \in 0 .. SectionSize - 1
      /\ Filled \in 0 .. SectionSize /\ Emptied \in 0 .. SectionSize
      /\ p * SectionSize \in Nat /\ c * SectionSize \in Nat
  BY <1>1, Numbers DEF IInv
<1>3. /\ sent = p * SectionSize + Filled /\ Len(got) = c * SectionSize + Emptied
      /\ c <= p
  BY <1>1 DEF Fit, CountsOK
<1>4. Len(got) <= p * SectionSize
  <2>1. CASE c = p
    <3>1. ~(c < p)
      BY <2>1
    <3>2. Emptied = 0
      BY <1>1, <3>1 DEF Fit, ControlOK, Emptied
    <3> QED  BY <1>2, <1>3, <2>1, <3>2
  <2>2. CASE c + 1 <= p
    <3>1. (c + 1) * SectionSize <= p * SectionSize
      BY <1>2, <2>2, MulMono
    <3>2. (c + 1) * SectionSize = c * SectionSize + SectionSize
      BY <1>2
    <3> QED  BY <1>2, <1>3, <3>1, <3>2
  <2> QED  BY <1>3, <2>1, <2>2
<1>5. sent % SectionSize = IF Filled = SectionSize THEN 0 ELSE Filled
  <2>1. CASE Filled = SectionSize
    <3>1. (p + 1) * SectionSize = p * SectionSize + SectionSize
      BY <1>2
    <3>2. sent = (p + 1) * SectionSize + 0
      BY <1>2, <1>3, <2>1, <3>1
    <3>3. p + 1 \in Int /\ 0 \in 0 .. SectionSize - 1
      BY <1>2
    <3>4. sent % SectionSize = 0
      BY <1>2, <3>2, <3>3, DivModOf, Zenon
    <3> QED  BY <2>1, <3>4
  <2>2. CASE Filled # SectionSize
    <3>1. p \in Int /\ Filled \in 0 .. SectionSize - 1
      BY <1>2, <2>2
    <3>2. sent % SectionSize = Filled
      BY <1>2, <1>3, <3>1, DivModOf, Zenon
    <3> QED  BY <2>2, <3>2
  <2> QED  BY <2>1, <2>2
<1> QED  BY <1>2, <1>3, <1>4, <1>5 DEF WholeSections

(* No position leaves its section, the two threads never work in the same  *)
(* section, and the consumer gets whole sections.                          *)
THEOREM SectionQueueSafe == Spec => []SectionInv
<1>1. IInv => SectionInv
  BY SectionsHaveOneOwner, SectionsAreWhole DEF IInv, SectionInv
<1> QED  BY <1>1, Invariance, PTL

-----------------------------------------------------------------------------
(* The entries that were put and not received.                             *)
UnderWay == sent - Len(got)

(* The entries under way fit in the slots, and one more while the producer *)
(* stores.                                                                 *)
LEMMA UnderWayFits ==
  ASSUME TypeOK, NEW p \in Nat, NEW c \in Nat, Fit(p, c)
  PROVE  /\ UnderWay \in Nat /\ sent = Len(got) + UnderWay
         /\ pcP = "store" => UnderWay < NumSections * SectionSize
<1>1. /\ SectionSize \in Nat \ {0} /\ NumSections \in Nat \ {0}
      /\ Len(got) \in Nat /\ sent \in Nat
      /\ enqPtr \in 0 .. SectionSize - 1 /\ deqPtr \in 0 .. SectionSize - 1
      /\ Filled \in 0 .. SectionSize /\ Emptied \in 0 .. SectionSize
      /\ p * SectionSize \in Nat /\ c * SectionSize \in Nat
  BY Numbers
<1>2. /\ sent = p * SectionSize + Filled /\ Len(got) = c * SectionSize + Emptied
      /\ c <= p
  BY DEF Fit, CountsOK
<1>3. sent >= Len(got)
  <2>1. CASE c = p
    <3>1. Emptied = 0
      <4>1. ~(c < p)
        BY <2>1
      <4>2. pcC = "wait" /\ deqPtr = 0
        BY <4>1 DEF Fit, ControlOK
      <4> QED  BY <4>2 DEF Emptied
    <3> QED  BY <1>1, <1>2, <2>1, <3>1
  <2>2. CASE c + 1 <= p
    <3>1. (c + 1) * SectionSize <= p * SectionSize
      BY <1>1, <2>2, MulMono
    <3>2. (c + 1) * SectionSize = c * SectionSize + SectionSize
      BY <1>1
    <3> QED  BY <1>1, <1>2, <3>1, <3>2
  <2> QED  BY <1>2, <2>1, <2>2
<1>4. ASSUME pcP = "store"
      PROVE  sent - Len(got) < NumSections * SectionSize
  <2>1. p < c + NumSections /\ Filled = enqPtr
    BY <1>4 DEF Fit, ControlOK, Filled
  <2>2. (p + 1) * SectionSize <= (c + NumSections) * SectionSize
    BY <1>1, <2>1, MulMono
  <2>3. /\ (p + 1) * SectionSize = p * SectionSize + SectionSize
        /\ (c + NumSections) * SectionSize
              = c * SectionSize + NumSections * SectionSize
    BY <1>1
  <2>4. NumSections * SectionSize \in Nat
    BY <1>1
  <2> QED  BY <1>1, <1>2, <2>1, <2>2, <2>3, <2>4
<1> QED  BY <1>1, <1>3, <1>4 DEF UnderWay

LEMMA UnderWayIsNat == IInv => UnderWay \in Nat
  BY UnderWayFits DEF IInv

(* Each of them is in the slot of its position.                            *)
LEMMA SlotOfEntry ==
  ASSUME TypeOK, NEW p \in Nat, NEW c \in Nat, Fit(p, c),
         NEW i \in Nat, Len(got) <= i, i < sent
  PROVE  LET pos == i % (NumSections * SectionSize)
         IN  content[pos \div SectionSize][pos % SectionSize] = i
<1>1. /\ SectionSize \in Nat \ {0} /\ NumSections \in Nat \ {0}
      /\ Len(got) \in Nat /\ sent \in Nat
      /\ Filled \in 0 .. SectionSize /\ Emptied \in 0 .. SectionSize
      /\ p * SectionSize \in Nat /\ c * SectionSize \in Nat
  BY Numbers
<1>2. sent = p * SectionSize + Filled /\ Len(got) = c * SectionSize + Emptied
  BY DEF Fit, CountsOK
<1>3. PICK q \in Int, r \in 0 .. SectionSize - 1 : i = q * SectionSize + r
  <2>1. i \in Int
    OBVIOUS
  <2> QED  BY <1>1, <2>1, Euclid, Zenon
<1>4. c <= q
  <2> SUFFICES ASSUME q + 1 <= c
               PROVE  FALSE
    OBVIOUS
  <2>1. (q + 1) * SectionSize <= c * SectionSize
    BY <1>1, MulMono
  <2>2. (q + 1) * SectionSize = q * SectionSize + SectionSize /\ q * SectionSize \in Int
    BY <1>1
  <2> QED  BY <1>1, <1>2, <1>3, <2>1, <2>2
<1>5. q <= p
  <2> SUFFICES ASSUME p + 1 <= q
               PROVE  FALSE
    OBVIOUS
  <2>1. (p + 1) * SectionSize <= q * SectionSize
    BY <1>1, MulMono
  <2>2. (p + 1) * SectionSize = p * SectionSize + SectionSize /\ q * SectionSize \in Int
    BY <1>1
  <2> QED  BY <1>1, <1>2, <1>3, <2>1, <2>2
<1>6. Full(q, r, p, c)
  <2>1. q = p => r < Filled
    BY <1>1, <1>2, <1>3
  <2>2. q = c => r >= Emptied
    BY <1>1, <1>2, <1>3
  <2> QED  BY <1>4, <1>5, <2>1, <2>2 DEF Full
<1>7. content[q % NumSections][r] = i
  <2>1. q \in c .. p /\ r \in SlotIdx
    BY <1>4, <1>5 DEF SlotIdx
  <2>2. content[q % NumSections][r] = q * SectionSize + r
    BY <1>6, <2>1 DEF Fit, ContentOK
  <2> QED  BY <1>3, <2>2, Zenon
<1>8. LET pos == (q * SectionSize + r) % (NumSections * SectionSize)
      IN  pos \div SectionSize = q % NumSections /\ pos % SectionSize = r
  BY <1>1, SectionPosition, ZenonT(40)
<1> QED  BY <1>3, <1>7, <1>8, Zenon

(* What the slots from the consumer's up to the producer's hold: the       *)
(* entries that were stored and not read, in their order.                  *)
LEMMA HeldIsRun == IInv => Held = From(Len(got), UnderWay)
<1> SUFFICES ASSUME IInv
             PROVE  Held = From(Len(got), UnderWay)
  OBVIOUS
<1>1. PICK p \in Nat, c \in Nat : TypeOK /\ Fit(p, c)
  BY DEF IInv
<1>2. Len(got) \in Nat /\ UnderWay \in Nat /\ sent = Len(got) + UnderWay
  BY <1>1, Numbers, UnderWayFits
<1>3. ASSUME NEW k \in 1 .. UnderWay
      PROVE  content[Position(k) \div SectionSize][Position(k) % SectionSize]
               = Len(got) + k - 1
  <2> DEFINE i == Len(got) + k - 1
  <2>1. i \in Nat /\ Len(got) <= i /\ i < sent
    BY <1>2
  <2>2. Position(k) = i % (NumSections * SectionSize)
    BY DEF Position
  <2> HIDE DEF i
  <2>3. content[Position(k) \div SectionSize][Position(k) % SectionSize] = i
    BY <1>1, <2>1, <2>2, SlotOfEntry, Zenon
  <2> QED  BY <2>3 DEF i
<1> QED  BY <1>3 DEF Held, From, UnderWay

(* Storing an entry puts it in, reading it takes it out, and no other step *)
(* changes what the queue holds.                                           *)
LEMMA StepIsChannelStep ==
  ASSUME IInv, IInv', [Next]_vars
  PROVE  [Channel!Next]_(Channel!channelVars)
<1>1. Held = From(Len(got), UnderWay) /\ Held' = From(Len(got'), UnderWay')
  <2>1. Held = From(Len(got), UnderWay)
    BY HeldIsRun
  <2>2. IInv' => (Held = From(Len(got), UnderWay))'
    BY HeldIsRun, PTL
  <2> QED  BY <2>1, <2>2 DEF From
<1>2. PICK p \in Nat, c \in Nat : TypeOK /\ Fit(p, c)
  BY DEF IInv
<1>3. Len(got) \in Nat /\ UnderWay \in Nat /\ sent = Len(got) + UnderWay
  BY <1>2, Numbers, UnderWayFits
<1>4. Len(Held) = UnderWay
  BY <1>1, <1>3, FromIsSeq
<1>5. CASE EnqueueStore
  <2>1. UnderWay < NumSections * SectionSize /\ sent < Count
    BY <1>2, <1>5, UnderWayFits DEF EnqueueStore, Fit, ControlOK
  <2>2. sent' = sent + 1 /\ got' = got
    BY <1>5 DEF EnqueueStore, consumerVars
  <2>3. UnderWay' = UnderWay + 1
    BY <1>3, <2>2 DEF UnderWay
  <2>4. Held' = Append(Held, Len(got) + UnderWay)
    BY <1>1, <1>3, <2>2, <2>3, FromAppend
  <2>5. Channel!Put
    BY <1>3, <1>4, <2>1, <2>2, <2>4 DEF Channel!Put
  <2> QED  BY <2>5 DEF Channel!Next
<1>6. CASE DequeueRead
  <2>1. got' = Append(got, Len(got)) /\ Len(got') = Len(got) + 1
    BY <1>2, <1>6, ReadsNext
  <2>2. sent' = sent
    BY <1>6 DEF DequeueRead, producerVars
  <2>3. UnderWay' = UnderWay - 1
    BY <1>3, <2>1, <2>2 DEF UnderWay
  <2>4. UnderWay' \in Nat
    <3>1. IInv' => (UnderWay \in Nat)'
      BY UnderWayIsNat, PTL
    <3> QED  BY <3>1
  <2>5. UnderWay \in Nat \ {0}
    BY <1>3, <2>3, <2>4
  <2>6. Held # <<>> /\ Head(Held) = Len(got) /\ Tail(Held) = Held'
    <3>1. Held # <<>>
      BY <1>1, <1>3, <2>5, FromIsSeq
    <3>2. /\ Head(From(Len(got), UnderWay)) = Len(got)
          /\ Tail(From(Len(got), UnderWay)) = From(Len(got) + 1, UnderWay - 1)
      BY <1>3, <2>5, FromHeadTail
    <3> QED  BY <1>1, <2>1, <2>3, <3>1, <3>2
  <2>7. Channel!Get
    BY <2>1, <2>6 DEF Channel!Get
  <2> QED  BY <2>7 DEF Channel!Next
<1>7. CASE EnqueueWait \/ HandOver \/ DequeueWait \/ HandBack \/ UNCHANGED vars
  <2>1. UnderWay' = UnderWay /\ got' = got
    BY <1>7 DEF EnqueueWait, HandOver, DequeueWait, HandBack, vars, sectionVars,
                producerVars, consumerVars, UnderWay
  <2> QED  BY <1>1, <2>1 DEF Channel!channelVars
<1> QED  BY <1>5, <1>6, <1>7 DEF Next, Producer, Consumer, Ended

(* The safety part of ImplementsChannel: whatever the speed of the two     *)
(* threads, no entry is lost, doubled, overtaken or read before it was     *)
(* written, and at most NumSections * SectionSize are under way.           *)
THEOREM SectionQueueIsChannel ==
  Spec => Channel!Init /\ [][Channel!Next]_(Channel!channelVars)
<1>1. Init => Channel!Init
  <2> SUFFICES ASSUME Init
               PROVE  Held = <<>>
    BY DEF Init, Channel!Init
  <2>1. Len(got) = 0
    BY EmptySeq DEF Init
  <2>2. sent = 0
    BY DEF Init
  <2>3. UnderWay = 0
    BY <2>1, <2>2 DEF UnderWay
  <2>4. Held = From(0, 0)
    BY <2>1, <2>3, InitOK, HeldIsRun
  <2> QED  BY <2>4, FromIsSeq
<1> QED  BY <1>1, InitOK, StepOK, StepIsChannelStep, PTL DEF Spec

-----------------------------------------------------------------------------
(* SimpleQueue: the entries that were put and not received.                *)
SimpleUnderWay == simpleSent - Len(simpleGot)

(* How far a slot is from deqPtr, round the ring.                          *)
Dist(s) == IF s >= simpleDeqPtr THEN s - simpleDeqPtr
                                ELSE s - simpleDeqPtr + MaxElements

PointersOK ==
  /\ SimpleUnderWay \in 0 .. MaxElements - 1
  /\ simpleEnqPtr = IF simpleDeqPtr + SimpleUnderWay < MaxElements
              THEN simpleDeqPtr + SimpleUnderWay
              ELSE simpleDeqPtr + SimpleUnderWay - MaxElements

SlotsOK ==
  \A s \in Simple!SlotIdx :
    Dist(s) < SimpleUnderWay => simpleContent[s] = Len(simpleGot) + Dist(s)

(* Between its busy wait and its step of enqPtr the producer knows a free  *)
(* slot, and the consumer an entry between its wait and its step of deqPtr.*)
SimpleControlOK ==
  /\ simplePcP # "wait" => SimpleUnderWay < MaxElements - 1 /\ simpleSent < Count
  /\ simplePcP = "publish" => simpleContent[simpleEnqPtr] = simpleSent
  /\ simplePcC # "wait" => SimpleUnderWay > 0
  /\ simplePcC = "release" => value = Len(simpleGot)

(* The consumer received the entries in the order of the puts.             *)
SimpleGotOK == \A k \in 1 .. Len(simpleGot) : simpleGot[k] = k - 1

SimpleIInv == Simple!TypeOK /\ PointersOK /\ SlotsOK /\ SimpleControlOK /\ SimpleGotOK

-----------------------------------------------------------------------------
LEMMA SimpleInit == Simple!Init => SimpleIInv
<1> SUFFICES ASSUME Simple!Init
             PROVE  SimpleIInv
  OBVIOUS
<1> USE SimpleQueueAssumption DEF Simple!Init
<1>1. Len(simpleGot) = 0 /\ simpleGot \in Seq(Simple!Entries \cup {Uninitialized})
  BY EmptySeq
<1>2. Simple!TypeOK
  BY <1>1 DEF Simple!TypeOK, Simple!SlotIdx
<1>3. PointersOK /\ SlotsOK
  <2>1. SimpleUnderWay = 0
    <3>1. simpleSent = 0
      OBVIOUS
    <3> HIDE DEF Simple!Init
    <3> QED  BY <1>1, <3>1 DEF SimpleUnderWay
  <2>2. \A s \in Simple!SlotIdx : Dist(s) = s /\ ~(s < 0)
    BY DEF Dist, Simple!SlotIdx
  <2> QED  BY <2>1, <2>2 DEF PointersOK, SlotsOK
<1>4. SimpleControlOK /\ SimpleGotOK
  BY <1>1 DEF SimpleControlOK, SimpleGotOK
<1> QED  BY <1>2, <1>3, <1>4 DEF SimpleIInv

(* The numbers that the steps below calculate with.                        *)
LEMMA SimpleCounts ==
  ASSUME SimpleIInv
  PROVE  /\ Len(simpleGot) \in Nat /\ simpleSent \in Nat /\ Len(simpleGot) <= simpleSent
         /\ SimpleUnderWay \in Int /\ simpleSent = Len(simpleGot) + SimpleUnderWay
         /\ simpleEnqPtr \in 0 .. MaxElements - 1 /\ simpleDeqPtr \in 0 .. MaxElements - 1
<1>1. Len(simpleGot) \in Nat
  BY LenProperties DEF SimpleIInv, Simple!TypeOK
<1>2. simpleSent \in Nat /\ SimpleUnderWay >= 0
  BY SimpleQueueAssumption DEF SimpleIInv, Simple!TypeOK, PointersOK
<1> QED  BY <1>1, <1>2 DEF SimpleUnderWay, SimpleIInv, Simple!TypeOK, Simple!SlotIdx

LEMMA SimpleProducerOK ==
  ASSUME SimpleIInv, Simple!Producer
  PROVE  SimpleIInv'
<1> USE SimpleQueueAssumption
<1>c. /\ Len(simpleGot) \in Nat /\ simpleSent \in Nat /\ Len(simpleGot) <= simpleSent
      /\ SimpleUnderWay \in Int /\ simpleSent = Len(simpleGot) + SimpleUnderWay
      /\ simpleEnqPtr \in 0 .. MaxElements - 1 /\ simpleDeqPtr \in 0 .. MaxElements - 1
  BY SimpleCounts
<1>d. SimpleUnderWay \in 0 .. MaxElements - 1
  BY DEF SimpleIInv, PointersOK
<1> USE DEF SimpleIInv, Simple!consumerVars
<1>1. CASE Simple!EnqueueWait
  <2> USE <1>1 DEF Simple!EnqueueWait
  <2>1. SimpleUnderWay < MaxElements - 1
    <3>1. simpleEnqPtr + 1 = MaxElements => simpleDeqPtr # 0
      BY <1>c, RingStep DEF Simple!HasRoom, Simple!NextSlot
    <3>2. simpleEnqPtr + 1 < MaxElements => simpleDeqPtr # simpleEnqPtr + 1
      BY <1>c, RingStep DEF Simple!HasRoom, Simple!NextSlot
    <3> QED  BY <1>c, <3>1, <3>2 DEF PointersOK
  <2>2. Simple!TypeOK' /\ SimpleUnderWay' = SimpleUnderWay
    BY DEF Simple!TypeOK, SimpleUnderWay
  <2> QED
    BY <2>1, <2>2 DEF PointersOK, SlotsOK, Dist, SimpleControlOK, SimpleGotOK,
                      SimpleUnderWay
<1>2. CASE Simple!EnqueueStore
  <2> USE <1>2 DEF Simple!EnqueueStore
  <2>1. /\ SimpleUnderWay < MaxElements - 1 /\ simpleSent < Count
        /\ SimpleUnderWay' = SimpleUnderWay
    BY DEF SimpleControlOK, SimpleUnderWay
  <2>2. /\ simpleEnqPtr \in Simple!SlotIdx
        /\ simpleContent' = [simpleContent EXCEPT ![simpleEnqPtr] = simpleSent]
    BY DEF Simple!TypeOK
  <2>3. simpleSent \in Simple!Entries
    BY <1>c, <2>1 DEF Simple!Entries
  <2>4. Simple!TypeOK'
    BY <2>2, <2>3 DEF Simple!TypeOK
  <2>5. SlotsOK'
    <3>1. ~(Dist(simpleEnqPtr) < SimpleUnderWay)
      BY <1>c DEF PointersOK, Dist
    <3> QED  BY <2>2, <3>1 DEF SlotsOK, Dist, SimpleUnderWay, Simple!TypeOK
  <2>6. /\ simpleContent'[simpleEnqPtr'] = simpleSent'
        /\ simplePcC' = simplePcC /\ value' = value /\ simpleGot' = simpleGot
    BY <2>2 DEF Simple!TypeOK
  <2> QED  BY <2>1, <2>4, <2>5, <2>6 DEF PointersOK, SimpleControlOK, SimpleGotOK,
                                        SimpleUnderWay
<1>3. CASE Simple!EnqueuePublish
  <2> USE <1>3 DEF Simple!EnqueuePublish
  <2>1. /\ SimpleUnderWay < MaxElements - 1 /\ simpleSent < Count
        /\ simpleContent[simpleEnqPtr] = simpleSent
    BY DEF SimpleControlOK
  <2>2. simpleEnqPtr' = IF simpleEnqPtr + 1 = MaxElements THEN 0 ELSE simpleEnqPtr + 1
    BY <1>c, RingStep DEF Simple!NextSlot
  <2>3. SimpleUnderWay' = SimpleUnderWay + 1
    BY <1>c DEF SimpleUnderWay
  <2>4. Simple!TypeOK'
    BY <1>c, <2>1, <2>2 DEF Simple!TypeOK, Simple!SlotIdx
  <2>5. PointersOK'
    <3>1. simpleEnqPtr' = IF simpleDeqPtr + (SimpleUnderWay + 1) < MaxElements
                    THEN simpleDeqPtr + (SimpleUnderWay + 1)
                    ELSE simpleDeqPtr + (SimpleUnderWay + 1) - MaxElements
      BY <1>c, <2>1, <2>2 DEF PointersOK
    <3>2. SimpleUnderWay + 1 \in 0 .. MaxElements - 1
      BY <1>c, <1>d, <2>1
    <3> QED  BY <2>3, <3>1, <3>2 DEF PointersOK
  <2>6. SlotsOK'
    <3> SUFFICES ASSUME NEW s \in Simple!SlotIdx, Dist(s) < SimpleUnderWay + 1
                 PROVE  simpleContent[s] = Len(simpleGot) + Dist(s)
      BY <2>3 DEF SlotsOK, Dist
    <3>1. CASE Dist(s) < SimpleUnderWay
      BY <3>1 DEF SlotsOK
    <3>2. CASE ~(Dist(s) < SimpleUnderWay)
      <4>1. s = simpleEnqPtr /\ Dist(s) = SimpleUnderWay
        BY <1>c, <1>d, <3>2 DEF Dist, Simple!SlotIdx, PointersOK
      <4> QED  BY <1>c, <2>1, <4>1
    <3> QED  BY <3>1, <3>2
  <2>7. SimpleControlOK' /\ SimpleGotOK'
    BY <1>c, <2>3 DEF SimpleControlOK, SimpleGotOK
  <2> QED  BY <2>4, <2>5, <2>6, <2>7
<1> QED  BY <1>1, <1>2, <1>3 DEF Simple!Producer

LEMMA SimpleConsumerOK ==
  ASSUME SimpleIInv, Simple!Consumer
  PROVE  SimpleIInv'
<1> USE SimpleQueueAssumption
<1>c. /\ Len(simpleGot) \in Nat /\ simpleSent \in Nat /\ Len(simpleGot) <= simpleSent
      /\ SimpleUnderWay \in Int /\ simpleSent = Len(simpleGot) + SimpleUnderWay
      /\ simpleEnqPtr \in 0 .. MaxElements - 1 /\ simpleDeqPtr \in 0 .. MaxElements - 1
  BY SimpleCounts
<1>d. SimpleUnderWay \in 0 .. MaxElements - 1
  BY DEF SimpleIInv, PointersOK
<1> USE DEF SimpleIInv, Simple!producerVars
<1>1. CASE Simple!DequeueWait
  <2> USE <1>1 DEF Simple!DequeueWait
  <2>1. SimpleUnderWay > 0
    BY <1>c DEF Simple!HasEntry, PointersOK
  <2>2. Simple!TypeOK' /\ SimpleUnderWay' = SimpleUnderWay
    BY DEF Simple!TypeOK, SimpleUnderWay
  <2> QED
    BY <2>1, <2>2 DEF PointersOK, SlotsOK, Dist, SimpleControlOK, SimpleGotOK,
                      SimpleUnderWay
<1>2. CASE Simple!DequeueRead
  <2> USE <1>2 DEF Simple!DequeueRead
  <2>1. SimpleUnderWay > 0 /\ SimpleUnderWay' = SimpleUnderWay
    BY DEF SimpleControlOK, SimpleUnderWay
  <2>2. simpleDeqPtr \in Simple!SlotIdx /\ Dist(simpleDeqPtr) = 0
    BY <1>c DEF Simple!TypeOK, Dist
  <2>3. value' = Len(simpleGot)
    BY <1>c, <2>1, <2>2 DEF SlotsOK
  <2>4. Simple!TypeOK'
    BY <2>2 DEF Simple!TypeOK
  <2> QED
    BY <2>1, <2>3, <2>4 DEF PointersOK, SlotsOK, Dist, SimpleControlOK, SimpleGotOK,
                                SimpleUnderWay
<1>3. CASE Simple!DequeueRelease
  <2> USE <1>3 DEF Simple!DequeueRelease
  <2> DEFINE T == Simple!Entries \cup {Uninitialized}
  <2>1. SimpleUnderWay > 0 /\ value = Len(simpleGot) /\ value \in T /\ simpleGot \in Seq(T)
    BY DEF SimpleControlOK, Simple!TypeOK
  <2>2. /\ simpleGot' \in Seq(T) /\ Len(simpleGot') = Len(simpleGot) + 1
        /\ \A k \in 1 .. Len(simpleGot) : simpleGot'[k] = simpleGot[k]
        /\ simpleGot'[Len(simpleGot) + 1] = value
    <3>1. simpleGot' = Append(simpleGot, value)
      OBVIOUS
    <3> QED  BY <2>1, <3>1, AppendProperties
  <2>3. simpleDeqPtr' = IF simpleDeqPtr + 1 = MaxElements THEN 0 ELSE simpleDeqPtr + 1
    <3>1. simpleDeqPtr' = (simpleDeqPtr + 1) % MaxElements
      BY DEF Simple!NextSlot
    <3> HIDE <1>3 DEF Simple!DequeueRelease, SimpleIInv
    <3> QED  BY <1>c, <3>1, RingStep
  <2>4. SimpleUnderWay' = SimpleUnderWay - 1
    BY <1>c, <2>2 DEF SimpleUnderWay
  <2>5. Simple!TypeOK'
    BY <1>c, <2>2, <2>3 DEF Simple!TypeOK, Simple!SlotIdx
  <2>6. PointersOK'
    <3>1. simpleEnqPtr = IF simpleDeqPtr' + (SimpleUnderWay - 1) < MaxElements
                   THEN simpleDeqPtr' + (SimpleUnderWay - 1)
                   ELSE simpleDeqPtr' + (SimpleUnderWay - 1) - MaxElements
      BY <1>c, <1>d, <2>1, <2>3 DEF PointersOK
    <3>2. SimpleUnderWay - 1 \in 0 .. MaxElements - 1
      BY <1>c, <1>d, <2>1
    <3> QED  BY <2>4, <3>1, <3>2 DEF PointersOK
  <2>7. SlotsOK'
    <3> SUFFICES ASSUME NEW s \in Simple!SlotIdx, Dist(s)' < SimpleUnderWay - 1
                 PROVE  simpleContent[s] = (Len(simpleGot) + 1) + Dist(s)'
      BY <2>2, <2>4 DEF SlotsOK, Dist
    <3>1. Dist(s)' = Dist(s) - 1 /\ Dist(s) \in Int
      BY <1>c, <1>d, <2>3 DEF Dist, Simple!SlotIdx
    <3>2. simpleContent[s] = Len(simpleGot) + Dist(s)
      BY <1>c, <3>1 DEF SlotsOK
    <3> QED  BY <1>c, <3>1, <3>2
  <2>8. SimpleControlOK'
    <3>1. simplePcP' # "wait" => SimpleUnderWay' < MaxElements - 1
      BY <1>c, <2>4 DEF SimpleControlOK
    <3> QED  BY <3>1 DEF SimpleControlOK
  <2>9. SimpleGotOK'
    <3> SUFFICES ASSUME NEW k \in 1 .. Len(simpleGot) + 1
                 PROVE  simpleGot'[k] = k - 1
      BY <2>2 DEF SimpleGotOK
    <3>1. CASE k = Len(simpleGot) + 1
      BY <1>c, <2>1, <2>2, <3>1
    <3>2. CASE k \in 1 .. Len(simpleGot)
      BY <2>2, <3>2 DEF SimpleGotOK
    <3> QED  BY <1>c, <3>1, <3>2
  <2> QED  BY <2>5, <2>6, <2>7, <2>8, <2>9
<1> QED  BY <1>1, <1>2, <1>3 DEF Simple!Consumer

LEMMA SimpleStepOK == SimpleIInv /\ [Simple!Next]_(Simple!vars) => SimpleIInv'
<1> SUFFICES ASSUME SimpleIInv, [Simple!Next]_(Simple!vars)
             PROVE  SimpleIInv'
  OBVIOUS
<1>1. CASE UNCHANGED Simple!vars
  BY <1>1 DEF Simple!vars, Simple!producerVars, Simple!consumerVars, SimpleIInv,
      Simple!TypeOK, PointersOK, SlotsOK, SimpleControlOK, SimpleGotOK, SimpleUnderWay, Dist
<1> QED  BY <1>1, SimpleProducerOK, SimpleConsumerOK DEF Simple!Next, Simple!Ended

LEMMA SimpleInvariance == Simple!Spec => []SimpleIInv
  BY SimpleInit, SimpleStepOK, PTL DEF Simple!Spec

(* The pointers stay in the ring, and the two threads never work on the    *)
(* same slot.                                                              *)
THEOREM SimpleQueueSafe == Simple!Spec => []QueueInv
<1>1. SimpleIInv => QueueInv
  <2> SUFFICES ASSUME SimpleIInv
               PROVE  Simple!NoSharedSlot
    BY DEF SimpleIInv, QueueInv, Simple!QueueInv
  <2>1. SimpleUnderWay > 0 => simpleEnqPtr # simpleDeqPtr
    BY SimpleCounts, SimpleQueueAssumption DEF SimpleIInv, PointersOK
  <2> QED  BY <2>1 DEF SimpleIInv, SimpleControlOK, Simple!NoSharedSlot
<1> QED  BY <1>1, SimpleInvariance, PTL

-----------------------------------------------------------------------------
(* What the slots from deqPtr up to enqPtr hold: the entries that were put *)
(* and not received, in their order.                                       *)
LEMMA SimpleHeldIsRun ==
  SimpleIInv => Simple!Held = From(Len(simpleGot), SimpleUnderWay)
<1> SUFFICES ASSUME SimpleIInv
             PROVE  Simple!Held = From(Len(simpleGot), SimpleUnderWay)
  OBVIOUS
<1> USE SimpleQueueAssumption
<1>1. /\ Len(simpleGot) \in Nat /\ SimpleUnderWay \in 0 .. MaxElements - 1
      /\ simpleEnqPtr \in 0 .. MaxElements - 1 /\ simpleDeqPtr \in 0 .. MaxElements - 1
  BY SimpleCounts DEF SimpleIInv, PointersOK
<1>2. (simpleEnqPtr - simpleDeqPtr) % MaxElements = SimpleUnderWay
  <2>1. (simpleEnqPtr - simpleDeqPtr) % MaxElements
          = IF simpleEnqPtr >= simpleDeqPtr THEN simpleEnqPtr - simpleDeqPtr
                                ELSE simpleEnqPtr - simpleDeqPtr + MaxElements
    BY <1>1, RingDistance, SMTT(30)
  <2> QED  BY <1>1, <2>1 DEF SimpleIInv, PointersOK
<1>3. ASSUME NEW k \in 1 .. SimpleUnderWay
      PROVE  simpleContent[(simpleDeqPtr + k - 1) % MaxElements] = Len(simpleGot) + k - 1
  <2> DEFINE d == k - 1
             s == (simpleDeqPtr + d) % MaxElements
  <2>1. d \in 0 .. MaxElements - 1 /\ d < SimpleUnderWay
    BY <1>1
  <2>2. /\ (simpleDeqPtr + k - 1) % MaxElements = s
        /\ Len(simpleGot) + k - 1 = Len(simpleGot) + d
    <3>1. simpleDeqPtr + k - 1 = simpleDeqPtr + d
      BY <1>1
    <3> QED  BY <1>1, <3>1
  <2> HIDE DEF d
  <2>3. s = IF simpleDeqPtr + d < MaxElements
            THEN simpleDeqPtr + d ELSE simpleDeqPtr + d - MaxElements
    <3>1. MaxElements \in Nat \ {0} /\ simpleDeqPtr \in 0 .. MaxElements - 1
      BY <1>1
    <3> QED  BY <2>1, <3>1, RingSum, Zenon
  <2> HIDE DEF s
  <2>4. s \in Simple!SlotIdx /\ Dist(s) = d
    <3>1. d \in Int /\ d >= 0 /\ d < MaxElements
      BY <2>1
    <3>2. CASE simpleDeqPtr + d < MaxElements
      BY <1>1, <2>3, <3>1, <3>2 DEF Simple!SlotIdx, Dist
    <3>3. CASE ~(simpleDeqPtr + d < MaxElements)
      BY <1>1, <2>3, <3>1, <3>3 DEF Simple!SlotIdx, Dist
    <3> QED  BY <3>2, <3>3
  <2>5. simpleContent[s] = Len(simpleGot) + d
    BY <2>1, <2>4 DEF SimpleIInv, SlotsOK
  <2> QED  BY <2>2, <2>5
<1> QED  BY <1>2, <1>3 DEF Simple!Held, From

(* The step of enqPtr puts the entry in, that of deqPtr takes it out, and  *)
(* no other step changes what the queue holds.                             *)
LEMMA SimpleStepIsChannelStep ==
  ASSUME SimpleIInv, SimpleIInv', [Simple!Next]_(Simple!vars)
  PROVE  [Simple!Channel!Next]_(Simple!Channel!channelVars)
<1> USE DEF Simple!Channel!channelVars, Simple!producerVars, Simple!consumerVars
<1>1. /\ Simple!Held = From(Len(simpleGot), SimpleUnderWay)
      /\ Simple!Held' = From(Len(simpleGot'), SimpleUnderWay')
  <2>1. Simple!Held = From(Len(simpleGot), SimpleUnderWay)
    BY SimpleHeldIsRun
  <2>2. SimpleIInv' => (Simple!Held = From(Len(simpleGot), SimpleUnderWay))'
    BY SimpleHeldIsRun, PTL
  <2> QED  BY <2>1, <2>2 DEF From
<1>2. /\ Len(simpleGot) \in Nat /\ SimpleUnderWay \in Nat
      /\ simpleSent = Len(simpleGot) + SimpleUnderWay
  BY SimpleCounts, SimpleQueueAssumption DEF SimpleIInv, PointersOK
<1>3. Len(Simple!Held) = SimpleUnderWay
  BY <1>1, <1>2, FromIsSeq
<1>4. CASE Simple!EnqueuePublish
  <2> USE <1>4 DEF Simple!EnqueuePublish
  <2>1. SimpleUnderWay < MaxElements - 1 /\ simpleSent < Count
    BY DEF SimpleIInv, SimpleControlOK
  <2>2. SimpleUnderWay' = SimpleUnderWay + 1 /\ simpleGot' = simpleGot
    BY <1>2 DEF SimpleUnderWay
  <2>3. Simple!Held' = Append(Simple!Held, Len(simpleGot) + SimpleUnderWay)
    BY <1>1, <1>2, <2>2, FromAppend
  <2>4. Simple!Channel!Put
    BY <1>2, <1>3, <2>1, <2>2, <2>3 DEF Simple!Channel!Put
  <2> QED  BY <2>4 DEF Simple!Channel!Next
<1>5. CASE Simple!DequeueRelease
  <2> USE <1>5 DEF Simple!DequeueRelease
  <2>1. SimpleUnderWay \in Nat \ {0} /\ value = Len(simpleGot)
    BY <1>2 DEF SimpleIInv, SimpleControlOK
  <2>2. /\ simpleGot' = Append(simpleGot, Len(simpleGot))
        /\ Len(simpleGot') = Len(simpleGot) + 1
    BY <2>1, AppendProperties DEF SimpleIInv, Simple!TypeOK
  <2>3. SimpleUnderWay' = SimpleUnderWay - 1
    BY <1>2, <2>2 DEF SimpleUnderWay
  <2>4. /\ Simple!Held # <<>> /\ Head(Simple!Held) = Len(simpleGot)
        /\ Tail(Simple!Held) = Simple!Held'
    <3>1. Simple!Held # <<>>
      BY <1>1, <2>1, FromIsSeq
    <3>2. Len(simpleGot) + 1 = Len(simpleGot') /\ SimpleUnderWay - 1 = SimpleUnderWay'
      BY <1>2, <2>2, <2>3
    <3> QED  BY <1>1, <1>2, <2>1, <3>1, <3>2, FromHeadTail
  <2>5. Simple!Channel!Get
    BY <2>2, <2>4 DEF Simple!Channel!Get
  <2> QED  BY <2>5 DEF Simple!Channel!Next
<1>6. CASE Simple!EnqueueWait \/ Simple!EnqueueStore \/ Simple!DequeueWait
           \/ Simple!DequeueRead \/ UNCHANGED Simple!vars
  <2>1. SimpleUnderWay' = SimpleUnderWay /\ simpleGot' = simpleGot
    BY <1>6 DEF Simple!EnqueueWait, Simple!EnqueueStore, Simple!DequeueWait,
                Simple!DequeueRead, Simple!vars, SimpleUnderWay
  <2> QED  BY <1>1, <2>1
<1> QED  BY <1>4, <1>5, <1>6 DEF Simple!Next, Simple!Producer, Simple!Consumer, Simple!Ended

(* The safety part of SimpleImplementsChannel: whatever the speed of the   *)
(* two threads, no entry is lost, doubled, overtaken or read before it was *)
(* written, and at most MaxElements - 1 are under way.                     *)
THEOREM SimpleQueueIsChannel ==
  Simple!Spec =>
    Simple!Channel!Init /\ [][Simple!Channel!Next]_(Simple!Channel!channelVars)
<1>1. Simple!Init => Simple!Channel!Init
  <2> SUFFICES ASSUME Simple!Init
               PROVE  Simple!Held = <<>>
    BY DEF Simple!Init, Simple!Channel!Init
  <2>1. simpleGot = <<>> /\ simpleSent = 0
    BY DEF Simple!Init
  <2>2. SimpleUnderWay = 0 /\ Len(simpleGot) = 0
    <3>1. Len(simpleGot) = 0
      BY <2>1, EmptySeq
    <3>2. simpleSent = 0
      BY <2>1
    <3> QED  BY <3>1, <3>2 DEF SimpleUnderWay
  <2>3. Simple!Held = From(0, 0)
    BY <2>2, SimpleInit, SimpleHeldIsRun
  <2> QED  BY <2>3, FromIsSeq
<1> QED
  BY <1>1, SimpleInit, SimpleStepOK, SimpleStepIsChannelStep, PTL
     DEF Simple!Spec

-----------------------------------------------------------------------------
(* Every behaviour of MCQueues is one of either queue, so the theorems     *)
(* above hold in it.                                                       *)
LEMMA QueuesAreBoth == QueuesSpec => Simple!Spec /\ Spec
<1>1. QueuesInit => Simple!Init /\ Init
  BY DEF QueuesInit
<1>2. [QueuesNext]_<<simpleVars, vars>> => [Simple!Next]_(Simple!vars) /\ [Next]_vars
  BY DEF QueuesNext, simpleVars, Simple!vars, Simple!producerVars, Simple!consumerVars
<1> QED  BY <1>1, <1>2, PTL DEF QueuesSpec, Simple!Spec, Spec

=============================================================================
