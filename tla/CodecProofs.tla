----------------------------- MODULE CodecProofs ----------------------------
(***************************************************************************)
(* What the encodings of Vlq.tla and Frame.tla promise, for every width of *)
(* a byte and of a word.                                                   *)
(*                                                                         *)
(* Each reader has two laws.  It returns what the writer wrote, whatever   *)
(* follows; and what it once read from an input it also reads when more    *)
(* input follows.                                                          *)
(***************************************************************************)
EXTENDS Frame, Recursion, SequenceTheorems

\* First-order reasoning is enough for most leaves; the ones that need arithmetic, or
\* what the backend knows of sequences, cite SMT.
USE ZenonT(30)

----------------------------------------------------------------------------
(* Powers of two *)

\* The recursion of Pow2 is well founded.
LEMMA Pow2Def ==
    Pow2 = [n \in Nat |-> IF n = 0 THEN 1 ELSE 2 * Pow2[n - 1]]
<1> DEFINE body == [f \in [Nat -> Nat] |->
                      [n \in Nat |-> IF n = 0 THEN 1 ELSE 2 * f[n - 1]]]
           rank == [n \in Nat |-> n]
<1>1. \A f, g \in [Nat -> Nat] : \A x \in Nat :
         (\A y \in Nat : rank[y] < rank[x] => f[y] = g[y]) => body[f][x] = body[g][x]
  <2> SUFFICES ASSUME NEW f \in [Nat -> Nat], NEW g \in [Nat -> Nat], NEW x \in Nat,
                      \A y \in Nat : rank[y] < rank[x] => f[y] = g[y]
               PROVE  body[f][x] = body[g][x]
    OBVIOUS
  <2>1. CASE x = 0
    BY <2>1
  <2>2. CASE x # 0
    <3>1. x - 1 \in Nat /\ rank[x - 1] < rank[x]
      BY <2>2, SMTT(30)
    <3> QED  BY <3>1
  <2> QED  BY <2>1, <2>2
<1>2. Ranked(Nat, Nat, rank, body)
  BY <1>1, SMTT(30) DEF Ranked
<1>3. HasFixpoint(Nat, Nat, body)
  <2> HIDE DEF body, rank
  <2> QED  BY <1>2, RankRecursion
<1>4. PICK F \in [Nat -> Nat] : F = body[F]
  BY <1>3 DEF HasFixpoint
<1>5. F = [n \in Nat |-> IF n = 0 THEN 1 ELSE 2 * F[n - 1]]
  BY <1>4
<1> QED  BY <1>5 DEF Pow2

\* The powers of two: the first, the next, and that they are positive.
LEMMA Pow2Laws ==
    /\ Pow2[0] = 1
    /\ \A n \in Nat : Pow2[n + 1] = 2 * Pow2[n] /\ Pow2[n] \in Nat /\ Pow2[n] >= 1
<1> DEFINE P == {n \in Nat : Pow2[n] \in Nat /\ Pow2[n] >= 1}
<1>1. Pow2[0] = 1
  BY Pow2Def
<1>2. ASSUME NEW n \in Nat PROVE Pow2[n + 1] = 2 * Pow2[n]
  <2>1. n + 1 \in Nat /\ n + 1 # 0 /\ (n + 1) - 1 = n
    BY SMTT(30)
  <2> QED  BY <2>1, Pow2Def
<1>3. 0 \in P /\ \A n \in Nat : n \in P => n + 1 \in P
  BY <1>1, <1>2, SMTT(30)
<1>4. Nat \subseteq P
  <2> HIDE DEF P
  <2> QED  BY <1>3, NatSetInduction
<1> QED  BY <1>1, <1>2, <1>4

\* A power of a sum.
LEMMA Pow2Sum ==
    \A m, n \in Nat : Pow2[m + n] = Pow2[m] * Pow2[n]
<1> SUFFICES ASSUME NEW m \in Nat PROVE \A n \in Nat : Pow2[m + n] = Pow2[m] * Pow2[n]
  OBVIOUS
<1> DEFINE P == {n \in Nat : Pow2[m + n] = Pow2[m] * Pow2[n]}
<1>1. 0 \in P
  <2>1. Pow2[m] \in Nat /\ Pow2[0] = 1 /\ m + 0 = m
    BY Pow2Laws, SMTT(30)
  <2> QED  BY <2>1, SMTT(30)
<1>2. ASSUME NEW n \in Nat, n \in P PROVE n + 1 \in P
  <2>1. m + (n + 1) = (m + n) + 1 /\ m + n \in Nat
    BY SMTT(30)
  <2>2. Pow2[m] \in Nat /\ Pow2[n] \in Nat /\ Pow2[n + 1] = 2 * Pow2[n]
          /\ Pow2[(m + n) + 1] = 2 * Pow2[m + n]
    BY <2>1, Pow2Laws
  <2>3. Pow2[m] * (2 * Pow2[n]) = 2 * (Pow2[m] * Pow2[n])
    BY <2>2, SMTT(30)
  <2> QED  BY <1>2, <2>1, <2>2, <2>3, SMTT(30)
<1>3. Nat \subseteq P
  <2> HIDE DEF P
  <2> QED  BY <1>1, <1>2, NatSetInduction
<1> QED  BY <1>3

\* Powers of two grow.
LEMMA Pow2Monotone ==
    ASSUME NEW m \in Nat, NEW n \in Nat, m <= n
    PROVE  Pow2[m] <= Pow2[n]
<1>1. n - m \in Nat /\ n = m + (n - m)
  BY SMTT(30)
<1> DEFINE a == Pow2[m]  b == Pow2[n - m]
<1>2. a \in Nat /\ b \in Nat /\ b >= 1
  BY <1>1, Pow2Laws
<1>3. Pow2[n] = a * b
  BY <1>1, Pow2Sum
<1> HIDE DEF a, b
<1>4. a * b >= a
  BY <1>2, SMTT(30)
<1> QED  BY <1>2, <1>3, <1>4 DEF a

----------------------------------------------------------------------------
(* The width of groups and words *)

\* A group has at least one bit.
LEMMA ContinuationType ==
    Continuation \in Nat /\ Continuation >= 2
<1>1. GroupBits - 1 \in Nat /\ (GroupBits - 1) + 1 = GroupBits
  BY VlqAssumption, SMTT(30)
<1> QED  BY <1>1, Pow2Laws, SMTT(30) DEF Continuation

\* With one group more there are Continuation times as many values.
LEMMA GroupMore ==
    ASSUME NEW n \in Nat
    PROVE  /\ Pow2[GroupBits * (n + 1)] = Continuation * Pow2[GroupBits * n]
           /\ Pow2[GroupBits * n] \in Nat
<1> DEFINE e == GroupBits * n
<1>1. GroupBits * (n + 1) = GroupBits + e /\ e \in Nat /\ GroupBits \in Nat
  BY VlqAssumption, SMTT(30)
<1> HIDE DEF e
<1>2. Pow2[GroupBits + e] = Pow2[GroupBits] * Pow2[e] /\ Pow2[e] \in Nat
  BY <1>1, Pow2Sum, Pow2Laws
<1> QED  BY <1>1, <1>2 DEF Continuation, e

\* The groups that read_vlq accepts hold a word.
LEMMA GroupsHoldWord ==
    /\ MaxGroups \in Nat \ {0}
    /\ Pow2[WordBits] \in Nat \ {0}
    /\ Pow2[WordBits] <= Pow2[GroupBits * MaxGroups]
<1> DEFINE q == (WordBits - 1) \div GroupBits  r == (WordBits - 1) % GroupBits
<1>1. /\ GroupBits \in Nat /\ GroupBits > 0 /\ WordBits \in Nat /\ WordBits - 1 \in Nat
  BY VlqAssumption, SMTT(30)
<1>2. q \in Nat /\ r \in 0..GroupBits - 1 /\ WordBits - 1 = GroupBits * q + r
  BY <1>1, SMTT(30)
<1>3. GroupBits * (q + 1) = GroupBits * q + GroupBits
  BY <1>1, <1>2, SMTT(30)
<1>4. GroupBits * q \in Nat
  BY <1>1, <1>2, SMTT(30)
<1> HIDE DEF q, r
<1>5. WordBits <= GroupBits * (q + 1) /\ GroupBits * (q + 1) \in Nat
  BY <1>1, <1>2, <1>3, <1>4, SMTT(30)
<1>6. MaxGroups = q + 1
  BY DEF MaxGroups, q
<1> QED  BY <1>1, <1>2, <1>5, <1>6, Pow2Monotone, Pow2Laws, SMTT(30)

----------------------------------------------------------------------------
(* VLQ *)

\* Dividing a word by the size of a group makes it smaller.
LEMMA GroupDivision ==
    ASSUME NEW v \in Nat
    PROVE  /\ v \div Continuation \in Nat
           /\ v % Continuation \in 0..Continuation - 1
           /\ v = Continuation * (v \div Continuation) + (v % Continuation)
           /\ v >= Continuation => v \div Continuation < v
<1> DEFINE C == Continuation  q == v \div C  r == v % C
<1>1. C \in Nat /\ C >= 2
  BY ContinuationType
<1> HIDE DEF C
<1>2. q \in Nat /\ r \in 0..C - 1 /\ v = C * q + r
  BY <1>1, SMTT(30)
<1> HIDE DEF q, r
<1>3. C * q >= 2 * q /\ (v >= C => v > 0)
  BY <1>1, <1>2, SMTT(30)
<1>4. v >= C => q < v
  <2>1. CASE q = 0
    BY <1>1, <1>2, <2>1, SMTT(30)
  <2>2. CASE q > 0
    BY <1>1, <1>2, <1>3, <2>2, SMTT(30)
  <2> QED  BY <1>2, <2>1, <2>2, SMTT(30)
<1> QED  BY <1>2, <1>4 DEF C, q, r

\* The loop of write_vlq ends.
LEMMA WriteVlqDef ==
    WriteVlq = [value \in Word |->
                  IF value < Continuation THEN <<value>>
                  ELSE <<Continuation + (value % Continuation)>>
                         \o WriteVlq[value \div Continuation]]
<1> DEFINE body == [f \in [Word -> Seq(Unit)] |->
                      [value \in Word |->
                         IF value < Continuation THEN <<value>>
                         ELSE <<Continuation + (value % Continuation)>>
                                \o f[value \div Continuation]]]
           rank == [value \in Word |-> value]
<1>0. Word \subseteq Nat /\ Pow2[WordBits] \in Nat /\ Continuation \in Nat
  BY GroupsHoldWord, ContinuationType, SMTT(30) DEF Word
<1>1. ASSUME NEW value \in Word, ~(value < Continuation)
      PROVE  /\ value \div Continuation \in Word
             /\ value \div Continuation < value
             /\ Continuation + (value % Continuation) \in Unit
  <2> DEFINE q == value \div Continuation  r == value % Continuation
  <2>1. value \in Nat /\ value < Pow2[WordBits] /\ value >= Continuation
    BY <1>0, <1>1, SMTT(30) DEF Word
  <2>2. q \in Nat /\ q < value /\ r \in 0..Continuation - 1
    BY <2>1, GroupDivision
  <2> HIDE DEF q, r
  <2>3. q \in 0..Pow2[WordBits] - 1 /\ Continuation + r \in Nat
    BY <1>0, <2>1, <2>2, SMTT(30)
  <2> QED  BY <2>2, <2>3 DEF q, r, Word, Unit
<1>2. body \in [[Word -> Seq(Unit)] -> [Word -> Seq(Unit)]]
  <2> SUFFICES ASSUME NEW f \in [Word -> Seq(Unit)], NEW value \in Word
               PROVE  body[f][value] \in Seq(Unit)
    OBVIOUS
  <2>1. CASE value < Continuation
    <3>1. value \in Unit
      BY <1>0 DEF Unit
    <3> QED  BY <2>1, <3>1, SMTT(30)
  <2>2. CASE ~(value < Continuation)
    <3>1. f[value \div Continuation] \in Seq(Unit)
      BY <1>1, <2>2
    <3> QED  BY <1>1, <2>2, <3>1, SMTT(30)
  <2> QED  BY <2>1, <2>2
<1>3. \A f, g \in [Word -> Seq(Unit)] : \A x \in Word :
         (\A y \in Word : rank[y] < rank[x] => f[y] = g[y]) => body[f][x] = body[g][x]
  <2> SUFFICES ASSUME NEW f \in [Word -> Seq(Unit)], NEW g \in [Word -> Seq(Unit)],
                      NEW x \in Word, \A y \in Word : rank[y] < rank[x] => f[y] = g[y]
               PROVE  body[f][x] = body[g][x]
    OBVIOUS
  <2>1. CASE x < Continuation
    BY <2>1
  <2>2. CASE ~(x < Continuation)
    <3>1. f[x \div Continuation] = g[x \div Continuation]
      BY <1>1, <2>2
    <3> QED  BY <2>2, <3>1
  <2> QED  BY <2>1, <2>2
<1>4. Ranked(Word, Seq(Unit), rank, body)
  <2>1. rank \in [Word -> Nat]
    BY <1>0
  <2>2. <<>> \in Seq(Unit)
    BY EmptySeq
  <2> QED  BY <1>2, <1>3, <2>1, <2>2 DEF Ranked
<1>5. HasFixpoint(Word, Seq(Unit), body)
  <2> HIDE DEF body, rank
  <2> QED  BY <1>4, RankRecursion
<1>6. PICK F \in [Word -> Seq(Unit)] : F = body[F]
  BY <1>5 DEF HasFixpoint
<1>7. F = [value \in Word |->
             IF value < Continuation THEN <<value>>
             ELSE <<Continuation + (value % Continuation)>> \o F[value \div Continuation]]
  BY <1>6
<1> QED  BY <1>7 DEF WriteVlq

\* The value of a VLQ is computed byte by byte.
LEMMA VlqValueDef ==
    VlqValue = [bytes \in Seq(Unit) |->
                  IF bytes = <<>> THEN 0
                  ELSE (Head(bytes) % Continuation) + Continuation * VlqValue[Tail(bytes)]]
<1> DEFINE body == [f \in [Seq(Unit) -> Nat] |->
                      [bytes \in Seq(Unit) |->
                         IF bytes = <<>> THEN 0
                         ELSE (Head(bytes) % Continuation) + Continuation * f[Tail(bytes)]]]
           rank == [bytes \in Seq(Unit) |-> Len(bytes)]
<1>1. ASSUME NEW s \in Seq(Unit), s # <<>>
      PROVE  /\ Tail(s) \in Seq(Unit) /\ Len(Tail(s)) < Len(s)
             /\ Head(s) % Continuation \in Nat
  <2>1. Tail(s) \in Seq(Unit) /\ Len(Tail(s)) = Len(s) - 1 /\ Head(s) \in Nat
    BY <1>1, HeadTailProperties DEF Unit
  <2>2. Head(s) % Continuation \in 0..Continuation - 1 /\ Continuation \in Nat
    BY <2>1, GroupDivision, ContinuationType
  <2>3. Head(s) % Continuation \in Nat
    BY <2>2, SMTT(30)
  <2>4. Len(s) \in Nat
    BY SMTT(30)
  <2> QED  BY <2>1, <2>3, <2>4, SMTT(30)
<1>2. body \in [[Seq(Unit) -> Nat] -> [Seq(Unit) -> Nat]]
  <2> SUFFICES ASSUME NEW f \in [Seq(Unit) -> Nat], NEW s \in Seq(Unit)
               PROVE  body[f][s] \in Nat
    OBVIOUS
  <2>1. CASE s = <<>>
    BY <2>1
  <2>2. CASE s # <<>>
    <3>1. f[Tail(s)] \in Nat
      BY <1>1, <2>2
    <3>2. Continuation * f[Tail(s)] \in Nat
      BY <3>1, ContinuationType, SMTT(30)
    <3> QED  BY <1>1, <2>2, <3>2, SMTT(30)
  <2> QED  BY <2>1, <2>2
<1>3. \A f, g \in [Seq(Unit) -> Nat] : \A x \in Seq(Unit) :
         (\A y \in Seq(Unit) : rank[y] < rank[x] => f[y] = g[y]) => body[f][x] = body[g][x]
  <2> SUFFICES ASSUME NEW f \in [Seq(Unit) -> Nat], NEW g \in [Seq(Unit) -> Nat],
                      NEW x \in Seq(Unit),
                      \A y \in Seq(Unit) : rank[y] < rank[x] => f[y] = g[y]
               PROVE  body[f][x] = body[g][x]
    OBVIOUS
  <2>1. CASE x = <<>>
    BY <2>1
  <2>2. CASE x # <<>>
    <3>1. f[Tail(x)] = g[Tail(x)]
      BY <1>1, <2>2
    <3> QED  BY <2>2, <3>1
  <2> QED  BY <2>1, <2>2
<1>4. Ranked(Seq(Unit), Nat, rank, body)
  <2>1. rank \in [Seq(Unit) -> Nat]
    BY SMTT(30)
  <2> QED  BY <1>2, <1>3, <2>1 DEF Ranked
<1>5. HasFixpoint(Seq(Unit), Nat, body)
  <2> HIDE DEF body, rank
  <2> QED  BY <1>4, RankRecursion
<1>6. PICK F \in [Seq(Unit) -> Nat] : F = body[F]
  BY <1>5 DEF HasFixpoint
<1>7. F = [bytes \in Seq(Unit) |->
             IF bytes = <<>> THEN 0
             ELSE (Head(bytes) % Continuation) + Continuation * F[Tail(bytes)]]
  BY <1>6
<1> QED  BY <1>7 DEF VlqValue

\* A sequence with an element put before it.
LEMMA ConsLaws ==
    ASSUME NEW S, NEW a \in S, NEW w \in Seq(S)
    PROVE  /\ <<a>> \o w \in Seq(S)
           /\ <<a>> \o w # <<>>
           /\ Len(<<a>> \o w) = Len(w) + 1
           /\ Head(<<a>> \o w) = a
           /\ Tail(<<a>> \o w) = w
           /\ (<<a>> \o w)[1] = a
           /\ \A i \in 1..Len(w) : (<<a>> \o w)[i + 1] = w[i]
<1> DEFINE s == <<a>> \o w
<1>1. /\ <<a>> \in Seq(S) /\ Len(<<a>>) = 1
      /\ s \in Seq(S) /\ Len(s) = Len(w) + 1 /\ Len(w) \in Nat
      /\ s[1] = a /\ \A i \in 1..Len(w) : s[i + 1] = w[i]
  BY SMTT(30)
<1>2. s # <<>>
  BY <1>1, SMTT(30)
<1> HIDE DEF s
<1>3. Tail(s) \in Seq(S) /\ Len(Tail(s)) = Len(w) /\ Head(s) = a
        /\ \A i \in 1..Len(w) : Tail(s)[i] = w[i]
  BY <1>1, <1>2, SMTT(30)
<1>4. Tail(s) = w
  BY <1>3, SeqEqual
<1> QED  BY <1>1, <1>2, <1>3, <1>4 DEF s

\* The value of a VLQ, and that it has no more bits than there are in the groups.
LEMMA VlqValueLaws ==
    /\ VlqValue[<<>>] = 0
    /\ \A a \in Unit : \A w \in Seq(Unit) :
          VlqValue[<<a>> \o w] = (a % Continuation) + Continuation * VlqValue[w]
    /\ \A s \in Seq(Unit) :
          VlqValue[s] \in Nat /\ VlqValue[s] < Pow2[GroupBits * Len(s)]
<1>1. VlqValue[<<>>] = 0
  <2>1. <<>> \in Seq(Unit)
    BY EmptySeq
  <2> QED  BY <2>1, VlqValueDef
<1>2. ASSUME NEW a \in Unit, NEW w \in Seq(Unit)
      PROVE  VlqValue[<<a>> \o w] = (a % Continuation) + Continuation * VlqValue[w]
  <2> DEFINE s == <<a>> \o w
  <2>1. s \in Seq(Unit) /\ s # <<>> /\ Head(s) = a /\ Tail(s) = w
    BY ConsLaws, SMTT(30)
  <2> HIDE DEF s
  <2>2. VlqValue[s] = (Head(s) % Continuation) + Continuation * VlqValue[Tail(s)]
    BY <2>1, VlqValueDef
  <2> QED  BY <2>1, <2>2 DEF s
<1> DEFINE P == {n \in Nat : \A s \in Seq(Unit) : Len(s) = n =>
                   VlqValue[s] \in Nat /\ VlqValue[s] < Pow2[GroupBits * n]}
<1>3. 0 \in P
  <2> SUFFICES ASSUME NEW s \in Seq(Unit), Len(s) = 0
               PROVE  VlqValue[s] \in Nat /\ VlqValue[s] < Pow2[GroupBits * 0]
    OBVIOUS
  <2>1. s = <<>> /\ GroupBits * 0 = 0
    BY VlqAssumption, SMTT(30)
  <2> QED  BY <2>1, <1>1, Pow2Laws, SMTT(30)
<1>4. ASSUME NEW n \in Nat, n \in P PROVE n + 1 \in P
  <2> SUFFICES ASSUME NEW s \in Seq(Unit), Len(s) = n + 1
               PROVE  VlqValue[s] \in Nat /\ VlqValue[s] < Pow2[GroupBits * (n + 1)]
    BY SMTT(30)
  <2> DEFINE C == Continuation  x == VlqValue[Tail(s)]  r == Head(s) % C
             p == Pow2[GroupBits * n]
  <2>1. s # <<>> /\ Head(s) \in Nat /\ Tail(s) \in Seq(Unit) /\ Len(Tail(s)) = n
    BY SMTT(30) DEF Unit
  <2>2. x \in Nat /\ x < p
    BY <2>1, <1>4
  <2>3. VlqValue[s] = r + C * x
    BY <2>1, VlqValueDef
  <2>4. C \in Nat /\ C >= 2 /\ r \in 0..C - 1
    BY <2>1, GroupDivision, ContinuationType
  <2>5. GroupBits * (n + 1) = GroupBits + GroupBits * n /\ GroupBits * n \in Nat
          /\ GroupBits \in Nat
    BY VlqAssumption, SMTT(30)
  <2>6. Pow2[GroupBits * (n + 1)] = C * p /\ p \in Nat
    BY <2>5, GroupMore
  <2> HIDE DEF C, x, r, p
  <2>7. x + 1 <= p /\ x + 1 \in Nat
    BY <2>2, <2>6, SMTT(30)
  <2>8. C * (x + 1) <= C * p /\ C * (x + 1) = C * x + C /\ C * x \in Nat
    BY <2>2, <2>4, <2>6, <2>7, SMTT(30)
  <2> QED  BY <2>3, <2>4, <2>6, <2>8, SMTT(30)
<1>5. Nat \subseteq P
  <2> HIDE DEF P
  <2> QED  BY <1>3, <1>4, NatSetInduction
<1> QED  BY <1>1, <1>2, <1>5, SMTT(30)

\* w is a VLQ for v of at most k bytes: all but the last have a continuation bit.
IsVlq(w, v, k) ==
    /\ w \in Seq(Unit)
    /\ Len(w) \in 1..k
    /\ w[Len(w)] < Continuation
    /\ \A i \in 1..Len(w) - 1 : w[i] >= Continuation
    /\ VlqValue[w] = v

\* write_vlq writes a VLQ for its argument, and as few bytes as the argument has groups.
LEMMA WriteVlqShortest ==
    ASSUME NEW v \in Word, NEW k \in Nat \ {0}, v < Pow2[GroupBits * k]
    PROVE  IsVlq(WriteVlq[v], v, k)
<1> DEFINE C == Continuation
           P == {n \in Nat : \A x \in Word :
                   x < Pow2[GroupBits * (n + 1)] => IsVlq(WriteVlq[x], x, n + 1)}
<1>0. C \in Nat /\ C >= 2 /\ Word \subseteq Nat /\ Pow2[WordBits] \in Nat
  BY ContinuationType, GroupsHoldWord, SMTT(30) DEF Word
<1>1. ASSUME NEW x \in Word, x < C, NEW n \in Nat PROVE IsVlq(WriteVlq[x], x, n + 1)
  <2>1. WriteVlq[x] = <<x>>
    BY <1>1, WriteVlqDef
  <2>2. x \in Nat /\ x \in Unit
    BY <1>0 DEF Unit
  <2>3. <<x>> \in Seq(Unit) /\ Len(<<x>>) = 1 /\ <<x>>[1] = x /\ 1 \in 1..n + 1
    BY <2>2, SMTT(30)
  <2>4. VlqValue[<<x>>] = x
    <3>1. <<x>> = <<x>> \o <<>> /\ <<>> \in Seq(Unit)
      BY <2>3, EmptySeq, ConcatEmptySeq
    <3>2. VlqValue[<<x>>] = (x % C) + C * 0
      BY <2>2, <3>1, VlqValueLaws
    <3>3. x % C = x
      BY <1>0, <1>1, <2>2, SMTT(30)
    <3> QED  BY <1>0, <2>2, <3>2, <3>3, SMTT(30)
  <2> QED  BY <1>1, <2>1, <2>3, <2>4, SMTT(30) DEF IsVlq
<1>2. 0 \in P
  <2>1. GroupBits * (0 + 1) = GroupBits
    BY VlqAssumption, SMTT(30)
  <2> QED  BY <1>1, <2>1 DEF Continuation
<1>3. ASSUME NEW n \in Nat, n \in P PROVE n + 1 \in P
  <2> SUFFICES ASSUME NEW x \in Word, x < Pow2[GroupBits * ((n + 1) + 1)]
               PROVE  IsVlq(WriteVlq[x], x, (n + 1) + 1)
    BY SMTT(30)
  <2>1. CASE x < C
    BY <1>1, <2>1, SMTT(30)
  <2>2. CASE ~(x < C)
    <3> DEFINE q == x \div C  r == x % C  p == Pow2[GroupBits * (n + 1)]  w == WriteVlq[q]
    <3>1. x \in Nat /\ q \in Nat /\ r \in 0..C - 1 /\ x = C * q + r /\ q < x
      BY <1>0, <2>2, GroupDivision, SMTT(30)
    <3>2. GroupBits * ((n + 1) + 1) = GroupBits + GroupBits * (n + 1)
            /\ GroupBits * (n + 1) \in Nat /\ GroupBits \in Nat
      BY VlqAssumption, SMTT(30)
    <3>3. x < C * p /\ p \in Nat
      <4>1. n + 1 \in Nat
        BY SMTT(30)
      <4>2. Pow2[GroupBits * ((n + 1) + 1)] = C * p /\ p \in Nat
        BY <4>1, GroupMore
      <4> QED  BY <4>2
    <3>4. q \in Word
      <4> HIDE DEF q
      <4> QED  BY <1>0, <3>1, SMTT(30) DEF Word
    <3>5. q < p
      <4> HIDE DEF C, q, r, p
      <4>1. SUFFICES ASSUME p <= q PROVE FALSE
        BY <3>1, <3>3, SMTT(30)
      <4>2. C * p <= C * q
        BY <4>1, <1>0, <3>1, <3>3, SMTT(30)
      <4> QED  BY <4>2, <1>0, <3>1, <3>3, SMTT(30)
    <3>6. IsVlq(w, q, n + 1)
      BY <1>3, <3>4, <3>5
    <3>7. WriteVlq[x] = <<C + r>> \o w
      BY <2>2, WriteVlqDef
    <3> HIDE DEF C, q, r, p, w
    <3>8. C + r \in Unit /\ C + r >= C /\ (C + r) % C = r
      BY <1>0, <3>1, SMTT(30) DEF Unit
    <3>9. w \in Seq(Unit) /\ Len(w) \in 1..n + 1 /\ w[Len(w)] < C /\ VlqValue[w] = q
            /\ \A i \in 1..Len(w) - 1 : w[i] >= C
      BY <3>6 DEF IsVlq, C
    <3> DEFINE t == <<C + r>> \o w
    <3>10. /\ t \in Seq(Unit) /\ Len(t) = Len(w) + 1 /\ t[1] = C + r
           /\ \A i \in 1..Len(w) : t[i + 1] = w[i]
      BY <3>8, <3>9, ConsLaws, SMTT(30)
    <3>11. VlqValue[t] = r + C * q
      BY <3>8, <3>9, VlqValueLaws DEF C
    <3> HIDE DEF t
    <3>12. Len(t) \in 1..(n + 1) + 1 /\ t[Len(t)] < C
      BY <3>9, <3>10, SMTT(30)
    <3>13. ASSUME NEW i \in 1..Len(t) - 1 PROVE t[i] >= C
      <4>1. CASE i = 1
        BY <4>1, <3>8, <3>10
      <4>2. CASE i # 1
        <5>1. i - 1 \in 1..Len(w) - 1 /\ i - 1 \in 1..Len(w) /\ (i - 1) + 1 = i
          BY <4>2, <3>9, <3>10, SMTT(30)
        <5> QED  BY <5>1, <3>9, <3>10
      <4> QED  BY <4>1, <4>2
    <3>14. VlqValue[t] = x
      BY <1>0, <3>1, <3>11, SMTT(30)
    <3> QED  BY <3>7, <3>10, <3>12, <3>13, <3>14 DEF IsVlq, C, t
  <2> QED  BY <2>1, <2>2
<1>4. Nat \subseteq P
  <2> HIDE DEF P
  <2> QED  BY <1>2, <1>3, NatSetInduction
<1>5. k - 1 \in Nat /\ (k - 1) + 1 = k
  BY SMTT(30)
<1> QED  BY <1>4, <1>5

\* A sequence that goes on is cut in the same places.
LEMMA CutConcat ==
    ASSUME NEW s \in Seq(Unit), NEW u \in Seq(Unit), NEW n \in 0..Len(s)
    PROVE  /\ SubSeq(s, 1, n) \in Seq(Unit) /\ Len(SubSeq(s, 1, n)) = n
           /\ SubSeq(s, n + 1, Len(s)) \in Seq(Unit)
           /\ Len(SubSeq(s, n + 1, Len(s))) = Len(s) - n
           /\ SubSeq(s \o u, 1, n) = SubSeq(s, 1, n)
           /\ SubSeq(s \o u, n + 1, Len(s \o u)) = SubSeq(s, n + 1, Len(s)) \o u
<1> DEFINE t == s \o u
           a == SubSeq(s, 1, n)  b == SubSeq(s, n + 1, Len(s))
           c == SubSeq(t, 1, n)  d == SubSeq(t, n + 1, Len(t))
<1>1. /\ t \in Seq(Unit) /\ Len(t) = Len(s) + Len(u) /\ Len(s) \in Nat /\ Len(u) \in Nat
      /\ \A i \in 1..Len(s) : t[i] = s[i]
      /\ \A i \in 1..Len(u) : t[Len(s) + i] = u[i]
  BY SMTT(30)
<1>2. /\ a \in Seq(Unit) /\ Len(a) = n /\ \A i \in 1..n : a[i] = s[i]
      /\ b \in Seq(Unit) /\ Len(b) = Len(s) - n
      /\ \A i \in 1..Len(s) - n : b[i] = s[n + i]
  BY SMTT(30)
<1> HIDE DEF t
<1>3. /\ c \in Seq(Unit) /\ Len(c) = n /\ \A i \in 1..n : c[i] = t[i]
      /\ d \in Seq(Unit) /\ Len(d) = Len(t) - n
      /\ \A i \in 1..Len(t) - n : d[i] = t[n + i]
  BY <1>1, SMTT(30)
<1> HIDE DEF a, b, c, d
<1>4. c = a
  <2>1. \A i \in 1..n : c[i] = a[i]
    <3>1. \A i \in 1..n : i \in 1..Len(s)
      BY <1>1, SMTT(30)
    <3> QED  BY <3>1, <1>1, <1>2, <1>3
  <2> QED  BY <2>1, <1>2, <1>3, SeqEqual
<1>5. /\ b \o u \in Seq(Unit) /\ Len(b \o u) = Len(d)
      /\ \A i \in 1..Len(d) : (b \o u)[i] = IF i <= Len(b) THEN b[i] ELSE u[i - Len(b)]
  <2>1. /\ b \o u \in Seq(Unit) /\ Len(b \o u) = Len(b) + Len(u)
        /\ \A i \in 1..Len(b) + Len(u) :
              (b \o u)[i] = IF i <= Len(b) THEN b[i] ELSE u[i - Len(b)]
    BY <1>2, ConcatProperties
  <2>2. Len(d) = Len(b) + Len(u)
    BY <1>1, <1>2, <1>3, SMTT(30)
  <2> QED  BY <2>1, <2>2
<1>6. ASSUME NEW i \in 1..Len(d) PROVE d[i] = (b \o u)[i]
  <2>1. CASE i <= Len(b)
    <3>1. i \in 1..Len(s) - n /\ n + i \in 1..Len(s) /\ i \in 1..Len(t) - n
      BY <2>1, <1>1, <1>2, <1>3, SMTT(30)
    <3>2. d[i] = t[n + i] /\ t[n + i] = s[n + i] /\ b[i] = s[n + i]
      BY <3>1, <1>1, <1>2, <1>3
    <3>3. (b \o u)[i] = b[i]
      BY <2>1, <1>5
    <3> QED  BY <3>2, <3>3
  <2>2. CASE ~(i <= Len(b))
    <3>1. i - Len(b) \in 1..Len(u) /\ Len(s) + (i - Len(b)) = n + i /\ i \in 1..Len(t) - n
      BY <2>2, <1>1, <1>2, <1>3, SMTT(30)
    <3>2. d[i] = t[n + i] /\ t[Len(s) + (i - Len(b))] = u[i - Len(b)]
      BY <3>1, <1>1, <1>3
    <3>3. (b \o u)[i] = u[i - Len(b)]
      BY <2>2, <1>5
    <3> QED  BY <3>1, <3>2, <3>3
  <2> QED  BY <2>1, <2>2
<1>7. d = b \o u
  BY <1>3, <1>5, <1>6, SeqEqual
<1> QED  BY <1>2, <1>4, <1>7 DEF a, b, c, d, t

\* A concatenation is cut where its parts meet.
LEMMA CutBetween ==
    ASSUME NEW s \in Seq(Unit), NEW u \in Seq(Unit)
    PROVE  /\ SubSeq(s \o u, 1, Len(s)) = s
           /\ SubSeq(s \o u, Len(s) + 1, Len(s \o u)) = u
<1>1. Len(s) \in 0..Len(s)
  BY SMTT(30)
<1>2. SubSeq(s, 1, Len(s)) = s
  BY SubSeqFull
<1>3. SubSeq(s, Len(s) + 1, Len(s)) = <<>>
  BY SubSeqEmpty, SMTT(30)
<1> QED  BY <1>1, <1>2, <1>3, CutConcat, ConcatEmptySeq, SMTT(30)

\* read_vlq ends at the first byte without a continuation bit; there is only one.
LEMMA ReadVlqAt ==
    ASSUME NEW s \in Seq(Unit), NEW n \in VlqLengths(s), NEW x
    PROVE  ReadVlq(Cursor(x, s)) =
              Cursor(VlqValue[SubSeq(s, 1, n)] % Pow2[WordBits], SubSeq(s, n + 1, Len(s)))
<1>1. ASSUME NEW m \in VlqLengths(s) PROVE m = n
  <2>1. m \in 1..Len(s) /\ n \in 1..Len(s) /\ s[m] < Continuation /\ s[n] < Continuation
    BY DEF VlqLengths
  <2>2. (m < n => s[m] >= Continuation) /\ (n < m => s[n] >= Continuation)
    <3>1. (m < n => m \in 1..n - 1) /\ (n < m => n \in 1..m - 1)
      BY <2>1, SMTT(30)
    <3> QED  BY <3>1 DEF VlqLengths
  <2>3. s[m] \in Nat /\ s[n] \in Nat /\ Continuation \in Nat
    BY <2>1, ContinuationType, SMTT(30) DEF Unit
  <2> QED  BY <2>1, <2>2, <2>3, SMTT(30)
<1>2. (CHOOSE m \in VlqLengths(s) : TRUE) = n
  BY <1>1
<1>3. VlqAt[s] =
        Cursor(VlqValue[SubSeq(s, 1, n)] % Pow2[WordBits], SubSeq(s, n + 1, Len(s)))
  BY <1>2 DEF VlqAt
<1> QED  BY <1>3 DEF ReadVlq, Then, Cursor

\* "read_vlq: inverse of write_vlq" (vlq.rs:5): for every word, whatever follows.
LEMMA VlqReadBack ==
    ASSUME NEW v \in Word, NEW u \in Seq(Unit), NEW x
    PROVE  /\ WriteVlq[v] \in Seq(Unit)
           /\ Len(WriteVlq[v]) \in 1..MaxGroups
           /\ ReadVlq(Cursor(x, WriteVlq[v] \o u)) = Cursor(v, u)
<1> DEFINE w == WriteVlq[v]  s == w \o u  n == Len(w)
<1>1. v \in Nat /\ v < Pow2[WordBits] /\ Pow2[WordBits] \in Nat
        /\ Pow2[GroupBits * MaxGroups] \in Nat
  <2>1. MaxGroups \in Nat /\ Pow2[WordBits] \in Nat
    BY GroupsHoldWord
  <2>2. Pow2[GroupBits * MaxGroups] \in Nat
    BY <2>1, GroupMore
  <2> QED  BY <2>1, <2>2, SMTT(30) DEF Word
<1>2. MaxGroups \in Nat \ {0} /\ v < Pow2[GroupBits * MaxGroups]
  BY <1>1, GroupsHoldWord, SMTT(30)
<1>3. IsVlq(w, v, MaxGroups)
  BY <1>2, WriteVlqShortest
<1> HIDE DEF w
<1>4. /\ w \in Seq(Unit) /\ n \in 1..MaxGroups /\ w[n] < Continuation
      /\ VlqValue[w] = v /\ \A i \in 1..n - 1 : w[i] >= Continuation
  BY <1>3 DEF IsVlq
<1>5. /\ s \in Seq(Unit) /\ n \in 1..Len(s) /\ \A i \in 1..n : s[i] = w[i]
  BY <1>4, SMTT(30)
<1>6. SubSeq(s, 1, n) = w /\ SubSeq(s, n + 1, Len(s)) = u
  BY <1>4, CutBetween
<1> HIDE DEF s
<1>7. n \in VlqLengths(s)
  <2>1. n \in 1..n /\ \A i \in 1..n - 1 : i \in 1..n
    BY <1>4, SMTT(30)
  <2>2. s[n] < Continuation /\ \A i \in 1..n - 1 : s[i] >= Continuation
    BY <1>4, <1>5, <2>1
  <2>3. n <= MaxGroups
    BY <1>4, SMTT(30)
  <2> QED  BY <1>5, <2>2, <2>3 DEF VlqLengths
<1>8. ReadVlq(Cursor(x, s)) = Cursor(v % Pow2[WordBits], u)
  BY <1>4, <1>5, <1>6, <1>7, ReadVlqAt
<1>9. v % Pow2[WordBits] = v
  BY <1>1, SMTT(30)
<1> QED  BY <1>4, <1>8, <1>9 DEF w, s

\* "zigzag_decode(zigzag_encode(v)) is v", for every signed word.
LEMMA ZigzagReadBack ==
    ASSUME NEW v \in SignedWord
    PROVE  ZigzagEncode(v) \in Word /\ ZigzagDecode(ZigzagEncode(v)) = v
<1> DEFINE h == Pow2[WordBits - 1]  m == Pow2[WordBits]
<1>1. h \in Nat /\ h >= 1 /\ m = 2 * h
  <2>1. WordBits - 1 \in Nat /\ (WordBits - 1) + 1 = WordBits
    BY VlqAssumption, SMTT(30)
  <2> QED  BY <2>1, Pow2Laws
<1>2. v \in -h..h - 1
  BY DEF SignedWord
<1> HIDE DEF h, m
<1>3. v \in Int /\ -h <= v /\ v <= h - 1
  BY <1>1, <1>2, SMTT(30)
<1>4. CASE v >= 0
  <2>1. (2 * v) % m = 2 * v
    BY <1>1, <1>3, <1>4, SMTT(30)
  <2>2. ZigzagEncode(v) = 2 * v
    BY <1>3, <1>4, <2>1, SMTT(30) DEF ZigzagEncode, m
  <2>3. (2 * v) % 2 = 0 /\ (2 * v) \div 2 = v
    BY <1>3, <1>4, SMTT(30)
  <2>4. 2 * v \in 0..m - 1
    BY <1>1, <1>3, <1>4, SMTT(30)
  <2> QED  BY <2>2, <2>3, <2>4 DEF ZigzagDecode, Word, m
<1>5. CASE v < 0
  <2>1. (2 * v) % m = 2 * v + m
    BY <1>1, <1>3, <1>5, SMTT(30)
  <2>2. ZigzagEncode(v) = -2 * v - 1
    BY <1>1, <1>3, <1>5, <2>1, SMTT(30) DEF ZigzagEncode, m
  <2>3. (-2 * v - 1) % 2 = 1 /\ (-2 * v - 1) \div 2 = -v - 1
    BY <1>3, <1>5, SMTT(30)
  <2>4. -2 * v - 1 \in 0..m - 1
    BY <1>1, <1>3, <1>5, SMTT(30)
  <2>5. -(-v - 1) - 1 = v
    BY <1>3, SMTT(30)
  <2> QED  BY <2>2, <2>3, <2>4, <2>5, SMTT(30) DEF ZigzagDecode, Word, m
<1> QED  BY <1>3, <1>4, <1>5, SMTT(30)

----------------------------------------------------------------------------
(* Readers *)

\* r is what a reader of values in V makes of s, and q what it makes of s with u after
\* it: when r succeeds, so does q, with the same value.
Extends(r, q, s, u, V) ==
    \/ r = Failed
    \/ \E v \in V, t \in Seq(Unit) :
          Len(t) <= Len(s) /\ r = Cursor(v, t) /\ q = Cursor(v, t \o u)

\* What a cursor is made of, and that a failed one fails every read.
LEMMA CursorLaws ==
    /\ ~Failed.ok
    /\ \A v, t : Cursor(v, t).ok /\ Cursor(v, t).value = v /\ Cursor(v, t).rest = t
                   /\ Cursor(v, t) # Failed
    /\ ReadUnit(Failed) = Failed
    /\ \A n : ReadExact(Failed, n) = Failed
    /\ ReadVlq(Failed) = Failed
    /\ ReadVlqLength(Failed) = Failed
    /\ ReadShortString(Failed) = Failed
<1>1. /\ ~Failed.ok
      /\ \A v, t : Cursor(v, t).ok /\ Cursor(v, t).value = v /\ Cursor(v, t).rest = t
  BY DEF Failed, Cursor
<1>2. /\ ReadUnit(Failed) = Failed
      /\ \A n : ReadExact(Failed, n) = Failed
      /\ ReadVlq(Failed) = Failed
  BY <1>1 DEF ReadUnit, ReadExact, ReadVlq, Then
<1>3. ReadVlqLength(Failed) = Failed
  BY <1>1, <1>2 DEF ReadVlqLength
<1>4. ReadShortString(Failed) = Failed
  BY <1>1, <1>2 DEF ReadShortString, Then
<1>5. \A v, t : Cursor(v, t) # Failed
  BY <1>1, SMTT(30)
<1> QED  BY <1>1, <1>2, <1>3, <1>4, <1>5

\* What the readers of a unit and of a short string make of an input.
LEMMA ReadersAt ==
    ASSUME NEW s \in Seq(Unit), NEW x
    PROVE  /\ ReadUnit(Cursor(x, s)) = IF s = <<>> THEN Failed ELSE Cursor(Head(s), Tail(s))
           /\ LET length == ReadUnit(Cursor(x, s))
              IN  ReadShortString(Cursor(x, s)) =
                     IF length.ok THEN ReadExact(length, length.value) ELSE Failed
<1>1. ASSUME NEW reader, NEW y PROVE Then(Cursor(y, s), reader) = reader[s]
  BY CursorLaws DEF Then
<1>2. ASSUME NEW y
      PROVE  ReadUnit(Cursor(y, s)) = IF s = <<>> THEN Failed ELSE Cursor(Head(s), Tail(s))
  <2>1. ReadUnit(Cursor(y, s)) = UnitAt[s]
    BY <1>1 DEF ReadUnit
  <2>2. UnitAt[s] = IF s = <<>> THEN Failed ELSE Cursor(Head(s), Tail(s))
    BY DEF UnitAt
  <2> QED  BY <2>1, <2>2
<1>3. ReadShortString(Cursor(x, s)) = ShortStringAt[s]
  BY <1>1 DEF ReadShortString
<1> DEFINE length == ReadUnit(Start(s))
<1>4. ShortStringAt[s] = IF length.ok THEN ReadExact(length, length.value) ELSE Failed
  BY DEF ShortStringAt
<1>5. length = ReadUnit(Cursor(x, s))
  BY <1>2 DEF Start
<1> HIDE DEF length
<1> QED  BY <1>2, <1>3, <1>4, <1>5

\* Reading one unit.
LEMMA UnitExtends ==
    ASSUME NEW s \in Seq(Unit), NEW u \in Seq(Unit), NEW x
    PROVE  Extends(ReadUnit(Cursor(x, s)), ReadUnit(Cursor(x, s \o u)), s, u, Unit)
<1>1. CASE s = <<>>
  <2>1. ReadUnit(Cursor(x, s)) = Failed
    BY <1>1, ReadersAt
  <2> QED  BY <2>1 DEF Extends
<1>2. CASE s # <<>>
  <2> DEFINE a == Head(s)  t == Tail(s)
  <2>1. a \in Unit /\ t \in Seq(Unit) /\ Len(t) <= Len(s) /\ s = <<a>> \o t
    BY <1>2, SMTT(30)
  <2>2. s \o u = <<a>> \o (t \o u) /\ t \o u \in Seq(Unit) /\ <<a>> \in Seq(Unit)
    <3>1. <<a>> \in Seq(Unit) /\ t \o u \in Seq(Unit)
      BY <2>1, SMTT(30)
    <3> HIDE DEF a, t
    <3> QED  BY <2>1, <3>1, ConcatAssociative, SMTT(30)
  <2> HIDE DEF a, t
  <2>3. s \o u # <<>> /\ Head(s \o u) = a /\ Tail(s \o u) = t \o u
    BY <2>1, <2>2, ConsLaws, SMTT(30)
  <2>4. ReadUnit(Cursor(x, s)) = Cursor(a, t)
    BY <1>2, ReadersAt DEF a, t
  <2>5. ReadUnit(Cursor(x, s \o u)) = Cursor(a, t \o u)
    <3> DEFINE w == s \o u
    <3>1. w \in Seq(Unit) /\ w # <<>> /\ Head(w) = a /\ Tail(w) = t \o u
      BY <2>3, SMTT(30)
    <3> HIDE DEF w
    <3>2. ReadUnit(Cursor(x, w)) = Cursor(a, t \o u)
      BY <3>1, ReadersAt
    <3> QED  BY <3>2 DEF w
  <2> QED  BY <2>1, <2>4, <2>5 DEF Extends
<1> QED  BY <1>1, <1>2

\* A unit is read back.
LEMMA UnitReadBack ==
    ASSUME NEW a \in Unit, NEW u \in Seq(Unit), NEW x
    PROVE  ReadUnit(Cursor(x, <<a>> \o u)) = Cursor(a, u)
<1> DEFINE s == <<a>> \o u
<1>1. s \in Seq(Unit) /\ s # <<>> /\ Head(s) = a /\ Tail(s) = u
  BY ConsLaws, SMTT(30)
<1> HIDE DEF s
<1>2. ReadUnit(Cursor(x, s)) = Cursor(a, u)
  BY <1>1, ReadersAt
<1> QED  BY <1>2 DEF s

\* Reading n units.
LEMMA ExactExtends ==
    ASSUME NEW s \in Seq(Unit), NEW u \in Seq(Unit), NEW x, NEW n \in Nat
    PROVE  Extends(ReadExact(Cursor(x, s), n), ReadExact(Cursor(x, s \o u), n), s, u,
                   {w \in Seq(Unit) : Len(w) = n})
<1>1. CASE n <= Len(s)
  <2>1. n \in 0..Len(s) /\ Len(s \o u) = Len(s) + Len(u) /\ n <= Len(s \o u)
    BY <1>1, SMTT(30)
  <2> DEFINE w == SubSeq(s, 1, n)  t == SubSeq(s, n + 1, Len(s))
  <2>2. /\ w \in Seq(Unit) /\ Len(w) = n /\ t \in Seq(Unit) /\ Len(t) = Len(s) - n
        /\ SubSeq(s \o u, 1, n) = w /\ SubSeq(s \o u, n + 1, Len(s \o u)) = t \o u
    BY <2>1, CutConcat
  <2>3. ReadExact(Cursor(x, s), n) = Cursor(w, t)
    BY <1>1, CursorLaws DEF ReadExact
  <2>4. ReadExact(Cursor(x, s \o u), n) = Cursor(w, t \o u)
    BY <2>1, <2>2, CursorLaws DEF ReadExact
  <2> HIDE DEF w, t
  <2>5. Len(t) <= Len(s)
    BY <2>2, SMTT(30)
  <2> QED  BY <2>2, <2>3, <2>4, <2>5 DEF Extends
<1>2. CASE ~(n <= Len(s))
  <2>1. ReadExact(Cursor(x, s), n) = Failed
    BY <1>2, CursorLaws DEF ReadExact
  <2> QED  BY <2>1 DEF Extends
<1> QED  BY <1>1, <1>2

\* What was written is read back when its length is known.
LEMMA ExactReadBack ==
    ASSUME NEW w \in Seq(Unit), NEW u \in Seq(Unit), NEW x
    PROVE  ReadExact(Cursor(x, w \o u), Len(w)) = Cursor(w, u)
<1> DEFINE s == w \o u
<1>1. Len(w) <= Len(s)
  BY SMTT(30)
<1>2. SubSeq(s, 1, Len(w)) = w /\ SubSeq(s, Len(w) + 1, Len(s)) = u
  BY CutBetween
<1> HIDE DEF s
<1>3. ReadExact(Cursor(x, s), Len(w)) = Cursor(w, u)
  BY <1>1, <1>2, CursorLaws DEF ReadExact
<1> QED  BY <1>3 DEF s

\* What read_vlq returns has at most as many groups as it has consumed bytes, so that
\* writing it again takes no more.
LEMMA VlqConsumes ==
    ASSUME NEW s \in Seq(Unit), NEW u \in Seq(Unit), NEW x
    PROVE  LET r == ReadVlq(Cursor(x, s))
           IN  /\ Extends(r, ReadVlq(Cursor(x, s \o u)), s, u, Word)
               /\ r # Failed => Len(WriteVlq[r.value]) + Len(r.rest) <= Len(s)
<1> DEFINE r == ReadVlq(Cursor(x, s))
<1>1. CASE VlqLengths(s) = {}
  <2>1. r = Failed
    BY <1>1, CursorLaws, SMTT(30) DEF ReadVlq, VlqAt, Then
  <2> QED  BY <2>1 DEF Extends
<1>2. CASE VlqLengths(s) # {}
  <2>1. PICK n : n \in VlqLengths(s)
    BY <1>2
  <2>2. /\ n \in 1..Len(s) /\ n <= MaxGroups /\ s[n] < Continuation
        /\ \A i \in 1..n - 1 : s[i] >= Continuation
    BY <2>1 DEF VlqLengths
  <2> DEFINE w == SubSeq(s, 1, n)  t == SubSeq(s, n + 1, Len(s))
             y == VlqValue[w]  v == y % Pow2[WordBits]
  <2>3. n \in 0..Len(s)
    BY <2>2, SMTT(30)
  <2>4. /\ w \in Seq(Unit) /\ Len(w) = n /\ t \in Seq(Unit) /\ Len(t) = Len(s) - n
        /\ SubSeq(s \o u, 1, n) = w /\ SubSeq(s \o u, n + 1, Len(s \o u)) = t \o u
    BY <2>3, CutConcat
  <2>5. r = Cursor(v, t)
    BY <2>1, ReadVlqAt
  <2>6. n \in VlqLengths(s \o u) /\ s \o u \in Seq(Unit)
    <3>1. /\ s \o u \in Seq(Unit) /\ n \in 1..Len(s \o u)
          /\ \A i \in 1..Len(s) : (s \o u)[i] = s[i]
      BY <2>2, SMTT(30)
    <3>2. (s \o u)[n] < Continuation /\ \A i \in 1..n - 1 : i \in 1..Len(s)
      BY <2>2, <3>1, SMTT(30)
    <3> QED  BY <2>2, <3>1, <3>2 DEF VlqLengths
  <2>7. ReadVlq(Cursor(x, s \o u)) = Cursor(v, t \o u)
    BY <2>4, <2>6, ReadVlqAt
  <2> HIDE DEF w, t
  <2>8. y \in Nat /\ y < Pow2[GroupBits * n]
    BY <2>4, VlqValueLaws
  <2>9. Pow2[WordBits] \in Nat \ {0} /\ n \in Nat \ {0} /\ Pow2[GroupBits * n] \in Nat
    <3>1. Pow2[WordBits] \in Nat \ {0} /\ n \in Nat \ {0}
      BY <2>2, GroupsHoldWord, SMTT(30)
    <3> QED  BY <3>1, GroupMore
  <2> HIDE DEF y
  <2>10. v \in Word /\ v < Pow2[GroupBits * n]
    <3>1. v \in 0..Pow2[WordBits] - 1 /\ v <= y
      BY <2>8, <2>9, SMTT(30)
    <3> QED  BY <2>8, <2>9, <3>1, SMTT(30) DEF Word
  <2> HIDE DEF v
  <2>11. IsVlq(WriteVlq[v], v, n)
    BY <2>9, <2>10, WriteVlqShortest
  <2>12. Len(WriteVlq[v]) \in 1..n
    BY <2>11 DEF IsVlq
  <2>13. Len(WriteVlq[v]) + Len(t) <= Len(s) /\ Len(t) <= Len(s)
    BY <2>2, <2>4, <2>12, SMTT(30)
  <2>14. Extends(r, ReadVlq(Cursor(x, s \o u)), s, u, Word)
    <3> HIDE DEF r
    <3> QED  BY <2>4, <2>5, <2>7, <2>10, <2>13 DEF Extends
  <2>15. r.value = v /\ r.rest = t
    BY <2>5, CursorLaws, SMTT(30)
  <2> HIDE DEF r
  <2> QED  BY <2>13, <2>14, <2>15 DEF r
<1> QED  BY <1>1, <1>2

\* Concatenation of units is associative.
LEMMA UnitsAssociative ==
    ASSUME NEW s \in Seq(Unit), NEW t \in Seq(Unit), NEW u \in Seq(Unit)
    PROVE  /\ s \o t \in Seq(Unit) /\ Len(s \o t) = Len(s) + Len(t)
           /\ (s \o t) \o u = s \o (t \o u)
<1>1. s \o t \in Seq(Unit) /\ Len(s \o t) = Len(s) + Len(t)
  BY SMTT(30)
<1>2. (s \o t) \o u = s \o (t \o u)
  BY ConcatAssociative, SMTT(30)
<1> QED  BY <1>1, <1>2

\* The lengths that read_vlq_length accepts.
Lengths == 0..MaxVlqLength

\* They are words.
LEMMA LengthsAreWords ==
    Lengths \subseteq Word /\ Lengths \subseteq Nat /\ MaxVlqLength \in Nat
<1>1. Pow2[WordBits] \in Nat /\ MaxVlqLength \in 0..Pow2[WordBits] - 1
  BY GroupsHoldWord, VlqAssumption
<1> HIDE DEF Lengths
<1>2. MaxVlqLength \in Nat /\ MaxVlqLength <= Pow2[WordBits] - 1
  BY <1>1, SMTT(30)
<1> QED  BY <1>1, <1>2, SMTT(30) DEF Lengths, Word

\* Reading a length.
LEMMA LengthExtends ==
    ASSUME NEW s \in Seq(Unit), NEW u \in Seq(Unit), NEW x
    PROVE  LET r == ReadVlqLength(Cursor(x, s))
           IN  /\ Extends(r, ReadVlqLength(Cursor(x, s \o u)), s, u, Lengths)
               /\ r # Failed => Len(WriteVlq[r.value]) + Len(r.rest) <= Len(s)
<1> DEFINE c == ReadVlq(Cursor(x, s))  d == ReadVlq(Cursor(x, s \o u))
           r == ReadVlqLength(Cursor(x, s))  q == ReadVlqLength(Cursor(x, s \o u))
<1>1. Extends(c, d, s, u, Word) /\ (c # Failed => Len(WriteVlq[c.value]) + Len(c.rest) <= Len(s))
  BY VlqConsumes
<1>2. /\ r = IF c.ok /\ c.value <= MaxVlqLength THEN c ELSE Failed
      /\ q = IF d.ok /\ d.value <= MaxVlqLength THEN d ELSE Failed
  BY DEF ReadVlqLength
<1> HIDE DEF c, d, r, q
<1>3. CASE c = Failed
  BY <1>2, <1>3, CursorLaws DEF Extends, r, q
<1>4. CASE c # Failed
  <2>1. PICK v \in Word, t \in Seq(Unit) :
           Len(t) <= Len(s) /\ c = Cursor(v, t) /\ d = Cursor(v, t \o u)
    BY <1>1, <1>4 DEF Extends
  <2>2. c.ok /\ c.value = v /\ c.rest = t /\ d.ok /\ d.value = v
    BY <2>1, CursorLaws
  <2>3. CASE v <= MaxVlqLength
    <3>1. r = Cursor(v, t) /\ q = Cursor(v, t \o u)
      BY <1>2, <2>1, <2>2, <2>3
    <3>2. v \in Lengths
      <4>1. v \in Nat
        BY GroupsHoldWord, SMTT(30) DEF Word
      <4> QED  BY <2>3, <4>1, LengthsAreWords, SMTT(30) DEF Lengths
    <3>3. Extends(r, q, s, u, Lengths)
      BY <2>1, <3>1, <3>2 DEF Extends
    <3>4. r = c
      BY <2>1, <3>1
    <3> QED  BY <1>1, <1>4, <3>3, <3>4 DEF r, q
  <2>4. CASE ~(v <= MaxVlqLength)
    <3>1. r = Failed
      BY <1>2, <2>2, <2>4
    <3> QED  BY <3>1 DEF Extends, r, q
  <2> QED  BY <2>3, <2>4
<1> QED  BY <1>3, <1>4

\* A length is read back.
LEMMA LengthReadBack ==
    ASSUME NEW v \in Lengths, NEW u \in Seq(Unit), NEW x
    PROVE  /\ WriteVlq[v] \in Seq(Unit)
           /\ Len(WriteVlq[v]) \in Nat
           /\ ReadVlqLength(Cursor(x, WriteVlq[v] \o u)) = Cursor(v, u)
<1>1. v \in Word /\ v <= MaxVlqLength
  BY LengthsAreWords, SMTT(30) DEF Lengths
<1>2. WriteVlq[v] \in Seq(Unit) /\ ReadVlq(Cursor(x, WriteVlq[v] \o u)) = Cursor(v, u)
  BY <1>1, VlqReadBack
<1> QED  BY <1>1, <1>2, CursorLaws, SMTT(30) DEF ReadVlqLength

\* Reading a short string.
LEMMA ShortStringExtends ==
    ASSUME NEW s \in Seq(Unit), NEW u \in Seq(Unit), NEW x
    PROVE  Extends(ReadShortString(Cursor(x, s)), ReadShortString(Cursor(x, s \o u)), s, u,
                   Seq(Unit))
<1> DEFINE c == ReadUnit(Cursor(x, s))  d == ReadUnit(Cursor(x, s \o u))
           r == ReadShortString(Cursor(x, s))  q == ReadShortString(Cursor(x, s \o u))
<1>1. Extends(c, d, s, u, Unit)
  BY UnitExtends
<1>2. /\ r = IF c.ok THEN ReadExact(c, c.value) ELSE Failed
      /\ q = IF d.ok THEN ReadExact(d, d.value) ELSE Failed
  <2> DEFINE w == s \o u
  <2>1. w \in Seq(Unit)
    BY SMTT(30)
  <2> HIDE DEF w
  <2>2. q = IF d.ok THEN ReadExact(d, d.value) ELSE Failed
    BY <2>1, ReadersAt DEF w
  <2> QED  BY <2>2, ReadersAt
<1> HIDE DEF c, d, r, q
<1>3. CASE c = Failed
  BY <1>2, <1>3, CursorLaws DEF Extends, r, q
<1>4. CASE c # Failed
  <2>1. PICK v \in Unit, t \in Seq(Unit) :
           Len(t) <= Len(s) /\ c = Cursor(v, t) /\ d = Cursor(v, t \o u)
    BY <1>1, <1>4 DEF Extends
  <2>2. r = ReadExact(Cursor(v, t), v) /\ q = ReadExact(Cursor(v, t \o u), v)
    BY <1>2, <2>1, CursorLaws
  <2>3. Extends(r, q, t, u, {w \in Seq(Unit) : Len(w) = v})
    BY <2>2, ExactExtends DEF Unit
  <2>4. Extends(r, q, s, u, Seq(Unit))
    BY <2>1, <2>3, SMTT(30) DEF Extends
  <2> QED  BY <2>4 DEF r, q
<1> QED  BY <1>3, <1>4

\* "s.len() <= 255" (vlq.rs:100): a string within that bound is read back.
LEMMA ShortStringReadBack ==
    ASSUME NEW string \in Seq(Unit), Len(string) < 2 * Continuation,
           NEW u \in Seq(Unit), NEW x
    PROVE  /\ WriteShortString(string) \in Seq(Unit)
           /\ ReadShortString(Cursor(x, WriteShortString(string) \o u)) = Cursor(string, u)
<1> DEFINE n == Len(string)  t == string \o u
<1>1. n \in Nat /\ n % (2 * Continuation) = n
  BY ContinuationType, SMTT(30)
<1>2. n \in Unit /\ <<n>> \in Seq(Unit) /\ t \in Seq(Unit)
  BY <1>1, SMTT(30) DEF Unit
<1>3. WriteShortString(string) = <<n>> \o string
  BY <1>1 DEF WriteShortString
<1> HIDE DEF n
<1>4. <<n>> \o string \in Seq(Unit) /\ (<<n>> \o string) \o u = <<n>> \o t
  BY <1>2, UnitsAssociative, SMTT(30)
<1>5. ReadUnit(Cursor(x, <<n>> \o t)) = Cursor(n, t)
  BY <1>2, UnitReadBack
<1>6. ReadExact(Cursor(n, t), n) = Cursor(string, u)
  BY ExactReadBack DEF n
<1>7. ReadShortString(Cursor(x, <<n>> \o t)) = Cursor(string, u)
  <2> HIDE DEF t
  <2> DEFINE c == ReadUnit(Cursor(x, <<n>> \o t))
             w == <<n>> \o t
  <2>1. w \in Seq(Unit)
    BY <1>2, ConsLaws
  <2>2. ReadShortString(Cursor(x, w)) = IF c.ok THEN ReadExact(c, c.value) ELSE Failed
    <3> HIDE DEF w
    <3> QED  BY <2>1, ReadersAt DEF w
  <2> HIDE DEF c
  <2>3. c = Cursor(n, t) /\ c.ok /\ c.value = n
    BY <1>5, CursorLaws, SMTT(30) DEF c
  <2> QED  BY <1>6, <2>2, <2>3
<1> QED  BY <1>3, <1>4, <1>7

----------------------------------------------------------------------------
(* Blocks *)

\* The blocks whose length read_vlq_length accepts.
Writable == {b \in Block : Len(b.body) <= MaxVlqLength}

\* Reading a block; what was read can be written again in as many bytes.
LEMMA BlockExtends ==
    ASSUME NEW s \in Seq(Unit), NEW u \in Seq(Unit), NEW x
    PROVE  LET r == ReadBlock(Cursor(x, s))
           IN  /\ Extends(r, ReadBlock(Cursor(x, s \o u)), s, u, Writable)
               /\ r # Failed => Len(WriteBlock(r.value)) + Len(r.rest) <= Len(s)
<1> DEFINE id == ReadUnit(Cursor(x, s))  idu == ReadUnit(Cursor(x, s \o u))
           length == ReadVlqLength(id)  lengthu == ReadVlqLength(idu)
           body == IF length.ok THEN ReadExact(length, length.value) ELSE Failed
           bodyu == IF lengthu.ok THEN ReadExact(lengthu, lengthu.value) ELSE Failed
           r == ReadBlock(Cursor(x, s))  q == ReadBlock(Cursor(x, s \o u))
<1>1. /\ r = IF body.ok THEN Cursor([id |-> id.value, body |-> body.value], body.rest)
             ELSE Failed
      /\ q = IF bodyu.ok THEN Cursor([id |-> idu.value, body |-> bodyu.value], bodyu.rest)
             ELSE Failed
  BY DEF ReadBlock
<1>2. Extends(id, idu, s, u, Unit)
  BY UnitExtends
<1> HIDE DEF r, q
<1> SUFFICES ASSUME r # Failed
             PROVE  Extends(r, q, s, u, Writable)
                      /\ Len(WriteBlock(r.value)) + Len(r.rest) <= Len(s)
  BY DEF Extends, r, q
<1>3. body # Failed
  <2> HIDE DEF body, bodyu
  <2> QED  BY <1>1, CursorLaws
<1>4. length # Failed
  <2> HIDE DEF length
  <2> QED  BY <1>3, CursorLaws
<1>5. id # Failed
  <2> HIDE DEF id
  <2> QED  BY <1>4, CursorLaws
<1>6. PICK a \in Unit, t1 \in Seq(Unit) :
         Len(t1) <= Len(s) /\ id = Cursor(a, t1) /\ idu = Cursor(a, t1 \o u)
  BY <1>2, <1>5 DEF Extends
<1>7. Len(t1) + 1 = Len(s)
  <2>1. s # <<>> /\ id = Cursor(Head(s), Tail(s))
    BY <1>5, ReadersAt
  <2>2. id.rest = t1
    BY <1>6, CursorLaws, SMTT(30)
  <2>3. id.rest = Tail(s)
    <3> HIDE DEF id
    <3> QED  BY <2>1, CursorLaws
  <2> QED  BY <2>1, <2>2, <2>3, SMTT(30)
<1> HIDE DEF id, idu
<1>8. Extends(length, lengthu, t1, u, Lengths)
        /\ Len(WriteVlq[length.value]) + Len(length.rest) <= Len(t1)
  BY <1>4, <1>6, LengthExtends
<1>9. PICK n \in Lengths, t2 \in Seq(Unit) :
         Len(t2) <= Len(t1) /\ length = Cursor(n, t2) /\ lengthu = Cursor(n, t2 \o u)
  BY <1>4, <1>8 DEF Extends
<1> HIDE DEF length, lengthu
<1>10. n \in Nat /\ n <= MaxVlqLength
  BY LengthsAreWords, SMTT(30) DEF Lengths
<1>11. body = ReadExact(Cursor(n, t2), n) /\ bodyu = ReadExact(Cursor(n, t2 \o u), n)
  BY <1>9, CursorLaws
<1>12. Extends(body, bodyu, t2, u, {w \in Seq(Unit) : Len(w) = n})
  <2> HIDE DEF body, bodyu
  <2> QED  BY <1>10, <1>11, ExactExtends
<1>13. Len(body.rest) + n = Len(t2)
  <2>1. n <= Len(t2) /\ body = Cursor(SubSeq(t2, 1, n), SubSeq(t2, n + 1, Len(t2)))
    <3> HIDE DEF body
    <3> QED  BY <1>3, <1>11, CursorLaws DEF ReadExact
  <2>2. n \in 0..Len(t2)
    BY <1>10, <2>1, SMTT(30)
  <2>3. Len(SubSeq(t2, n + 1, Len(t2))) = Len(t2) - n
    BY <2>2, CutConcat
  <2>4. body.rest = SubSeq(t2, n + 1, Len(t2))
    <3> HIDE DEF body
    <3> QED  BY <2>1, CursorLaws
  <2> HIDE DEF body
  <2> QED  BY <1>10, <2>3, <2>4, SMTT(30)
<1> HIDE DEF body, bodyu
<1>14. PICK w \in {w \in Seq(Unit) : Len(w) = n}, t3 \in Seq(Unit) :
          Len(t3) <= Len(t2) /\ body = Cursor(w, t3) /\ bodyu = Cursor(w, t3 \o u)
  BY <1>3, <1>12 DEF Extends
<1> DEFINE b == [id |-> a, body |-> w]
<1>15. r = Cursor(b, t3) /\ q = Cursor(b, t3 \o u)
  BY <1>1, <1>6, <1>14, CursorLaws
<1>16. b \in Writable
  BY <1>10 DEF Writable, Block
<1>17. /\ Len(WriteVlq[n]) \in Nat /\ WriteVlq[n] \in Seq(Unit)
       /\ Len(WriteVlq[n]) + Len(t2) <= Len(t1) /\ Len(t3) + n = Len(t2)
  BY <1>8, <1>9, <1>13, <1>14, CursorLaws, LengthReadBack
<1>18. Len(WriteBlock(b)) = 1 + Len(WriteVlq[n]) + n
  <2>1. WriteBlock(b) = (<<a>> \o WriteVlq[n]) \o w /\ w \in Seq(Unit) /\ Len(w) = n
    BY DEF WriteBlock
  <2>2. <<a>> \in Seq(Unit) /\ Len(<<a>>) = 1
    BY SMTT(30)
  <2>3. <<a>> \o WriteVlq[n] \in Seq(Unit) /\ Len(<<a>> \o WriteVlq[n]) = 1 + Len(WriteVlq[n])
    BY <1>17, <2>2, UnitsAssociative
  <2> QED  BY <2>1, <2>3, UnitsAssociative
<1> HIDE DEF b
<1>19. Len(WriteBlock(b)) + Len(t3) <= Len(s) /\ Len(t3) <= Len(s)
  BY <1>7, <1>10, <1>17, <1>18, SMTT(30)
<1>20. r.value = b /\ r.rest = t3
  BY <1>15, CursorLaws
<1> QED  BY <1>15, <1>16, <1>19, <1>20 DEF Extends

\* A block is read back.
LEMMA BlockReadBack ==
    ASSUME NEW b \in Writable, NEW u \in Seq(Unit), NEW x
    PROVE  /\ WriteBlock(b) \in Seq(Unit)
           /\ ReadBlock(Cursor(x, WriteBlock(b) \o u)) = Cursor(b, u)
<1> DEFINE n == Len(b.body)  v == WriteVlq[n]  t == b.body \o u
<1>1. b.id \in Unit /\ b.body \in Seq(Unit) /\ b = [id |-> b.id, body |-> b.body]
        /\ n \in Lengths
  BY SMTT(30) DEF Writable, Block, Lengths
<1>2. v \in Seq(Unit)
  <2> HIDE DEF n
  <2> QED  BY <1>1, LengthReadBack
<1>3. <<b.id>> \in Seq(Unit) /\ t \in Seq(Unit) /\ v \o t \in Seq(Unit)
  <2> HIDE DEF v
  <2> QED  BY <1>1, <1>2, SMTT(30)
<1>4. /\ WriteBlock(b) \in Seq(Unit)
      /\ WriteBlock(b) \o u = <<b.id>> \o (v \o t)
  <2>1. WriteBlock(b) = (<<b.id>> \o v) \o b.body
    BY DEF WriteBlock
  <2> HIDE DEF v
  <2>2. <<b.id>> \o v \in Seq(Unit) /\ (<<b.id>> \o v) \o b.body \in Seq(Unit)
    BY <1>1, <1>2, <1>3, UnitsAssociative
  <2>3. ((<<b.id>> \o v) \o b.body) \o u = (<<b.id>> \o v) \o t
    <3> DEFINE h == <<b.id>> \o v  d == b.body
    <3>1. h \in Seq(Unit) /\ d \in Seq(Unit) /\ t = d \o u
      BY <1>1, <2>2
    <3> HIDE DEF h, d, t
    <3>2. (h \o d) \o u = h \o t
      BY <3>1, UnitsAssociative
    <3> QED  BY <3>2 DEF h, d
  <2>4. (<<b.id>> \o v) \o t = <<b.id>> \o (v \o t)
    <3> HIDE DEF t
    <3> QED  BY <1>2, <1>3, UnitsAssociative, SMTT(30)
  <2> QED  BY <2>1, <2>2, <2>3, <2>4
<1>5. ReadUnit(Cursor(x, <<b.id>> \o (v \o t))) = Cursor(b.id, v \o t)
  <2> HIDE DEF v, t
  <2> QED  BY <1>1, <1>3, UnitReadBack
<1>6. ReadVlqLength(Cursor(b.id, v \o t)) = Cursor(n, t)
  <2> HIDE DEF n, t
  <2> QED  BY <1>1, <1>3, LengthReadBack
<1>7. ReadExact(Cursor(n, t), n) = Cursor(b.body, u)
  BY <1>1, ExactReadBack
<1> HIDE DEF n, v, t
<1>8. ReadBlock(Cursor(x, <<b.id>> \o (v \o t))) = Cursor(b, u)
  BY <1>1, <1>5, <1>6, <1>7, CursorLaws, SMTT(30) DEF ReadBlock
<1> QED  BY <1>4, <1>8

----------------------------------------------------------------------------
(* Concatenations *)

Pieces == Seq(Seq(Unit))

\* Flatten adds one piece after the other.
LEMMA FlattenRun ==
    ASSUME NEW ss \in Pieces
    PROVE  \E f \in [0..Len(ss) -> Seq(Unit)] :
              /\ f[0] = <<>>
              /\ \A i \in 1..Len(ss) : f[i] = f[i - 1] \o ss[i]
              /\ Flatten(ss) = f[Len(ss)]
<1> DEFINE X == 0..Len(ss)
           body == [f \in [X -> Seq(Unit)] |->
                      [i \in X |-> IF i = 0 THEN <<>> ELSE f[i - 1] \o ss[i]]]
           rank == [i \in X |-> i]
           after == CHOOSE g : g = [i \in 0..Len(ss) |->
                                      IF i = 0 THEN <<>> ELSE g[i - 1] \o ss[i]]
<1>0. Len(ss) \in Nat /\ \A i \in X : i # 0 => ss[i] \in Seq(Unit) /\ i - 1 \in X
  BY SMTT(30) DEF Pieces
<1>1. \A f, g \in [X -> Seq(Unit)] : \A x \in X :
         (\A y \in X : rank[y] < rank[x] => f[y] = g[y]) => body[f][x] = body[g][x]
  <2> SUFFICES ASSUME NEW f \in [X -> Seq(Unit)], NEW g \in [X -> Seq(Unit)], NEW x \in X,
                      \A y \in X : rank[y] < rank[x] => f[y] = g[y]
               PROVE  body[f][x] = body[g][x]
    OBVIOUS
  <2>1. CASE x = 0
    BY <2>1
  <2>2. CASE x # 0
    <3>1. x - 1 \in X /\ rank[x - 1] < rank[x]
      BY <1>0, <2>2, SMTT(30)
    <3>2. f[x - 1] = g[x - 1]
      BY <3>1
    <3> QED  BY <2>2, <3>2
  <2> QED  BY <2>1, <2>2
<1>2. Ranked(X, Seq(Unit), rank, body)
  <2>1. rank \in [X -> Nat] /\ <<>> \in Seq(Unit)
    BY <1>0, EmptySeq, SMTT(30)
  <2>2. body \in [[X -> Seq(Unit)] -> [X -> Seq(Unit)]]
    <3> SUFFICES ASSUME NEW f \in [X -> Seq(Unit)], NEW i \in X
                 PROVE  body[f][i] \in Seq(Unit)
      OBVIOUS
    <3>1. i # 0 => f[i - 1] \in Seq(Unit)
      BY <1>0
    <3>2. i # 0 => f[i - 1] \o ss[i] \in Seq(Unit)
      BY <1>0, <3>1, SMTT(30)
    <3> QED  BY <2>1, <3>2
  <2> QED  BY <1>1, <2>1, <2>2 DEF Ranked
<1>3. HasFixpoint(X, Seq(Unit), body)
  <2> HIDE DEF body, rank, X
  <2> QED  BY <1>2, RankRecursion
<1>4. PICK F \in [X -> Seq(Unit)] : F = body[F]
  BY <1>3 DEF HasFixpoint
<1>5. F = [i \in 0..Len(ss) |-> IF i = 0 THEN <<>> ELSE F[i - 1] \o ss[i]]
  BY <1>4
<1>6. after = [i \in 0..Len(ss) |-> IF i = 0 THEN <<>> ELSE after[i - 1] \o ss[i]]
  BY <1>5
<1>7. Flatten(ss) = after[Len(ss)]
  BY DEF Flatten
<1> HIDE DEF after
<1>8. after[0] = <<>> /\ \A i \in 1..Len(ss) : after[i] = after[i - 1] \o ss[i]
  <2>1. 0 \in 0..Len(ss) /\ \A i \in 1..Len(ss) : i \in 0..Len(ss) /\ i # 0
    BY <1>0, SMTT(30)
  <2>2. \A i \in 0..Len(ss) :
           after[i] = IF i = 0 THEN <<>> ELSE after[i - 1] \o ss[i]
    BY <1>6
  <2> QED  BY <2>1, <2>2
<1> DEFINE P == {n \in Nat : n \in X => after[n] \in Seq(Unit)}
<1>9. 0 \in P
  BY <1>0, <1>8, EmptySeq
<1>10. ASSUME NEW n \in Nat, n \in P PROVE n + 1 \in P
  <2> SUFFICES ASSUME n + 1 \in X PROVE after[n + 1] \in Seq(Unit)
    BY SMTT(30)
  <2>1. n \in X /\ n + 1 \in 1..Len(ss) /\ (n + 1) - 1 = n /\ n + 1 # 0
    BY <1>0, SMTT(30)
  <2>2. after[n] \in Seq(Unit) /\ ss[n + 1] \in Seq(Unit)
    BY <1>0, <1>10, <2>1
  <2>3. after[n + 1] = after[n] \o ss[n + 1]
    BY <1>8, <2>1
  <2> QED  BY <2>2, <2>3, SMTT(30)
<1>11. Nat \subseteq P
  <2> HIDE DEF P
  <2> QED  BY <1>9, <1>10, NatSetInduction
<1>12. ASSUME NEW i \in X PROVE after[i] \in Seq(Unit)
  <2>1. i \in P
    BY <1>11, SMTT(30)
  <2> QED  BY <2>1
<1>13. after \in [X -> Seq(Unit)]
  BY <1>6, <1>12
<1> QED  BY <1>7, <1>8, <1>13

\* A piece more.
LEMMA FlattenAppend ==
    /\ Flatten(<<>>) = <<>>
    /\ \A ss \in Pieces : Flatten(ss) \in Seq(Unit)
    /\ \A ss \in Pieces : \A s \in Seq(Unit) :
          Flatten(Append(ss, s)) = Flatten(ss) \o s
<1>1. Flatten(<<>>) = <<>>
  <2>1. <<>> \in Pieces /\ Len(<<>>) = 0
    BY EmptySeq DEF Pieces
  <2> QED  BY <2>1, FlattenRun
<1>2. ASSUME NEW ss \in Pieces PROVE Flatten(ss) \in Seq(Unit)
  <2>1. Len(ss) \in 0..Len(ss)
    BY SMTT(30) DEF Pieces
  <2> QED  BY <2>1, FlattenRun
<1>3. ASSUME NEW ss \in Pieces, NEW s \in Seq(Unit)
      PROVE  Flatten(Append(ss, s)) = Flatten(ss) \o s
  <2> DEFINE tt == Append(ss, s)  n == Len(ss)
  <2>1. /\ tt \in Pieces /\ Len(tt) = n + 1 /\ n \in Nat
        /\ tt[n + 1] = s /\ \A i \in 1..n : tt[i] = ss[i]
    <3> DEFINE T == Seq(Unit)
    <3>1. ss \in Seq(T) /\ s \in T
      BY DEF Pieces
    <3> HIDE DEF T
    <3>2. /\ tt \in Seq(T) /\ Len(tt) = n + 1 /\ n \in Nat
          /\ tt[n + 1] = s /\ \A i \in 1..n : tt[i] = ss[i]
      BY <3>1, AppendProperties, SMTT(30)
    <3> QED  BY <3>2 DEF Pieces, T
  <2> HIDE DEF tt
  <2>2. PICK h \in [0..Len(tt) -> Seq(Unit)] :
           /\ h[0] = <<>> /\ \A i \in 1..Len(tt) : h[i] = h[i - 1] \o tt[i]
           /\ Flatten(tt) = h[Len(tt)]
    BY <2>1, FlattenRun
  <2>3. PICK f \in [0..n -> Seq(Unit)] :
           /\ f[0] = <<>> /\ \A i \in 1..n : f[i] = f[i - 1] \o ss[i]
           /\ Flatten(ss) = f[n]
    BY FlattenRun
  <2> DEFINE P == {k \in Nat : k <= n => h[k] = f[k]}
  <2> HIDE DEF n
  <2>4. 0 \in P
    BY <2>2, <2>3
  <2>5. ASSUME NEW k \in Nat, k \in P PROVE k + 1 \in P
    <3> SUFFICES ASSUME k + 1 <= n PROVE h[k + 1] = f[k + 1]
      BY SMTT(30)
    <3> DEFINE j == k + 1
    <3>1. j \in 1..n /\ j \in 1..Len(tt) /\ j - 1 = k /\ k <= n
      BY <2>1, SMTT(30)
    <3>2. h[k] = f[k]
      BY <2>5, <3>1
    <3> HIDE DEF j
    <3>3. h[j] = h[j - 1] \o tt[j] /\ f[j] = f[j - 1] \o ss[j] /\ tt[j] = ss[j]
      BY <2>1, <2>2, <2>3, <3>1
    <3>4. h[j] = f[j]
      BY <3>1, <3>2, <3>3
    <3> QED  BY <3>4 DEF j
  <2>6. Nat \subseteq P
    <3> HIDE DEF P
    <3> QED  BY <2>4, <2>5, NatSetInduction
  <2>7. h[n] = f[n]
    BY <2>1, <2>6, SMTT(30)
  <2>8. h[n + 1] = h[n] \o s
    <3>1. n + 1 \in 1..Len(tt) /\ (n + 1) - 1 = n
      BY <2>1, SMTT(30)
    <3> QED  BY <2>1, <2>2, <3>1
  <2> QED  BY <2>1, <2>2, <2>3, <2>7, <2>8 DEF tt
<1> QED  BY <1>1, <1>2, <1>3

\* The first piece comes first.
LEMMA FlattenHead ==
    ASSUME NEW ss \in Pieces, ss # <<>>
    PROVE  /\ Head(ss) \in Seq(Unit) /\ Tail(ss) \in Pieces
           /\ Flatten(ss) = Head(ss) \o Flatten(Tail(ss))
<1> DEFINE T == Seq(Unit)
           P == {n \in Nat : \A tt \in Seq(T) :
                   Len(tt) = n + 1 => Flatten(tt) = Head(tt) \o Flatten(Tail(tt))}
<1>0. Pieces = Seq(T)
  BY DEF Pieces
<1> HIDE DEF T
<1>1. /\ Flatten(<<>>) = <<>>
      /\ \A tt \in Seq(T) : Flatten(tt) \in T
      /\ \A tt \in Seq(T) : \A s \in T : Flatten(Append(tt, s)) = Flatten(tt) \o s
  BY <1>0, FlattenAppend DEF T
<1>2. ASSUME NEW tt \in Seq(T), NEW a \in T, NEW b \in Seq(T), tt = Append(b, a), b = <<>>
      PROVE  Flatten(tt) = Head(tt) \o Flatten(Tail(tt))
  <2>1. Head(tt) = a /\ Tail(tt) = <<>>
    BY <1>2, HeadTailAppend
  <2>2. Flatten(tt) = <<>> \o a
    BY <1>1, <1>2
  <2>3. <<>> \o a = a /\ a \o <<>> = a
    BY ConcatEmptySeq DEF T
  <2> QED  BY <1>1, <2>1, <2>2, <2>3
<1>3. 0 \in P
  <2> SUFFICES ASSUME NEW tt \in Seq(T), Len(tt) = 0 + 1
               PROVE  Flatten(tt) = Head(tt) \o Flatten(Tail(tt))
    OBVIOUS
  <2>1. tt # <<>>
    BY SMTT(30)
  <2>2. PICK b \in Seq(T), a \in T : tt = Append(b, a)
    BY <2>1, SequenceEmptyOrAppend
  <2>3. b = <<>>
    BY <2>2, SMTT(30)
  <2> QED  BY <1>2, <2>2, <2>3
<1>4. ASSUME NEW n \in Nat, n \in P PROVE n + 1 \in P
  <2> SUFFICES ASSUME NEW tt \in Seq(T), Len(tt) = (n + 1) + 1
               PROVE  Flatten(tt) = Head(tt) \o Flatten(Tail(tt))
    BY SMTT(30)
  <2>1. tt # <<>>
    BY SMTT(30)
  <2>2. PICK b \in Seq(T), a \in T : tt = Append(b, a)
    BY <2>1, SequenceEmptyOrAppend
  <2>3. Len(b) = n + 1 /\ b # <<>>
    BY <2>2, SMTT(30)
  <2>4. Head(tt) = Head(b) /\ Tail(tt) = Append(Tail(b), a)
    BY <2>2, <2>3, HeadTailAppend
  <2>5. Head(b) \in T /\ Tail(b) \in Seq(T)
    BY <2>3, SMTT(30)
  <2>6. Flatten(b) = Head(b) \o Flatten(Tail(b)) /\ Flatten(Tail(b)) \in T
    BY <1>1, <1>4, <2>3, <2>5
  <2>7. Flatten(tt) = Flatten(b) \o a
          /\ Flatten(Tail(tt)) = Flatten(Tail(b)) \o a
    BY <1>1, <2>2, <2>4, <2>5
  <2>8. (Head(b) \o Flatten(Tail(b))) \o a = Head(b) \o (Flatten(Tail(b)) \o a)
    BY <2>5, <2>6, UnitsAssociative DEF T
  <2> QED  BY <2>4, <2>6, <2>7, <2>8
<1>5. Nat \subseteq P
  <2> HIDE DEF P
  <2> QED  BY <1>3, <1>4, NatSetInduction
<1>6. ss \in Seq(T) /\ Len(ss) - 1 \in Nat /\ Len(ss) = (Len(ss) - 1) + 1
  BY <1>0, SMTT(30)
<1>7. Head(ss) \in T /\ Tail(ss) \in Seq(T)
  BY <1>6, SMTT(30)
<1>8. Len(ss) - 1 \in P
  BY <1>5, <1>6
<1> QED  BY <1>0, <1>6, <1>7, <1>8 DEF T

\* The blocks of a list are written one after the other.
LEMMA WriteBlocksLaws ==
    /\ WriteBlocks(<<>>) = <<>>
    /\ \A bs \in Seq(Writable) : WriteBlocks(bs) \in Seq(Unit)
    /\ \A bs \in Seq(Writable) : bs # <<>> =>
          WriteBlocks(bs) = WriteBlock(Head(bs)) \o WriteBlocks(Tail(bs))
<1> DEFINE W(bs) == [i \in DOMAIN bs |-> WriteBlock(bs[i])]
<1>1. WriteBlocks(<<>>) = <<>>
  <2>1. W(<<>>) = <<>>
    BY SMTT(30)
  <2> QED  BY <2>1, FlattenAppend DEF WriteBlocks
<1>2. ASSUME NEW bs \in Seq(Writable)
      PROVE  W(bs) \in Pieces /\ Len(W(bs)) = Len(bs)
  <2>1. \A i \in 1..Len(bs) : WriteBlock(bs[i]) \in Seq(Unit)
    <3> SUFFICES ASSUME NEW i \in 1..Len(bs) PROVE WriteBlock(bs[i]) \in Seq(Unit)
      OBVIOUS
    <3>1. bs[i] \in Writable /\ <<>> \in Seq(Unit)
      BY EmptySeq, SMTT(30)
    <3> QED  BY <3>1, BlockReadBack
  <2> QED  BY <2>1, SMTT(30) DEF Pieces
<1>3. ASSUME NEW bs \in Seq(Writable), bs # <<>>
      PROVE  WriteBlocks(bs) = WriteBlock(Head(bs)) \o WriteBlocks(Tail(bs))
  <2>1. Tail(bs) \in Seq(Writable) /\ Len(Tail(bs)) = Len(bs) - 1 /\ Len(bs) \in Nat \ {0}
    BY <1>3, SMTT(30)
  <2>2. W(bs) \in Pieces /\ W(bs) # <<>> /\ Len(W(bs)) = Len(bs)
    BY <1>2, <2>1
  <2>3. Head(W(bs)) = WriteBlock(Head(bs))
    BY <2>1, SMTT(30)
  <2>4. Tail(W(bs)) = W(Tail(bs))
    <3> DEFINE T == Seq(Unit)
    <3>1. W(bs) \in Seq(T) /\ W(Tail(bs)) \in Seq(T) /\ Len(W(Tail(bs))) = Len(bs) - 1
      BY <1>2, <2>1 DEF Pieces
    <3> HIDE DEF T
    <3>2. Tail(W(bs)) \in Seq(T) /\ Len(Tail(W(bs))) = Len(bs) - 1
            /\ \A i \in 1..Len(bs) - 1 : Tail(W(bs))[i] = W(bs)[i + 1]
      <4> HIDE DEF W
      <4> QED  BY <2>1, <2>2, <3>1, HeadTailProperties
    <3>3. ASSUME NEW i \in 1..Len(bs) - 1 PROVE W(bs)[i + 1] = W(Tail(bs))[i]
      <4>1. i + 1 \in 1..Len(bs) /\ Tail(bs)[i] = bs[i + 1] /\ i \in 1..Len(Tail(bs))
        BY <2>1, SMTT(30)
      <4> QED  BY <2>1, <4>1, SMTT(30)
    <3> HIDE DEF W
    <3> QED  BY <3>1, <3>2, <3>3, SeqEqual
  <2> HIDE DEF W
  <2>5. Flatten(W(bs)) = Head(W(bs)) \o Flatten(Tail(W(bs)))
    BY <2>2, FlattenHead
  <2> QED  BY <2>3, <2>4, <2>5 DEF W, WriteBlocks
<1> QED  BY <1>1, <1>2, <1>3, FlattenAppend DEF WriteBlocks

\* What the loop over blocks returns.
BlockList == [blocks : Seq(Writable), missing : Nat, rest : Seq(Unit)]

\* One turn of the loop, when the turns after it return what `later` says.
Turn(later, n, rest) ==
    LET block == ReadBlock(Start(rest))
    IN  IF n = 0 \/ ~block.ok
        THEN [blocks |-> <<>>, missing |-> n, rest |-> rest]
        ELSE LET others == later[block.rest]
             IN  [blocks |-> <<block.value>> \o others.blocks,
                  missing |-> others.missing, rest |-> others.rest]

\* The block at the start of an input.
LEMMA FirstBlock ==
    ASSUME NEW s \in Seq(Unit), NEW u \in Seq(Unit), ReadBlock(Start(s)).ok
    PROVE  LET r == ReadBlock(Start(s))
           IN  /\ r.value \in Writable /\ r.rest \in Seq(Unit)
               /\ ReadBlock(Start(s \o u)) = Cursor(r.value, r.rest \o u)
               /\ Len(WriteBlock(r.value)) + Len(r.rest) <= Len(s)
<1> DEFINE r == ReadBlock(Start(s))  q == ReadBlock(Start(s \o u))
<1>1. r # Failed
  <2> HIDE DEF r
  <2> QED  BY CursorLaws DEF r
<1>2. Extends(r, q, s, u, Writable) /\ Len(WriteBlock(r.value)) + Len(r.rest) <= Len(s)
  BY <1>1, BlockExtends DEF Start
<1> HIDE DEF r, q
<1>3. PICK v \in Writable, t \in Seq(Unit) : r = Cursor(v, t) /\ q = Cursor(v, t \o u)
  BY <1>1, <1>2 DEF Extends
<1>4. r.value = v /\ r.rest = t
  BY <1>3, CursorLaws
<1> QED  BY <1>2, <1>3, <1>4 DEF r, q

\* A turn returns a list.
LEMMA TurnType ==
    ASSUME NEW later \in [Seq(Unit) -> BlockList], NEW n \in Nat, NEW rest \in Seq(Unit)
    PROVE  Turn(later, n, rest) \in BlockList
<1> DEFINE block == ReadBlock(Start(rest))  others == later[block.rest]
<1>1. CASE n = 0 \/ ~block.ok
  <2>1. Turn(later, n, rest) = [blocks |-> <<>>, missing |-> n, rest |-> rest]
    BY <1>1 DEF Turn
  <2>2. <<>> \in Seq(Writable)
    BY EmptySeq
  <2> QED  BY <2>1, <2>2, SMTT(30) DEF BlockList
<1>2. CASE ~(n = 0 \/ ~block.ok)
  <2>1. block.value \in Writable /\ block.rest \in Seq(Unit)
    BY <1>2, FirstBlock
  <2>2. Turn(later, n, rest) = [blocks |-> <<block.value>> \o others.blocks,
                                missing |-> others.missing, rest |-> others.rest]
    BY <1>2 DEF Turn
  <2> HIDE DEF block
  <2>3. others \in BlockList
    BY <2>1
  <2> HIDE DEF others
  <2>4. others.blocks \in Seq(Writable) /\ others.missing \in Nat /\ others.rest \in Seq(Unit)
    BY <2>3 DEF BlockList
  <2>5. <<block.value>> \o others.blocks \in Seq(Writable)
    BY <2>1, <2>4, ConsLaws
  <2> QED  BY <2>2, <2>4, <2>5, SMTT(30) DEF BlockList
<1> QED  BY <1>1, <1>2

\* The loop over blocks ends.
LEMMA ReadBlocksDef ==
    /\ \A n \in Nat : ReadBlocks[n] \in [Seq(Unit) -> BlockList]
    /\ \A rest \in Seq(Unit) :
          ReadBlocks[0][rest] = [blocks |-> <<>>, missing |-> 0, rest |-> rest]
    /\ \A n \in Nat : \A rest \in Seq(Unit) :
          ReadBlocks[n + 1][rest] = Turn(ReadBlocks[n], n + 1, rest)
<1> DEFINE S == [Seq(Unit) -> BlockList]
           body == [f \in [Nat -> S] |->
                      [n \in Nat |-> [rest \in Seq(Unit) |-> Turn(f[n - 1], n, rest)]]]
           rank == [n \in Nat |-> n]
           zero == [rest \in Seq(Unit) |-> [blocks |-> <<>>, missing |-> 0, rest |-> rest]]
<1>1. \A g : \A rest : Turn(g, 0, rest) = [blocks |-> <<>>, missing |-> 0, rest |-> rest]
  BY DEF Turn
<1>2. zero \in S
  <2>1. <<>> \in Seq(Writable)
    BY EmptySeq
  <2> QED  BY <2>1 DEF BlockList
<1>3. \A f, g \in [Nat -> S] : \A x \in Nat :
         (\A y \in Nat : rank[y] < rank[x] => f[y] = g[y]) => body[f][x] = body[g][x]
  <2> SUFFICES ASSUME NEW f \in [Nat -> S], NEW g \in [Nat -> S], NEW x \in Nat,
                      \A y \in Nat : rank[y] < rank[x] => f[y] = g[y]
               PROVE  body[f][x] = body[g][x]
    OBVIOUS
  <2>1. CASE x = 0
    BY <1>1, <2>1, SMTT(30)
  <2>2. CASE x # 0
    <3>1. x - 1 \in Nat /\ rank[x - 1] < rank[x]
      BY <2>2, SMTT(30)
    <3>2. f[x - 1] = g[x - 1]
      BY <3>1
    <3> QED  BY <3>2
  <2> QED  BY <2>1, <2>2
<1>4. Ranked(Nat, S, rank, body)
  <2>1. body \in [[Nat -> S] -> [Nat -> S]]
    <3> SUFFICES ASSUME NEW f \in [Nat -> S], NEW n \in Nat, NEW rest \in Seq(Unit)
                 PROVE  Turn(f[n - 1], n, rest) \in BlockList
      OBVIOUS
    <3>1. CASE n = 0
      <4>1. Turn(f[n - 1], n, rest) = zero[rest]
        BY <1>1, <3>1
      <4> QED  BY <1>2, <4>1
    <3>2. CASE n # 0
      <4>1. n - 1 \in Nat
        BY <3>2, SMTT(30)
      <4>2. f[n - 1] \in S
        BY <4>1
      <4> QED  BY <4>2, TurnType
    <3> QED  BY <3>1, <3>2
  <2>2. rank \in [Nat -> Nat]
    OBVIOUS
  <2> HIDE DEF zero, S, body, rank
  <2> QED  BY <1>2, <1>3, <2>1, <2>2 DEF Ranked
<1>5. HasFixpoint(Nat, S, body)
  <2> HIDE DEF body, rank, S
  <2> QED  BY <1>4, RankRecursion
<1>6. PICK F \in [Nat -> S] : F = body[F]
  BY <1>5 DEF HasFixpoint
<1>7. F = [n \in Nat |-> [rest \in Seq(Unit) |-> Turn(F[n - 1], n, rest)]]
  BY <1>6
<1>8. ReadBlocks = [n \in Nat |-> [rest \in Seq(Unit) |-> Turn(ReadBlocks[n - 1], n, rest)]]
  BY <1>7 DEF ReadBlocks, Turn
<1>9. ReadBlocks[0] = zero
  BY <1>1, <1>8, SMTT(30)
<1>10. ASSUME NEW n \in Nat, NEW rest \in Seq(Unit)
       PROVE  ReadBlocks[n + 1][rest] = Turn(ReadBlocks[n], n + 1, rest)
  <2>1. n + 1 \in Nat /\ (n + 1) - 1 = n
    BY SMTT(30)
  <2>2. ReadBlocks[n + 1] =
           [r \in Seq(Unit) |-> Turn(ReadBlocks[(n + 1) - 1], n + 1, r)]
    BY <1>8, <2>1
  <2>3. ReadBlocks[n + 1] = [r \in Seq(Unit) |-> Turn(ReadBlocks[n], n + 1, r)]
    BY <2>1, <2>2
  <2> QED  BY <2>3
<1> DEFINE P == {n \in Nat : ReadBlocks[n] \in S}
<1>11. 0 \in P
  BY <1>2, <1>9
<1>12. ASSUME NEW n \in Nat, n \in P PROVE n + 1 \in P
  <2>1. ASSUME NEW rest \in Seq(Unit) PROVE ReadBlocks[n + 1][rest] \in BlockList
    <3>1. ReadBlocks[n] \in [Seq(Unit) -> BlockList]
      BY <1>12
    <3>2. n + 1 \in Nat
      BY SMTT(30)
    <3>3. Turn(ReadBlocks[n], n + 1, rest) \in BlockList
      BY <3>1, <3>2, TurnType
    <3> QED  BY <1>10, <3>3
  <2>2. n + 1 \in Nat
    BY SMTT(30)
  <2>3. ReadBlocks[n + 1] =
           [rest \in Seq(Unit) |-> Turn(ReadBlocks[(n + 1) - 1], n + 1, rest)]
    BY <1>8, <2>2
  <2> QED  BY <2>1, <2>2, <2>3
<1>13. Nat \subseteq P
  <2> HIDE DEF P
  <2> QED  BY <1>11, <1>12, NatSetInduction
<1>14. \A rest \in Seq(Unit) :
          ReadBlocks[0][rest] = [blocks |-> <<>>, missing |-> 0, rest |-> rest]
  BY <1>9
<1> QED  BY <1>10, <1>13, <1>14

\* Of an input that begins with n blocks: r is what the loop makes of it, q what it makes
\* of the input with u after it.
AllRead(r, q, n, s, u) ==
    /\ r.blocks \in Seq(Writable) /\ Len(r.blocks) = n
    /\ r.rest \in Seq(Unit) /\ Len(r.rest) <= Len(s)
    /\ \A i \in 1..n : Len(WriteBlock(r.blocks[i])) + Len(r.rest) <= Len(s)
    /\ q = [blocks |-> r.blocks, missing |-> 0, rest |-> r.rest \o u]

\* Once the loop has read all blocks, what comes after them changes nothing, and none of
\* the blocks is longer, when it is written again, than what it was read from.
LEMMA BlocksExtend ==
    ASSUME NEW n \in Nat, NEW s \in Seq(Unit), NEW u \in Seq(Unit),
           ReadBlocks[n][s].missing = 0
    PROVE  AllRead(ReadBlocks[n][s], ReadBlocks[n][s \o u], n, s, u)
<1> DEFINE R(k, x) == ReadBlocks[k][x]
           P == {k \in Nat : \A x \in Seq(Unit) : R(k, x).missing = 0 =>
                   AllRead(R(k, x), R(k, x \o u), k, x, u)}
<1>1. 0 \in P
  <2> SUFFICES ASSUME NEW x \in Seq(Unit) PROVE AllRead(R(0, x), R(0, x \o u), 0, x, u)
    OBVIOUS
  <2>1. x \o u \in Seq(Unit) /\ Len(x) \in Nat
    BY SMTT(30)
  <2>2. R(0, x) = [blocks |-> <<>>, missing |-> 0, rest |-> x]
          /\ R(0, x \o u) = [blocks |-> <<>>, missing |-> 0, rest |-> x \o u]
    BY <2>1, ReadBlocksDef
  <2>3. <<>> \in Seq(Writable) /\ Len(<<>>) = 0
    BY EmptySeq
  <2> HIDE DEF R
  <2>4. R(0, x).blocks = <<>> /\ R(0, x).rest = x
    BY <2>2, SMTT(30)
  <2>5. \A i \in 1..0 : FALSE
    BY SMTT(30)
  <2>6. R(0, x \o u) = [blocks |-> R(0, x).blocks, missing |-> 0, rest |-> R(0, x).rest \o u]
    BY <2>2, <2>4
  <2>7. Len(x) <= Len(x)
    BY <2>1, SMTT(30)
  <2> QED  BY <2>3, <2>4, <2>5, <2>6, <2>7 DEF AllRead
<1>2. ASSUME NEW k \in Nat, k \in P PROVE k + 1 \in P
  <2> SUFFICES ASSUME NEW x \in Seq(Unit), R(k + 1, x).missing = 0
               PROVE  AllRead(R(k + 1, x), R(k + 1, x \o u), k + 1, x, u)
    BY SMTT(30)
  <2> DEFINE block == ReadBlock(Start(x))
             blockU == ReadBlock(Start(x \o u))
             o == R(k, block.rest)
             oU == R(k, block.rest \o u)
  <2>1. x \o u \in Seq(Unit) /\ k + 1 # 0 /\ k + 1 \in Nat
    BY SMTT(30)
  <2>2. R(k + 1, x) = Turn(ReadBlocks[k], k + 1, x)
          /\ R(k + 1, x \o u) = Turn(ReadBlocks[k], k + 1, x \o u)
    BY <2>1, ReadBlocksDef
  <2>3. block.ok
    <3> SUFFICES ASSUME ~block.ok PROVE FALSE
      OBVIOUS
    <3>1. Turn(ReadBlocks[k], k + 1, x) = [blocks |-> <<>>, missing |-> k + 1, rest |-> x]
      BY DEF Turn
    <3> QED  BY <2>1, <2>2, <3>1, SMTT(30)
  <2>4. /\ block.value \in Writable /\ block.rest \in Seq(Unit)
        /\ blockU = Cursor(block.value, block.rest \o u)
        /\ Len(WriteBlock(block.value)) + Len(block.rest) <= Len(x)
    BY <2>3, FirstBlock
  <2>5. R(k + 1, x) = [blocks |-> <<block.value>> \o o.blocks,
                       missing |-> o.missing, rest |-> o.rest]
    BY <2>1, <2>2, <2>3 DEF Turn
  <2>6. blockU.ok /\ blockU.value = block.value /\ blockU.rest = block.rest \o u
    <3> HIDE DEF blockU, block
    <3> QED  BY <2>4, CursorLaws
  <2>7. R(k + 1, x \o u) = [blocks |-> <<block.value>> \o oU.blocks,
                            missing |-> oU.missing, rest |-> oU.rest]
    <3>1. R(k + 1, x \o u) = [blocks |-> <<blockU.value>> \o R(k, blockU.rest).blocks,
                              missing |-> R(k, blockU.rest).missing,
                              rest |-> R(k, blockU.rest).rest]
      BY <2>1, <2>2, <2>6 DEF Turn
    <3> QED  BY <2>6, <3>1
  <2> DEFINE b == block.value  t == block.rest
  <2>8. o.missing = 0
    <3> HIDE DEF o
    <3> QED  BY <2>5, SMTT(30)
  <2>9. AllRead(o, oU, k, t, u)
    <3> HIDE DEF block, R
    <3> QED  BY <1>2, <2>4, <2>8
  <2>10. Len(WriteBlock(b)) \in Nat
    <3>1. WriteBlock(b) \in Seq(Unit)
      <4> HIDE DEF block
      <4> QED  BY <2>4, BlockReadBack, EmptySeq
    <3> QED  BY <3>1, SMTT(30)
  <2> DEFINE bs == <<b>> \o o.blocks
  <2>11. o.blocks \in Seq(Writable) /\ Len(o.blocks) = k /\ o.rest \in Seq(Unit)
    BY <2>9 DEF AllRead
  <2>12. bs \in Seq(Writable) /\ Len(bs) = k + 1 /\ bs[1] = b
          /\ \A i \in 2..k + 1 : bs[i] = o.blocks[i - 1]
    <3> HIDE DEF block, o
    <3> QED  BY <2>4, <2>11, SMTT(30)
  <2>13. Len(o.rest) <= Len(t) /\ Len(o.rest) \in Nat /\ Len(t) \in Nat /\ Len(x) \in Nat
    <3>1. Len(o.rest) <= Len(t)
      BY <2>9 DEF AllRead
    <3> DEFINE r == o.rest
    <3>2. r \in Seq(Unit) /\ t \in Seq(Unit) /\ x \in Seq(Unit)
      BY <2>4, <2>11
    <3> HIDE DEF r, t
    <3>3. Len(r) \in Nat /\ Len(t) \in Nat /\ Len(x) \in Nat
      BY <3>2, SMTT(30)
    <3> QED  BY <3>1, <3>3 DEF r
  <2>14. Len(t) <= Len(x)
    <3> DEFINE w == Len(WriteBlock(b))
    <3>1. w \in Nat /\ w + Len(t) <= Len(x)
      BY <2>4, <2>10
    <3> HIDE DEF w, block
    <3> QED  BY <2>13, <3>1, SMTT(30)
  <2>15. ASSUME NEW i \in 1..k + 1 PROVE Len(WriteBlock(bs[i])) + Len(o.rest) <= Len(x)
    <3> HIDE DEF block, o, bs
    <3>1. CASE i = 1
      <4>1. Len(WriteBlock(bs[i])) = Len(WriteBlock(b))
        BY <2>12, <3>1
      <4> DEFINE w == Len(WriteBlock(b))
      <4>2. w \in Nat /\ w + Len(t) <= Len(x)
        BY <2>4, <2>10
      <4> HIDE DEF w
      <4>3. w + Len(o.rest) <= Len(x)
        BY <2>13, <4>2, SMTT(30)
      <4> QED  BY <4>1, <4>3 DEF w
    <3>2. CASE i # 1
      <4>1. i - 1 \in 1..k /\ i \in 2..k + 1
        BY <3>2, SMTT(30)
      <4>2. Len(WriteBlock(o.blocks[i - 1])) + Len(o.rest) <= Len(t)
        BY <2>9, <4>1 DEF AllRead
      <4>3. o.blocks[i - 1] \in Writable
        BY <2>11, <4>1, SMTT(30)
      <4>4. Len(WriteBlock(o.blocks[i - 1])) \in Nat
        BY <4>3, BlockReadBack, EmptySeq, LenProperties
      <4>5. Len(WriteBlock(bs[i])) = Len(WriteBlock(o.blocks[i - 1]))
        BY <2>12, <4>1
      <4> DEFINE w == Len(WriteBlock(o.blocks[i - 1]))
      <4>6. w \in Nat /\ w + Len(o.rest) <= Len(t)
        BY <4>2, <4>4
      <4> HIDE DEF w
      <4>7. w + Len(o.rest) <= Len(x)
        BY <2>13, <2>14, <4>6, SMTT(30)
      <4> QED  BY <4>5, <4>7 DEF w
    <3> QED  BY <3>1, <3>2
  <2>16. Len(o.rest) <= Len(x)
    <3> HIDE DEF block, o
    <3> QED  BY <2>13, <2>14, SMTT(30)
  <2>17. oU = [blocks |-> o.blocks, missing |-> 0, rest |-> o.rest \o u]
    BY <2>9 DEF AllRead
  <2> HIDE DEF o, oU, block, R
  <2>18. R(k + 1, x) = [blocks |-> bs, missing |-> 0, rest |-> o.rest]
           /\ R(k + 1, x \o u) = [blocks |-> bs, missing |-> 0, rest |-> o.rest \o u]
    BY <2>5, <2>7, <2>8, <2>17
  <2> HIDE DEF bs
  <2>19. R(k + 1, x).blocks = bs /\ R(k + 1, x).rest = o.rest
    BY <2>18, SMTT(30)
  <2>20. R(k + 1, x \o u) =
            [blocks |-> R(k + 1, x).blocks, missing |-> 0, rest |-> R(k + 1, x).rest \o u]
    BY <2>18, <2>19
  <2> QED  BY <2>11, <2>12, <2>15, <2>16, <2>19, <2>20 DEF AllRead
<1>3. Nat \subseteq P
  <2> HIDE DEF P
  <2> QED  BY <1>1, <1>2, NatSetInduction
<1> QED  BY <1>3

\* The loop reads back the blocks of a list, and stops right after them.
LEMMA BlocksReadBack ==
    ASSUME NEW bs \in Seq(Writable), NEW u \in Seq(Unit)
    PROVE  ReadBlocks[Len(bs)][WriteBlocks(bs) \o u] =
              [blocks |-> bs, missing |-> 0, rest |-> u]
<1> DEFINE P == {n \in Nat : \A cs \in Seq(Writable) : Len(cs) = n =>
                   ReadBlocks[n][WriteBlocks(cs) \o u] =
                      [blocks |-> cs, missing |-> 0, rest |-> u]}
<1>1. 0 \in P
  <2> SUFFICES ASSUME NEW cs \in Seq(Writable), Len(cs) = 0
               PROVE  ReadBlocks[0][WriteBlocks(cs) \o u] =
                         [blocks |-> cs, missing |-> 0, rest |-> u]
    OBVIOUS
  <2>1. cs = <<>> /\ <<>> \o u = u
    BY SMTT(30)
  <2> QED  BY <2>1, WriteBlocksLaws, ReadBlocksDef
<1>2. ASSUME NEW n \in Nat, n \in P PROVE n + 1 \in P
  <2> SUFFICES ASSUME NEW cs \in Seq(Writable), Len(cs) = n + 1
               PROVE  ReadBlocks[n + 1][WriteBlocks(cs) \o u] =
                         [blocks |-> cs, missing |-> 0, rest |-> u]
    BY SMTT(30)
  <2> DEFINE b == Head(cs)  bt == Tail(cs)  s == WriteBlocks(cs) \o u  t == WriteBlocks(bt) \o u
  <2>1. cs # <<>> /\ b \in Writable /\ bt \in Seq(Writable) /\ Len(bt) = n
          /\ cs = <<b>> \o bt
    BY SMTT(30)
  <2>2. WriteBlocks(cs) = WriteBlock(b) \o WriteBlocks(bt)
          /\ WriteBlocks(bt) \in Seq(Unit) /\ WriteBlocks(cs) \in Seq(Unit)
    BY <2>1, WriteBlocksLaws
  <2> HIDE DEF b, bt
  <2>3. WriteBlock(b) \in Seq(Unit)
    BY <2>1, BlockReadBack
  <2>4. s = WriteBlock(b) \o t /\ t \in Seq(Unit) /\ s \in Seq(Unit)
    <3> DEFINE y == WriteBlock(b)  z == WriteBlocks(bt)
    <3>1. y \in Seq(Unit) /\ z \in Seq(Unit)
      BY <2>2, <2>3
    <3> HIDE DEF y, z
    <3>2. (y \o z) \o u = y \o (z \o u) /\ z \o u \in Seq(Unit)
      BY <3>1, UnitsAssociative
    <3>3. WriteBlocks(cs) \o u \in Seq(Unit)
      BY <2>2, SMTT(30)
    <3> QED  BY <2>2, <3>2, <3>3 DEF y, z
  <2>5. ReadBlocks[n][t] = [blocks |-> bt, missing |-> 0, rest |-> u]
    BY <1>2, <2>1
  <2> HIDE DEF s, t
  <2>6. ReadBlock(Start(s)) = Cursor(b, t)
    BY <2>1, <2>4, BlockReadBack DEF Start
  <2>7. ReadBlock(Start(s)).ok /\ ReadBlock(Start(s)).value = b /\ ReadBlock(Start(s)).rest = t
    BY <2>6, CursorLaws, SMTT(30)
  <2>8. ReadBlocks[n + 1][s] = Turn(ReadBlocks[n], n + 1, s)
    BY <2>4, ReadBlocksDef
  <2>9. n + 1 # 0
    BY SMTT(30)
  <2>10. Turn(ReadBlocks[n], n + 1, s) =
            [blocks |-> <<b>> \o ReadBlocks[n][t].blocks,
             missing |-> ReadBlocks[n][t].missing, rest |-> ReadBlocks[n][t].rest]
    BY <2>7, <2>9 DEF Turn
  <2> QED  BY <2>1, <2>5, <2>8, <2>10, SMTT(30) DEF s
<1>3. Nat \subseteq P
  <2> HIDE DEF P
  <2> QED  BY <1>1, <1>2, NatSetInduction
<1> QED  BY <1>3, SMTT(30)

----------------------------------------------------------------------------
(* Frames *)

Frame == [code : Unit, body : Seq(Unit)]

\* The elements of a concatenation.
LEMMA UnitsConcat ==
    ASSUME NEW s \in Seq(Unit), NEW t \in Seq(Unit)
    PROVE  /\ s \o t \in Seq(Unit) /\ Len(s \o t) = Len(s) + Len(t)
           /\ \A i \in 1..Len(s) : (s \o t)[i] = s[i]
           /\ \A i \in 1..Len(t) : (s \o t)[Len(s) + i] = t[i]
<1>1. s \o t \in Seq(Unit) /\ Len(s \o t) = Len(s) + Len(t) /\ Len(s) \in Nat /\ Len(t) \in Nat
  BY SMTT(30)
<1>2. \A i \in 1..Len(s) + Len(t) :
         (s \o t)[i] = IF i <= Len(s) THEN s[i] ELSE t[i - Len(s)]
  BY ConcatProperties
<1>3. ASSUME NEW i \in 1..Len(s) PROVE (s \o t)[i] = s[i]
  <2>1. i \in 1..Len(s) + Len(t) /\ i <= Len(s)
    BY <1>1, SMTT(30)
  <2> QED  BY <1>2, <2>1
<1>4. ASSUME NEW i \in 1..Len(t) PROVE (s \o t)[Len(s) + i] = t[i]
  <2>1. Len(s) + i \in 1..Len(s) + Len(t) /\ ~(Len(s) + i <= Len(s))
          /\ (Len(s) + i) - Len(s) = i
    BY <1>1, SMTT(30)
  <2> QED  BY <1>2, <2>1
<1> QED  BY <1>1, <1>3, <1>4

\* The checksum of a body is one field of the header.
LEMMA ChecksumType ==
    ASSUME NEW body \in Seq(Unit)
    PROVE  Checksum(body) \in Unit
<1> DEFINE n == Len(body)
           base == 2 * Continuation
           turn == [f \in [0..n -> Nat] |->
                      [i \in 0..n |-> IF i = 0 THEN 0 ELSE base * f[i - 1] + body[i]]]
           rank == [i \in 0..n |-> i]
<1>1. n \in Nat /\ base \in Nat /\ \A i \in 1..n : body[i] \in Nat
  BY ContinuationType, SMTT(30) DEF Unit
<1> HIDE DEF base, n
<1>2. turn \in [[0..n -> Nat] -> [0..n -> Nat]]
  <2> SUFFICES ASSUME NEW f \in [0..n -> Nat], NEW i \in 0..n, i # 0
               PROVE  base * f[i - 1] + body[i] \in Nat
    OBVIOUS
  <2>1. i - 1 \in 0..n /\ i \in 1..n
    BY <1>1, SMTT(30)
  <2>2. f[i - 1] \in Nat /\ body[i] \in Nat
    BY <1>1, <2>1
  <2>3. base * f[i - 1] \in Nat
    BY <1>1, <2>2, SMTT(30)
  <2> QED  BY <2>2, <2>3, SMTT(30)
<1>3. \A f, g \in [0..n -> Nat] : \A x \in 0..n :
         (\A y \in 0..n : rank[y] < rank[x] => f[y] = g[y]) => turn[f][x] = turn[g][x]
  <2> SUFFICES ASSUME NEW f \in [0..n -> Nat], NEW g \in [0..n -> Nat], NEW x \in 0..n,
                      \A y \in 0..n : rank[y] < rank[x] => f[y] = g[y], x # 0
               PROVE  f[x - 1] = g[x - 1]
    OBVIOUS
  <2>1. x - 1 \in 0..n /\ x - 1 < x
    BY <1>1, SMTT(30)
  <2> QED  BY <2>1
<1>4. Ranked(0..n, Nat, rank, turn)
  <2>1. rank \in [0..n -> Nat]
    BY <1>1, SMTT(30)
  <2>2. Nat # {}
    OBVIOUS
  <2> HIDE DEF turn, rank
  <2> QED  BY <1>2, <1>3, <2>1, <2>2 DEF Ranked
<1>5. HasFixpoint(0..n, Nat, turn)
  <2> HIDE DEF turn, rank
  <2> QED  BY <1>4, RankRecursion
<1>6. PICK F \in [0..n -> Nat] : F = turn[F]
  BY <1>5 DEF HasFixpoint
<1>7. F = [i \in 0..n |-> IF i = 0 THEN 0 ELSE base * F[i - 1] + body[i]]
  BY <1>6
<1> DEFINE sum == CHOOSE G : G = [i \in 0..n |-> IF i = 0 THEN 0 ELSE base * G[i - 1] + body[i]]
<1>8. sum = [i \in 0..n |-> IF i = 0 THEN 0 ELSE base * sum[i - 1] + body[i]]
  BY <1>7
<1>9. Checksum(body) = sum[n]
  BY DEF Checksum, n, base
<1> HIDE DEF sum
<1> DEFINE P == {i \in Nat : i \in 0..n => sum[i] \in Nat}
<1>10. 0 \in P
  BY <1>8, SMTT(30)
<1>11. ASSUME NEW i \in Nat, i \in P PROVE i + 1 \in P
  <2> SUFFICES ASSUME i + 1 \in 0..n PROVE sum[i + 1] \in Nat
    BY SMTT(30)
  <2>1. i \in 0..n /\ i + 1 \in 1..n /\ i + 1 # 0 /\ (i + 1) - 1 = i
    BY <1>1, SMTT(30)
  <2>2. sum[i] \in Nat /\ body[i + 1] \in Nat
    BY <1>1, <1>11, <2>1
  <2>3. sum[i + 1] = base * sum[i] + body[i + 1]
    BY <1>8, <2>1
  <2>4. base * sum[i] \in Nat
    BY <1>1, <2>2, SMTT(30)
  <2> QED  BY <2>2, <2>3, <2>4, SMTT(30)
<1>12. Nat \subseteq P
  <2> HIDE DEF P
  <2> QED  BY <1>10, <1>11, NatSetInduction
<1>13. n \in 0..n
  BY <1>1, SMTT(30)
<1> QED  BY <1>1, <1>9, <1>12, <1>13 DEF Unit

\* The units of an encoded frame.
LEMMA EncodeLaws ==
    ASSUME NEW magic \in Unit, NEW frame \in Frame
    PROVE  LET e == Encode(magic, frame)
               n == Len(frame.body)
           IN  /\ n \in Nat
               /\ e \in Seq(Unit) /\ Len(e) = HeaderSize + n
               /\ e[1] = magic /\ e[2] = frame.code /\ e[3] = n
               /\ e[4] = Checksum(frame.body)
               /\ \A i \in 1..n : e[HeaderSize + i] = frame.body[i]
<1> DEFINE sum == Checksum(frame.body)
           h == <<magic, frame.code, Len(frame.body), sum>>
<1>1. frame.code \in Unit /\ frame.body \in Seq(Unit)
  BY DEF Frame
<1>2. sum \in Unit /\ Len(frame.body) \in Nat
  BY <1>1, ChecksumType, SMTT(30)
<1> HIDE DEF sum
<1>3. h \in Seq(Unit) /\ Len(h) = 4 /\ h[1] = magic /\ h[2] = frame.code
        /\ h[3] = Len(frame.body) /\ h[4] = sum
  BY <1>1, <1>2, SMTT(30) DEF Unit
<1>4. Encode(magic, frame) = h \o frame.body
  BY DEF Encode, sum
<1> HIDE DEF h
<1> DEFINE e == h \o frame.body
<1>5. e \in Seq(Unit) /\ Len(e) = Len(h) + Len(frame.body)
        /\ (\A i \in 1..Len(h) : e[i] = h[i])
        /\ \A i \in 1..Len(frame.body) : e[Len(h) + i] = frame.body[i]
  <2> DEFINE b == frame.body
  <2>1. b \in Seq(Unit) /\ h \in Seq(Unit)
    BY <1>1, <1>3
  <2> HIDE DEF b
  <2>2. h \o b \in Seq(Unit) /\ Len(h \o b) = Len(h) + Len(b)
          /\ (\A i \in 1..Len(h) : (h \o b)[i] = h[i])
          /\ \A i \in 1..Len(b) : (h \o b)[Len(h) + i] = b[i]
    BY <2>1, UnitsConcat
  <2> QED  BY <2>2 DEF b
<1> HIDE DEF e
<1>6. \A i \in 1..4 : e[i] = h[i]
  BY <1>3, <1>5
<1>7. \A i \in 1..Len(frame.body) : e[4 + i] = frame.body[i]
  BY <1>3, <1>5
<1>8. e[1] = magic /\ e[2] = frame.code /\ e[3] = Len(frame.body) /\ e[4] = sum
  BY <1>3, <1>6, SMTT(30)
<1> QED  BY <1>2, <1>4, <1>5, <1>7, <1>8, <1>3 DEF HeaderSize, sum, e

\* decode is the inverse of encode for every frame within the size limit, whatever
\* follows it on the wire (frame.rs:9).
THEOREM FrameReadBack ==
    ASSUME NEW magic \in Unit, NEW frame \in Frame, Len(frame.body) <= MaxBodySize,
           NEW u \in Seq(Unit)
    PROVE  ReadFrame(magic, Encode(magic, frame) \o u) =
              [outcome |-> "frame", frame |-> frame, rest |-> u]
<1> DEFINE e == Encode(magic, frame)
           n == Len(frame.body)
           w == e \o u
           sum == Checksum(frame.body)
<1>1. /\ n \in Nat /\ e \in Seq(Unit) /\ Len(e) = 4 + n
      /\ e[1] = magic /\ e[2] = frame.code /\ e[3] = n /\ e[4] = sum
      /\ \A i \in 1..n : e[4 + i] = frame.body[i]
  BY EncodeLaws, SMTT(30) DEF HeaderSize
<1> HIDE DEF e, sum
<1>2. w \in Seq(Unit) /\ Len(w) = Len(e) + Len(u) /\ Len(u) \in Nat
        /\ \A i \in 1..Len(e) : w[i] = e[i]
  <2>1. Len(u) \in Nat
    BY SMTT(30)
  <2>2. e \in Seq(Unit)
    BY <1>1
  <2> QED  BY <2>1, <2>2, UnitsConcat
<1>3. Len(w) >= 4 + n /\ w[1] = magic /\ w[2] = frame.code /\ w[3] = n /\ w[4] = sum
  BY <1>1, <1>2, SMTT(30)
<1>4. SubSeq(w, 5, 4 + n) = frame.body
  <2>1. frame.body \in Seq(Unit)
    BY DEF Frame
  <2> HIDE DEF w
  <2>2. SubSeq(w, 5, 4 + n) \in Seq(Unit) /\ Len(SubSeq(w, 5, 4 + n)) = n
          /\ \A i \in 1..n : SubSeq(w, 5, 4 + n)[i] = w[4 + i]
    BY <1>1, <1>2, <1>3, SMTT(30)
  <2>3. ASSUME NEW i \in 1..n PROVE w[4 + i] = frame.body[i]
    <3>1. 4 + i \in 1..Len(e)
      BY <1>1, SMTT(30)
    <3> QED  BY <1>1, <1>2, <3>1
  <2> QED  BY <1>1, <2>1, <2>2, <2>3, SeqEqual, SMTT(30)
<1>5. SubSeq(w, (4 + n) + 1, Len(w)) = u
  BY <1>1, CutBetween
<1>6. n <= MaxBodySize /\ MaxBodySize \in Nat
  BY FrameAssumption
<1>7. ~(Len(w) < 4) /\ ~(n > MaxBodySize) /\ ~(Len(w) < 4 + n)
  <2> HIDE DEF w, n
  <2> QED  BY <1>1, <1>2, <1>3, <1>6, SMTT(30)
<1>8. frame = [code |-> frame.code, body |-> frame.body]
  BY DEF Frame
<1> HIDE DEF w, n
<1> DEFINE body == SubSeq(w, HeaderSize + 1, HeaderSize + w[3])
<1>9. body = frame.body /\ SubSeq(w, (HeaderSize + w[3]) + 1, Len(w)) = u
  BY <1>3, <1>4, <1>5, SMTT(30) DEF HeaderSize
<1>10. /\ ~(Len(w) < HeaderSize) /\ w[1] = magic /\ ~(w[3] > MaxBodySize)
       /\ ~(Len(w) < HeaderSize + w[3]) /\ w[4] = Checksum(body)
  BY <1>3, <1>7, <1>9 DEF HeaderSize, sum
<1>11. ReadFrame(magic, w) =
          [outcome |-> "frame", frame |-> [code |-> w[2], body |-> body],
           rest |-> SubSeq(w, (HeaderSize + w[3]) + 1, Len(w))]
  BY <1>10 DEF ReadFrame
<1> HIDE DEF body
<1>12. ReadFrame(magic, w) = [outcome |-> "frame", frame |-> frame, rest |-> u]
  BY <1>3, <1>8, <1>9, <1>11
<1> QED  BY <1>12 DEF w, e

\* The frames that read_frame returns.
LEMMA ReadFrameType ==
    ASSUME NEW magic, NEW w \in Seq(Unit), ReadFrame(magic, w).outcome = "frame"
    PROVE  LET r == ReadFrame(magic, w)
           IN  r.frame \in Frame /\ Len(r.frame.body) <= MaxBodySize
<1> DEFINE total == HeaderSize + w[3]
           body == SubSeq(w, HeaderSize + 1, total)
           r == ReadFrame(magic, w)
<1>1. Incomplete.outcome # "frame" /\ Malformed.outcome # "frame"
  BY DEF Incomplete, Malformed
<1>2. ~(Len(w) < HeaderSize) /\ ~(w[3] > MaxBodySize) /\ ~(Len(w) < total)
        /\ r = [outcome |-> "frame", frame |-> [code |-> w[2], body |-> body],
                rest |-> SubSeq(w, total + 1, Len(w))]
  BY <1>1, SMTT(30) DEF ReadFrame
<1>3. Len(w) \in Nat /\ \A i \in 1..Len(w) : w[i] \in Nat
  BY SMTT(30) DEF Unit
<1>4. w[2] \in Nat /\ w[3] \in Nat /\ 4 + w[3] <= Len(w) /\ w[3] <= MaxBodySize
  BY <1>2, <1>3, FrameAssumption, SMTT(30) DEF HeaderSize
<1>5. body \in Seq(Unit) /\ Len(body) = w[3]
  BY <1>3, <1>4, SMTT(30) DEF HeaderSize
<1> HIDE DEF body, r, total
<1>6. r.frame = [code |-> w[2], body |-> body]
  BY <1>2
<1> QED  BY <1>4, <1>5, <1>6, SMTT(30) DEF Frame, Unit, r

=============================================================================
