---------------------------- MODULE LatencyProofs ---------------------------
(***************************************************************************)
(* Proofs about Latency.tla, for any finite sets of peers and modifiers,   *)
(* any number of samples and any scale.                                    *)
(***************************************************************************)
EXTENDS Latency, RouterProofs, Recursion, FiniteSetTheorems, SequenceTheorems

\* First-order reasoning is enough for most leaves; the ones that need arithmetic, or
\* what the backend knows of functions and sequences, cite SMT.
USE ZenonT(30)

----------------------------------------------------------------------------
(* Arithmetic *)

\* Multiplication with a natural number keeps the order.
LEMMA TimesMonotone ==
    ASSUME NEW k \in Nat, NEW a \in Nat, NEW b \in Nat, a <= b
    PROVE  k * a \in Nat /\ k * b \in Nat /\ k * a <= k * b
<1>1. PICK d \in Nat : b = a + d
  <2>1. b - a \in Nat /\ b = a + (b - a)
    BY SMTT(30)
  <2> QED  BY <2>1
<1>2. k * b = k * a + k * d /\ k * d \in Nat /\ k * a \in Nat
  BY <1>1, SMTT(30)
<1> QED  BY <1>2, SMTT(30)

\* The new average lies between the old one and the sample (latency.rs:73): what bounds
\* both bounds it.
LEMMA WeightedBetween ==
    ASSUME NEW x \in Nat, NEW y \in Nat, NEW a \in Nat, NEW b \in Nat,
           a <= x, x <= b, a <= y, y <= b
    PROVE  /\ (3 * x + 7 * y) \div 10 \in Nat
           /\ a <= (3 * x + 7 * y) \div 10
           /\ (3 * x + 7 * y) \div 10 <= b
    BY SMTT(30)

----------------------------------------------------------------------------
(* One sample *)

Within(entry, taken) ==
    \E shortest, longest \in taken :
        Scale * shortest <= entry.ema /\ entry.ema <= Scale * longest

\* A sample leaves the average of a peer within the samples taken so far
\* (latency.rs:65-75).
LEMMA AddSampleWithin ==
    ASSUME NEW entry \in PeerLatency \cup {None}, NEW taken \in SUBSET Nat,
           NEW rtt \in taken, entry # None => Within(entry, taken)
    PROVE  /\ AddSample(entry, rtt) \in PeerLatency
           /\ AddSample(entry, rtt) # None
           /\ Within(AddSample(entry, rtt), taken)
<1>0. Scale \in Nat /\ rtt \in Nat
  BY LatencyAssumption
<1>1. Scale * rtt \in Nat /\ rtt * Scale = Scale * rtt
  BY <1>0, TimesMonotone, SMTT(30)
<1>2. CASE entry = None
  <2> DEFINE first == [ema |-> rtt * Scale, sample_count |-> 1]
  <2>1. first \in PeerLatency
    BY <1>1 DEF PeerLatency
  <2>2. first.ema = Scale * rtt /\ Scale * rtt <= Scale * rtt
    BY <1>1, SMTT(30)
  <2>3. Within(first, taken)
    <3> HIDE DEF first
    <3> QED  BY <2>2 DEF Within
  <2> QED  BY <1>2, <2>1, <2>3, NoneIsNoLatency DEF AddSample
<1>3. CASE entry # None
  <2> DEFINE x == Scale * rtt
             y == entry.ema
             ema == (3 * rtt * Scale + 7 * entry.ema) \div 10
             next == [ema |-> ema, sample_count |-> entry.sample_count + 1]
  <2>1. PICK lo \in taken, hi \in taken : Scale * lo <= entry.ema /\ entry.ema <= Scale * hi
    BY <1>3 DEF Within
  <2>2. lo \in Nat /\ hi \in Nat /\ entry.ema \in Nat /\ entry.sample_count \in Nat
    BY <1>3, <2>1 DEF PeerLatency
  <2>3. PICK a \in taken : a <= lo /\ a <= rtt
    <3>1. lo <= rtt \/ rtt <= lo
      BY <1>0, <2>2, SMTT(30)
    <3> QED  BY <1>0, <2>1, <2>2, <3>1, SMTT(30)
  <2>4. PICK b \in taken : hi <= b /\ rtt <= b
    <3>1. hi <= rtt \/ rtt <= hi
      BY <1>0, <2>2, SMTT(30)
    <3> QED  BY <1>0, <2>1, <2>2, <3>1, SMTT(30)
  <2>5. /\ Scale * a \in Nat /\ Scale * b \in Nat
        /\ Scale * a <= Scale * lo /\ Scale * a <= x
        /\ Scale * hi <= Scale * b /\ x <= Scale * b
        /\ Scale * lo \in Nat /\ Scale * hi \in Nat
    BY <1>0, <2>2, <2>3, <2>4, TimesMonotone
  <2>6. x \in Nat /\ y \in Nat /\ 3 * rtt * Scale = 3 * x
    BY <1>0, <1>1, <2>2, SMTT(30)
  <2>7. Scale * a <= y /\ y <= Scale * b
    BY <2>1, <2>2, <2>5, SMTT(30)
  <2>8. ema = (3 * x + 7 * y) \div 10
    BY <2>6
  <2>9. ema \in Nat /\ Scale * a <= ema /\ ema <= Scale * b
    <3> HIDE DEF x, y, ema
    <3> QED  BY <2>5, <2>6, <2>7, <2>8, WeightedBetween
  <2>10. next \in PeerLatency /\ next.ema = ema
    <3> HIDE DEF ema
    <3> QED  BY <2>2, <2>9, SMTT(30) DEF PeerLatency
  <2>11. Within(next, taken)
    <3> HIDE DEF next, ema
    <3> QED  BY <2>3, <2>4, <2>9, <2>10 DEF Within
  <2> QED  BY <1>3, <2>10, <2>11, NoneIsNoLatency DEF AddSample
<1> QED  BY <1>2, <1>3

----------------------------------------------------------------------------
(* The samples of one response *)

\* The averages while the ids of `order` are credited, one after the other.
CreditRuns(S, order, N) ==
    {F \in [0..N -> S] : F[0] = average /\ \A n \in 1..N : F[n] = Credit(F[n - 1], order[n])}

\* The loop over the ids of a response (router.rs:130-142) makes as many steps as there
\* are ids, and stays within any set of maps that record_response does not leave.
LEMMA CreditRun ==
    ASSUME NEW S, average \in S, NEW T, NEW N \in Nat, NEW order \in [1..N -> T],
           Len(order) = N, \A map \in S : \A id \in T : Credit(map, id) \in S
    PROVE  \E F \in CreditRuns(S, order, N) : CreditAll(order) = F[N]
<1> DEFINE X == 0..N
           body == [f \in [X -> S] |->
                      [n \in X |-> IF n = 0 THEN average ELSE Credit(f[n - 1], order[n])]]
           rank == [n \in X |-> n]
           after == CHOOSE f : f = [n \in X |-> IF n = 0 THEN average
                                                ELSE Credit(f[n - 1], order[n])]
<1>1. \A n \in X : n # 0 => n - 1 \in X /\ n \in 1..N /\ n - 1 < n
  BY SMTT(30)
<1>2. ASSUME NEW f \in [X -> S]
      PROVE  [n \in X |-> IF n = 0 THEN average ELSE Credit(f[n - 1], order[n])] \in [X -> S]
  <2> SUFFICES ASSUME NEW n \in X
               PROVE  (IF n = 0 THEN average ELSE Credit(f[n - 1], order[n])) \in S
    OBVIOUS
  <2>1. CASE n = 0
    BY <2>1
  <2>2. CASE n # 0
    <3>1. f[n - 1] \in S /\ order[n] \in T
      BY <1>1, <2>2
    <3> QED  BY <2>2, <3>1
  <2> QED  BY <2>1, <2>2
<1>3. body \in [[X -> S] -> [X -> S]]
  BY <1>2
<1>4. \A f, g \in [X -> S] : \A x \in X :
         (\A y \in X : rank[y] < rank[x] => f[y] = g[y]) => body[f][x] = body[g][x]
  <2> SUFFICES ASSUME NEW f \in [X -> S], NEW g \in [X -> S], NEW x \in X,
                      \A y \in X : rank[y] < rank[x] => f[y] = g[y]
               PROVE  body[f][x] = body[g][x]
    OBVIOUS
  <2>1. CASE x = 0
    BY <2>1
  <2>2. CASE x # 0
    <3>1. f[x - 1] = g[x - 1]
      BY <1>1, <2>2
    <3> QED  BY <2>2, <3>1
  <2> QED  BY <2>1, <2>2
<1>5. rank \in [X -> Nat]
  BY SMTT(30)
<1>6. HasFixpoint(X, S, body)
  <2> HIDE DEF body, rank, X
  <2>1. Ranked(X, S, rank, body)
    BY <1>3, <1>4, <1>5 DEF Ranked
  <2> QED  BY <2>1, RankRecursion
<1>7. PICK F \in [X -> S] : F = body[F]
  BY <1>6 DEF HasFixpoint
<1>8. F = [n \in X |-> IF n = 0 THEN average ELSE Credit(F[n - 1], order[n])]
  BY <1>7
<1>9. after = [n \in X |-> IF n = 0 THEN average ELSE Credit(after[n - 1], order[n])]
  BY <1>8
<1>10. CreditAll(order) = after[N]
  BY DEF CreditAll
<1> HIDE DEF after
<1> DEFINE P == {n \in Nat : n <= N => after[n] \in S}
<1>11. after[0] = average /\ \A n \in 1..N : after[n] = Credit(after[n - 1], order[n])
  BY <1>9, SMTT(30)
<1>12. 0 \in P
  BY <1>11
<1>13. ASSUME NEW n \in Nat, n \in P PROVE n + 1 \in P
  <2> SUFFICES ASSUME n + 1 <= N PROVE after[n + 1] \in S
    BY SMTT(30)
  <2>1. n + 1 \in 1..N /\ (n + 1) - 1 = n /\ after[n] \in S
    BY <1>13, SMTT(30)
  <2>2. after[n + 1] = Credit(after[n], order[n + 1])
    BY <1>11, <2>1
  <2> QED  BY <2>1, <2>2
<1>14. Nat \subseteq P
  <2> HIDE DEF P
  <2> QED  BY <1>12, <1>13, NatSetInduction
<1>15. after \in [0..N -> S]
  <2>1. \A n \in 0..N : after[n] \in S
    BY <1>14, SMTT(30)
  <2> QED  BY <1>9, <2>1
<1>16. after \in CreditRuns(S, order, N)
  BY <1>11, <1>15 DEF CreditRuns
<1> QED  BY <1>10, <1>16

\* An order of a finite set has each of its elements.
LEMMA OrderOf ==
    ASSUME NEW T, IsFiniteSet(T),
           NEW order \in Bijection(1..Cardinality(T), T)
    PROVE  /\ Cardinality(T) \in Nat
           /\ order \in [1..Cardinality(T) -> T]
           /\ Len(order) = Cardinality(T)
           /\ \A id \in T : \E n \in 1..Cardinality(T) : order[n] = id
<1> DEFINE N == Cardinality(T)
<1>1. N \in Nat
  BY FS_CardinalityType
<1>2. order \in [1..N -> T] /\ order \in Surjection(1..N, T)
  BY DEF Bijection, Surjection
<1> HIDE DEF N
<1>3. Len(order) = N
  <2>1. order \in Seq(T)
    BY <1>1, <1>2, SeqDef
  <2>2. Len(order) \in Nat /\ 1..N = 1..Len(order)
    BY <1>2, <2>1, LenProperties
  <2> QED  BY <1>1, <2>2, SMTT(30)
<1>4. \A id \in T : \E n \in 1..N : order[n] = id
  BY <1>2 DEF Surjection
<1> QED  BY <1>1, <1>2, <1>3, <1>4 DEF N

Averages == [PeerId -> PeerLatency \cup {None}]

\* Every average of `map` is within the samples taken.
AllWithin(map, taken) == \A p \in PeerId : map[p] # None => Within(map[p], taken[p])

\* The peers that are credited with a sample of T.
CreditedPeers(T) == {Credited(id) : id \in T}

\* What record_response leaves after any of the ids of T: averages that are within the
\* samples, of peers that had one or are credited.
Reached(T, taken) ==
    {map \in Averages :
        /\ AllWithin(map, taken)
        /\ \A p \in PeerId : map[p] # None => average[p] # None \/ p \in CreditedPeers(T)
        /\ \A p \in PeerId : average[p] # None => map[p] # None}

Samples(T, taken) ==
    /\ \A id \in T : Credited(id) \in PeerId /\ age[id] \in taken[Credited(id)]
    /\ taken \in [PeerId -> SUBSET Nat]

\* record_response of one id changes the average of the peer that was asked, and of no
\* other (latency.rs:61-78).
LEMMA CreditOne ==
    ASSUME NEW map \in Averages, NEW id, Credited(id) \in PeerId
    PROVE  /\ Credit(map, id)[Credited(id)] = AddSample(map[Credited(id)], age[id])
           /\ \A p \in PeerId : p # Credited(id) => Credit(map, id)[p] = map[p]
           /\ Credit(map, id) = [p \in PeerId |-> IF p = Credited(id)
                                                  THEN AddSample(map[Credited(id)], age[id])
                                                  ELSE map[p]]
    BY DEF Credit, Averages

\* One step of the loop.
LEMMA CreditReaches ==
    ASSUME NEW T, NEW taken, Samples(T, taken), NEW id \in T, NEW map \in Reached(T, taken)
    PROVE  Credit(map, id) \in Reached(T, taken) /\ Credit(map, id)[Credited(id)] # None
           /\ \A p \in PeerId : map[p] # None => Credit(map, id)[p] # None
<1> DEFINE c == Credited(id)
           new == AddSample(map[c], age[id])
           after == Credit(map, id)
<1>1. /\ c \in PeerId /\ age[id] \in taken[c] /\ taken[c] \in SUBSET Nat
      /\ map \in Averages /\ AllWithin(map, taken)
  BY DEF Samples, Reached
<1>2. map[c] \in PeerLatency \cup {None} /\ (map[c] # None => Within(map[c], taken[c]))
  BY <1>1 DEF Averages, AllWithin
<1>3. new \in PeerLatency /\ new # None /\ Within(new, taken[c])
  <2> HIDE DEF c
  <2> QED  BY <1>1, <1>2, AddSampleWithin
<1>4. /\ after[c] = new /\ \A p \in PeerId : p # c => after[p] = map[p]
      /\ after = [p \in PeerId |-> IF p = c THEN new ELSE map[p]]
  BY <1>1, CreditOne
<1>5. c \in CreditedPeers(T)
  BY DEF CreditedPeers
<1> HIDE DEF c, new, after
<1>6. after \in Averages
  BY <1>1, <1>3, <1>4 DEF Averages
<1>7. AllWithin(after, taken)
  <2> SUFFICES ASSUME NEW p \in PeerId, after[p] # None PROVE Within(after[p], taken[p])
    BY DEF AllWithin
  <2>1. CASE p = c
    BY <1>3, <1>4, <2>1
  <2>2. CASE p # c
    BY <1>1, <1>4, <2>2 DEF AllWithin
  <2> QED  BY <2>1, <2>2
<1>8. /\ \A p \in PeerId : map[p] # None => average[p] # None \/ p \in CreditedPeers(T)
      /\ \A p \in PeerId : average[p] # None => map[p] # None
  BY DEF Reached
<1>9. \A p \in PeerId : map[p] # None => after[p] # None
  BY <1>3, <1>4
<1>10. after \in Reached(T, taken) /\ after[c] # None
  BY <1>3, <1>4, <1>5, <1>6, <1>7, <1>8, <1>9 DEF Reached
<1> QED  BY <1>9, <1>10 DEF c, after

\* The whole loop: the averages are within the samples, and the peers that have one are
\* those that had one and those credited.
LEMMA CreditsReach ==
    ASSUME NEW T, IsFiniteSet(T), NEW taken, Samples(T, taken),
           average \in Averages, AllWithin(average, taken),
           NEW order \in Bijection(1..Cardinality(T), T)
    PROVE  /\ CreditAll(order) \in Averages
           /\ AllWithin(CreditAll(order), taken)
           /\ \A p \in PeerId : CreditAll(order)[p] # None
                                  <=> average[p] # None \/ p \in CreditedPeers(T)
<1> DEFINE N == Cardinality(T)
           S == Reached(T, taken)
<1>1. /\ N \in Nat /\ order \in [1..N -> T] /\ Len(order) = N
      /\ \A id \in T : \E n \in 1..N : order[n] = id
  BY OrderOf, SMTT(30)
<1>2. average \in S
  BY DEF Reached
<1>3. \A map \in S : \A id \in T : Credit(map, id) \in S
  BY CreditReaches
<1> HIDE DEF N, S
<1>4. PICK F \in CreditRuns(S, order, N) : CreditAll(order) = F[N]
  <2>1. N \in Nat
    BY <1>1
  <2>2. order \in [1..N -> T]
    BY <1>1
  <2>3. Len(order) = N
    BY <1>1
  <2> QED  BY ONLY <2>1, <2>2, <2>3, <1>2, <1>3, CreditRun, SMTT(30)
<1>5. F \in [0..N -> S] /\ \A n \in 1..N : F[n] = Credit(F[n - 1], order[n])
  BY <1>4 DEF CreditRuns
<1> DEFINE P == {n \in Nat : n <= N => \A i \in 1..n : F[n][Credited(order[i])] # None}
<1>6. 0 \in P
  BY SMTT(30)
<1>7. ASSUME NEW n \in Nat, n \in P PROVE n + 1 \in P
  <2> SUFFICES ASSUME n + 1 <= N, NEW i \in 1..n + 1
               PROVE  F[n + 1][Credited(order[i])] # None
    BY SMTT(30)
  <2>1. n + 1 \in 1..N /\ (n + 1) - 1 = n /\ n \in 0..N /\ n <= N
    BY <1>1, SMTT(30)
  <2>2. F[n] \in S /\ F[n + 1] = Credit(F[n], order[n + 1]) /\ order[n + 1] \in T
    BY <1>1, <1>5, <2>1
  <2> DEFINE now == F[n]
             id == order[n + 1]
  <2>3. now \in S /\ id \in T /\ F[n + 1] = Credit(now, id)
    BY <2>2
  <2>4. CASE i = n + 1
    <3>1. Credit(now, id)[Credited(id)] # None
      <4> HIDE DEF now, id
      <4> QED  BY <2>3, CreditReaches DEF S
    <3> QED  BY <2>3, <2>4, <3>1
  <2>5. CASE i \in 1..n
    <3>1. now[Credited(order[i])] # None
      BY <1>7, <2>1, <2>5
    <3>2. order[i] \in T
      BY <1>1, <2>1, <2>5, SMTT(30)
    <3>3. Credited(order[i]) \in PeerId
      BY <3>2 DEF Samples
    <3>4. \A p \in PeerId : now[p] # None => Credit(now, id)[p] # None
      <4> HIDE DEF now, id
      <4> QED  BY <2>3, CreditReaches DEF S
    <3> QED  BY <2>3, <3>1, <3>3, <3>4
  <2> QED  BY <2>4, <2>5, SMTT(30)
<1>8. Nat \subseteq P
  <2> HIDE DEF P
  <2> QED  BY <1>6, <1>7, NatSetInduction
<1>9. \A i \in 1..N : F[N][Credited(order[i])] # None
  BY <1>1, <1>8, SMTT(30)
<1>10. \A p \in CreditedPeers(T) : F[N][p] # None
  <2> SUFFICES ASSUME NEW id \in T PROVE F[N][Credited(id)] # None
    BY DEF CreditedPeers
  <2>1. PICK n \in 1..N : order[n] = id
    BY <1>1
  <2> QED  BY <1>9, <2>1
<1>11. CreditAll(order) \in S
  BY <1>1, <1>4, <1>5, SMTT(30)
<1> QED  BY <1>4, <1>10, <1>11 DEF S, Reached

----------------------------------------------------------------------------
(* The steps *)

TimedWereAsked ==
    \A id \in ModifierId :
        latency_tracker.pending[id] # None => latency_tracker.pending[id] \in asked

\* The invariant, in terms of the maps.
LEMMA InvParts ==
    LatencyInv <=> /\ RouterInv /\ NumbersTypeOK
                   /\ AllWithin(average, samples)
                   /\ SampledWasAsked /\ TimedWereAsked
                   /\ HasAverage = latency_tracker.peers
<1>1. AverageWithinSamples <=> AllWithin(average, samples)
  BY DEF AverageWithinSamples, AllWithin, Within, HasAverage, peer_latency
<1> QED  BY <1>1 DEF LatencyInv, TimedWereAsked

\* The tables of the tracker have their types.
LEMMA TrackerType ==
    ASSUME RouterInv
    PROVE  /\ latency_tracker.pending \in Map(ModifierId)
           /\ latency_tracker.peers \in SUBSET PeerId
           /\ inv_table \in Map(ModifierId)
    BY DEF RouterInv, TypeOK, Map

\* At the start the tracker is empty.
LEMMA LatencyInitial == LatencyInit => LatencyInv
<1> SUFFICES ASSUME LatencyInit PROVE LatencyInv
  OBVIOUS
<1>1. RouterInv
  BY InitInv DEF LatencyInit
<1>2. /\ age = [id \in ModifierId |-> 0] /\ average = [p \in PeerId |-> None]
      /\ samples = [p \in PeerId |-> {}] /\ asked = {}
      /\ latency_tracker.pending = [id \in ModifierId |-> None] /\ latency_tracker.peers = {}
  BY DEF LatencyInit, RouterInit, EmptyMap
<1>3. NumbersTypeOK
  BY <1>2 DEF NumbersTypeOK
<1>4. HasAverage = {}
  BY <1>2 DEF HasAverage
<1>5. AllWithin(average, samples) /\ SampledWasAsked /\ TimedWereAsked
  BY <1>2, <1>4 DEF AllWithin, SampledWasAsked, TimedWereAsked
<1> QED  BY <1>1, <1>2, <1>3, <1>4, <1>5, InvParts

\* Steps that leave the tracker alone.
LEMMA TrackerStays ==
    ASSUME LatencyInv, RouterInv', UNCHANGED <<latency_tracker, average, samples, asked>>,
           age' \in [ModifierId -> Nat]
    PROVE  LatencyInv'
<1>1. /\ NumbersTypeOK /\ AllWithin(average, samples) /\ SampledWasAsked /\ TimedWereAsked
      /\ HasAverage = latency_tracker.peers
  BY InvParts
<1>2. NumbersTypeOK'
  BY <1>1 DEF NumbersTypeOK
<1>3. AverageWithinSamples' /\ SampledWasAsked' /\ (HasAverage = latency_tracker.peers)'
  BY DEF LatencyInv, AverageWithinSamples, SampledWasAsked, HasAverage, peer_latency
<1>4. TimedWereAsked'
  BY <1>1 DEF TimedWereAsked
<1> QED  BY <1>2, <1>3, <1>4 DEF LatencyInv, TimedWereAsked

\* Time passes for the requests under way (latency.rs:63).
LEMMA TickStep ==
    ASSUME LatencyInv, Tick
    PROVE  LatencyInv'
<1>1. UNCHANGED routerVars /\ UNCHANGED <<average, samples, asked>>
  BY DEF Tick
<1>2. RouterInv'
  BY <1>1, NextInv DEF LatencyInv
<1>3. UNCHANGED latency_tracker
  BY <1>1 DEF routerVars, tables
<1>4. age' \in [ModifierId -> Nat]
  BY SMTT(30) DEF Tick, LatencyInv, NumbersTypeOK
<1> QED  BY <1>1, <1>2, <1>3, <1>4, TrackerStays

\* purge_peer: the peer's averages, its samples and its requests under way go together
\* (latency.rs:86-89).
LEMMA PurgeStep ==
    ASSUME LatencyInv, RouterInv', NEW p \in PeerId, PeerDisconnected(p), PurgeNumbers(p)
    PROVE  LatencyInv'
<1>1. /\ RouterInv /\ NumbersTypeOK /\ AllWithin(average, samples) /\ SampledWasAsked
      /\ TimedWereAsked /\ HasAverage = latency_tracker.peers
  BY InvParts
<1>2. /\ average \in Averages /\ age \in [ModifierId -> Nat]
      /\ samples \in [PeerId -> SUBSET Nat] /\ asked \subseteq PeerId
  BY <1>1 DEF NumbersTypeOK, Averages
<1>3. /\ age' = [id \in ModifierId |-> IF latency_tracker.pending[id] = p THEN 0 ELSE age[id]]
      /\ average' = [q \in PeerId |-> IF q = p THEN None ELSE average[q]]
      /\ samples' = [samples EXCEPT ![p] = {}]
      /\ asked' = asked \ {p}
  BY <1>2 DEF PurgeNumbers, Remove, Averages
<1>4. /\ latency_tracker'.pending = RetainNot(latency_tracker.pending, p)
      /\ latency_tracker'.peers = latency_tracker.peers \ {p}
  BY DEF PeerDisconnected, TimingPurge
<1>5. NumbersTypeOK'
  BY <1>2, <1>3 DEF NumbersTypeOK, Averages
<1>6. HasAverage' = HasAverage \ {p}
  BY <1>2, <1>3 DEF HasAverage
<1>7. SampledWasAsked' /\ (HasAverage = latency_tracker.peers)'
  BY <1>1, <1>3, <1>4, <1>6 DEF SampledWasAsked
<1>8. TimedWereAsked'
  <2>1. \A id \in ModifierId : latency_tracker'.pending[id] # None =>
           /\ latency_tracker'.pending[id] = latency_tracker.pending[id]
           /\ latency_tracker.pending[id] # p
    BY <1>1, <1>4, TrackerType DEF RetainNot, Map
  <2> QED  BY <1>1, <1>3, <2>1 DEF TimedWereAsked
<1>9. AllWithin(average', samples')
  <2> SUFFICES ASSUME NEW q \in PeerId, average'[q] # None
               PROVE  Within(average'[q], samples'[q])
    BY DEF AllWithin
  <2>1. q # p /\ average'[q] = average[q] /\ samples'[q] = samples[q]
    BY <1>2, <1>3
  <2> QED  BY <1>1, <2>1 DEF AllWithin
<1>10. AverageWithinSamples'
  BY <1>9 DEF AverageWithinSamples, AllWithin, Within, HasAverage, peer_latency
<1> QED  BY <1>5, <1>7, <1>8, <1>10 DEF LatencyInv, TimedWereAsked

\* A request is forwarded: the target of each id is both timed and asked
\* (router.rs:108-126 and latency.rs:53-58).
LEMMA RequestStep ==
    ASSUME LatencyInv, RouterInv', NEW source \in PeerId, NEW m \in ModifierMessage,
           RouteModifierRequest(source, m),
           RecordRequests({id \in m.ids : inv_table[id] \notin {None, source}})
    PROVE  LatencyInv'
<1> DEFINE ids == {id \in m.ids : inv_table[id] \notin {None, source}}
<1>1. /\ RouterInv /\ NumbersTypeOK /\ AllWithin(average, samples) /\ SampledWasAsked
      /\ TimedWereAsked /\ HasAverage = latency_tracker.peers
  BY InvParts
<1>2. /\ latency_tracker.pending \in Map(ModifierId) /\ inv_table \in Map(ModifierId)
      /\ ids \subseteq ModifierId
  BY <1>1, TrackerType DEF ModifierMessage
<1>3. /\ latency_tracker'.pending = TimingRecord(latency_tracker.pending, ids, inv_table)
      /\ latency_tracker'.peers = latency_tracker.peers
  BY <1>1 DEF RouteModifierRequest, RouterInv, TypeOK
<1>4. /\ age' = [id \in ModifierId |-> IF id \in ids THEN 0 ELSE age[id]]
      /\ asked' = asked \cup {inv_table[id] : id \in ids}
      /\ UNCHANGED <<average, samples>>
  BY DEF RecordRequests
<1>5. \A id \in ids : inv_table[id] \in PeerId
  BY <1>2 DEF Map
<1> HIDE DEF ids
<1>6. NumbersTypeOK'
  <2>1. age' \in [ModifierId -> Nat]
    BY <1>1, <1>4 DEF NumbersTypeOK
  <2> QED  BY <1>1, <1>4, <1>5, <2>1 DEF NumbersTypeOK
<1>7. AverageWithinSamples'
  BY <1>4 DEF LatencyInv, AverageWithinSamples, HasAverage, peer_latency
<1>8. SampledWasAsked' /\ (HasAverage = latency_tracker.peers)'
  BY <1>1, <1>3, <1>4 DEF SampledWasAsked, HasAverage
<1>9. TimedWereAsked'
  <2> SUFFICES ASSUME NEW id \in ModifierId, latency_tracker'.pending[id] # None
               PROVE  latency_tracker'.pending[id] \in asked'
    BY DEF TimedWereAsked
  <2>1. latency_tracker'.pending[id]
          = IF id \in ids THEN inv_table[id] ELSE latency_tracker.pending[id]
    BY <1>2, <1>3 DEF TimingRecord, Map
  <2> QED  BY <1>1, <1>4, <2>1 DEF TimedWereAsked
<1> QED  BY <1>6, <1>7, <1>8, <1>9 DEF LatencyInv, TimedWereAsked

\* A response arrives: each timed id gives its target a sample, in whatever order the
\* ids come (router.rs:128-143 and latency.rs:61-78).
LEMMA ResponseStep ==
    ASSUME LatencyInv, RouterInv', NEW source \in PeerId, NEW m \in ModifierMessage,
           RouteModifierResponse(source, m), RecordResponses(m.ids)
    PROVE  LatencyInv'
<1> DEFINE timed == {id \in m.ids : latency_tracker.pending[id] # None}
<1>1. /\ RouterInv /\ NumbersTypeOK /\ AllWithin(average, samples) /\ SampledWasAsked
      /\ TimedWereAsked /\ HasAverage = latency_tracker.peers
  BY InvParts
<1>2. /\ latency_tracker.pending \in Map(ModifierId) /\ m.ids \subseteq ModifierId
      /\ average \in Averages /\ age \in [ModifierId -> Nat]
      /\ samples \in [PeerId -> SUBSET Nat] /\ asked \subseteq PeerId
  BY <1>1, TrackerType DEF ModifierMessage, NumbersTypeOK, Averages
<1>3. /\ latency_tracker'.pending = RemoveAll(latency_tracker.pending, m.ids)
      /\ latency_tracker'.peers = latency_tracker.peers \cup
            ({latency_tracker.pending[id] : id \in m.ids} \ {None})
  BY DEF RouteModifierResponse, TimingResponse
<1>4. PICK order \in Bijection(1..Cardinality(timed), timed) : average' = CreditAll(order)
  BY DEF RecordResponses
<1>5. /\ samples' = [p \in PeerId |->
                       samples[p] \cup {age[id] : id \in {i \in timed : Credited(i) = p}}]
      /\ age' = [id \in ModifierId |-> IF id \in m.ids THEN 0 ELSE age[id]]
      /\ asked' = asked
  BY DEF RecordResponses
<1>6. IsFiniteSet(timed)
  BY <1>2, LatencyAssumption, FS_Subset
<1>7. \A id \in timed : id \in ModifierId /\ Credited(id) \in PeerId /\ age[id] \in Nat
  BY <1>2 DEF Credited, Map
<1>8. CreditedPeers(timed) = {latency_tracker.pending[id] : id \in m.ids} \ {None}
  BY DEF CreditedPeers, Credited
<1> HIDE DEF timed
<1>9. samples' \in [PeerId -> SUBSET Nat]
  BY <1>2, <1>5, <1>7
<1>10. Samples(timed, samples')
  BY <1>5, <1>7, <1>9 DEF Samples
<1>11. AllWithin(average, samples')
  <2>1. \A p \in PeerId : samples[p] \subseteq samples'[p]
    BY <1>5
  <2> QED  BY <1>1, <2>1 DEF AllWithin, Within
<1>12. /\ average' \in Averages /\ AllWithin(average', samples')
       /\ \A p \in PeerId : average'[p] # None
                              <=> average[p] # None \/ p \in CreditedPeers(timed)
  BY <1>2, <1>4, <1>6, <1>10, <1>11, CreditsReach
<1>13. HasAverage' = HasAverage \cup CreditedPeers(timed)
  <2>1. CreditedPeers(timed) \subseteq PeerId
    BY <1>7 DEF CreditedPeers
  <2> QED  BY <1>12, <2>1 DEF HasAverage
<1>14. (HasAverage = latency_tracker.peers)'
  BY <1>1, <1>3, <1>8, <1>13
<1>15. SampledWasAsked'
  <2>1. CreditedPeers(timed) \subseteq asked
    BY <1>1, <1>2, <1>8 DEF TimedWereAsked
  <2> QED  BY <1>1, <1>5, <1>13, <2>1 DEF SampledWasAsked
<1>16. TimedWereAsked'
  <2>1. \A id \in ModifierId : latency_tracker'.pending[id] # None =>
           latency_tracker'.pending[id] = latency_tracker.pending[id]
    BY <1>2, <1>3 DEF RemoveAll, Map
  <2> QED  BY <1>1, <1>5, <2>1 DEF TimedWereAsked
<1>17. NumbersTypeOK'
  <2>1. age' \in [ModifierId -> Nat]
    BY <1>2, <1>5
  <2> QED  BY <1>2, <1>5, <1>9, <1>12, <2>1 DEF NumbersTypeOK, Averages
<1>18. AverageWithinSamples'
  BY <1>12 DEF AverageWithinSamples, AllWithin, Within, HasAverage, peer_latency
<1> QED  BY <1>14, <1>15, <1>16, <1>17, <1>18 DEF LatencyInv, TimedWereAsked

\* What the other events leave alone (router.rs:56-206): no other message reaches the
\* latency tracker.
LEMMA OtherMessages ==
    ASSUME NEW source, NEW m, RouteMessage(source, m),
           ~Registered(source) \/ m.kind \notin {"ModifierRequest", "ModifierResponse"}
    PROVE  UNCHANGED latency_tracker
    BY DEF RouteMessage, RouteUnregistered, RouteInv, RouteSyncInfo, RouteGetPeers, RoutePeers,
           RouteUnknown, tables

\* Every step keeps the invariant.
LEMMA LatencyStep ==
    ASSUME LatencyInv, [LatencyNext]_latencyVars
    PROVE  LatencyInv'
<1>0. RouterInv /\ age \in [ModifierId -> Nat]
  BY DEF LatencyInv, NumbersTypeOK
<1>1. CASE UNCHANGED latencyVars
  <2>1. UNCHANGED routerVars /\ UNCHANGED numberVars
    BY <1>1 DEF latencyVars
  <2>2. RouterInv'
    BY <1>0, <2>1, NextInv
  <2> QED  BY <1>0, <2>1, <2>2, TrackerStays DEF routerVars, tables, numberVars
<1>2. CASE Tick
  BY <1>2, TickStep
<1>3. ASSUME NEW p \in PeerId, NEW direction \in Direction,
             RegisterPeer(p, direction, "Full"), UNCHANGED numberVars
      PROVE  LatencyInv'
  <2>1. RouterInv'
    BY <1>0, <1>3, RegisterInv DEF ProxyMode
  <2>2. UNCHANGED latency_tracker
    BY <1>3 DEF RegisterPeer, tables
  <2> QED  BY <1>0, <1>3, <2>1, <2>2, TrackerStays DEF numberVars
<1>4. ASSUME NEW event \in ProtocolEvent, event.peer_id \in issued,
             HandleEvent(event), Track(event)
      PROVE  LatencyInv'
  <2> DEFINE s == event.peer_id
             m == event.message
  <2>1. s \in PeerId /\ (event.type = "Message" => m \in ProtocolMessage)
    BY DEF ProtocolEvent
  <2>2. RouterInv'
    <3>1. RouterNext
      BY <1>4 DEF RouterNext
    <3> QED  BY <1>0, <3>1, NextInv
  <2>3. CASE event.type = "PeerDisconnected"
    <3>1. PeerDisconnected(s) /\ PurgeNumbers(s)
      BY <1>4, <2>3 DEF HandleEvent, Track
    <3> HIDE DEF s
    <3> QED  BY <2>1, <2>2, <3>1, PurgeStep
  <2>4. CASE event.type = "PeerConnected"
    <3>1. PeerConnected(s) /\ UNCHANGED numberVars
      BY <1>4, <2>4 DEF HandleEvent, Track
    <3>2. UNCHANGED latency_tracker
      BY <3>1 DEF PeerConnected, tables
    <3> QED  BY <1>0, <2>2, <3>1, <3>2, TrackerStays DEF numberVars
  <2>5. CASE event.type = "Message"
    <3>1. RouteMessage(s, m)
      BY <1>4, <2>5 DEF HandleEvent
    <3>2. CASE ~Registered(s) \/ m.kind \notin {"ModifierRequest", "ModifierResponse"}
      <4>1. UNCHANGED numberVars
        BY <1>4, <2>5, <3>2 DEF Track
      <4>2. UNCHANGED latency_tracker
        <5> HIDE DEF s, m
        <5> QED  BY <3>1, <3>2, OtherMessages
      <4> QED  BY <1>0, <2>2, <4>1, <4>2, TrackerStays DEF numberVars
    <3>3. CASE Registered(s) /\ m.kind = "ModifierRequest"
      <4>1. RecordRequests({id \in m.ids : inv_table[id] \notin {None, s}})
        BY <1>4, <2>5, <3>3 DEF Track
      <4>2. m \in ModifierMessage
        BY <2>1, <2>5, <3>3 DEF ProtocolMessage, OpaqueMessage
      <4> HIDE DEF s, m
      <4>3. RouteModifierRequest(s, m)
        BY <3>1, <3>3 DEF RouteMessage, RouteUnregistered
      <4> QED  BY <2>1, <2>2, <4>1, <4>2, <4>3, RequestStep
    <3>4. CASE Registered(s) /\ m.kind = "ModifierResponse"
      <4>1. RecordResponses(m.ids)
        BY <1>4, <2>5, <3>4 DEF Track
      <4>2. m \in ModifierMessage
        BY <2>1, <2>5, <3>4 DEF ProtocolMessage, OpaqueMessage
      <4> HIDE DEF s, m
      <4>3. RouteModifierResponse(s, m)
        BY <3>1, <3>4 DEF RouteMessage, RouteUnregistered
      <4> QED  BY <2>1, <2>2, <4>1, <4>2, <4>3, ResponseStep
    <3> QED  BY <3>2, <3>3, <3>4
  <2> QED  BY <2>3, <2>4, <2>5 DEF ProtocolEvent
<1> QED  BY <1>1, <1>2, <1>3, <1>4 DEF LatencyNext

----------------------------------------------------------------------------
(* The statistics *)

Largest(D, g) == \E p \in D : \A q \in D : g[q] <= g[p]

\* A finite set has an element with the largest value (the maximum of latency.rs:106).
LEMMA LargestExists ==
    ASSUME NEW D, IsFiniteSet(D), D # {}, NEW g \in [D -> Nat]
    PROVE  Largest(D, g)
<1> DEFINE P == {n \in Nat : \A T \in SUBSET D : T # {} /\ Cardinality(T) = n => Largest(T, g)}
<1>1. 0 \in P
  <2> SUFFICES ASSUME NEW T \in SUBSET D, T # {}, Cardinality(T) = 0 PROVE FALSE
    OBVIOUS
  <2>1. IsFiniteSet(T)
    BY FS_Subset
  <2> QED  BY <2>1, FS_EmptySet
<1>2. ASSUME NEW n \in Nat, n \in P PROVE n + 1 \in P
  <2> SUFFICES ASSUME NEW T \in SUBSET D, T # {}, Cardinality(T) = n + 1
               PROVE  Largest(T, g)
    BY SMTT(30)
  <2>1. PICK x : x \in T
    OBVIOUS
  <2>2. IsFiniteSet(T)
    BY FS_Subset
  <2> DEFINE U == T \ {x}
  <2>3. Cardinality(U) = n
    <3>1. Cardinality(U) = Cardinality(T) - 1
      BY <2>1, <2>2, FS_RemoveElement
    <3> QED  BY <3>1, SMTT(30)
  <2>4. CASE U = {}
    <3>1. \A q \in T : q = x
      BY <2>4
    <3>2. g[x] <= g[x]
      BY <2>1, SMTT(30)
    <3> QED  BY <2>1, <3>1, <3>2 DEF Largest
  <2>5. CASE U # {}
    <3>1. Largest(U, g)
      BY <1>2, <2>3, <2>5
    <3>2. PICK p \in U : \A q \in U : g[q] <= g[p]
      BY <3>1 DEF Largest
    <3>3. \A q \in T : g[q] \in Nat
      OBVIOUS
    <3>4. CASE g[x] <= g[p]
      <4>1. \A q \in T : g[q] <= g[p]
        BY <3>2, <3>4
      <4> QED  BY <3>2, <4>1 DEF Largest
    <3>5. CASE g[p] <= g[x]
      <4>1. \A q \in T : g[q] <= g[x]
        BY <2>1, <3>2, <3>3, <3>5, SMTT(30)
      <4> QED  BY <2>1, <4>1 DEF Largest
    <3> QED  BY <2>1, <3>2, <3>3, <3>4, <3>5, SMTT(30)
  <2> QED  BY <2>4, <2>5
<1>3. Nat \subseteq P
  <2> HIDE DEF P
  <2> QED  BY <1>1, <1>2, NatSetInduction
<1>4. Cardinality(D) \in Nat
  BY FS_CardinalityType
<1> QED  BY <1>3, <1>4

\* Any set of natural numbers has a least one.
LEMMA MinLaw ==
    ASSUME NEW E \in SUBSET Nat, E # {}
    PROVE  Min(E) \in E /\ \A y \in E : Min(E) <= y
<1>1. PICK x \in E : \A y \in E : ~(<<y, x>> \in OpToRel(<, Nat))
  BY NatLessThanWellFounded, WFMin
<1>2. ASSUME NEW y \in E PROVE x <= y
  <2>1. SUFFICES ASSUME y < x PROVE FALSE
    BY SMTT(30)
  <2>2. <<y, x>> \in OpToRel(<, Nat)
    BY <2>1 DEF OpToRel
  <2> QED  BY <1>1, <2>2
<1> QED  BY <1>2 DEF Min

\* The sum that the loop of `stats` computes, over a set of peers.
SumsUp(D, g, total) ==
    \E sum \in [SUBSET D -> Nat] :
        /\ sum[{}] = 0
        /\ \A T \in SUBSET D : T # {} => \E x \in T : sum[T] = g[x] + sum[T \ {x}]
        /\ total = sum[D]

\* MapThenSumSet adds up the averages, one peer after the other (latency.rs:103-110).
LEMMA SumLaw ==
    ASSUME NEW D, IsFiniteSet(D), \A p \in D : peer_latency(p) \in Nat
    PROVE  SumsUp(D, [p \in D |-> peer_latency(p)], MapThenSumSet(peer_latency, D))
<1> DEFINE X == SUBSET D
           pick(T) == CHOOSE x \in T : TRUE
           body == [f \in [X -> Nat] |->
                      [T \in X |-> IF T = {} THEN 0
                                   ELSE peer_latency(pick(T)) + f[T \ {pick(T)}]]]
           rank == [T \in X |-> Cardinality(T)]
           iter == CHOOSE f : f = [T \in X |-> IF T = {} THEN 0
                                               ELSE peer_latency(pick(T)) + f[T \ {pick(T)}]]
           g == [p \in D |-> peer_latency(p)]
<1>1. ASSUME NEW T \in X, T # {}
      PROVE  /\ pick(T) \in T /\ pick(T) \in D /\ T \ {pick(T)} \in X
             /\ Cardinality(T \ {pick(T)}) < Cardinality(T)
             /\ peer_latency(pick(T)) \in Nat
  <2>1. pick(T) \in T
    BY <1>1
  <2> HIDE DEF pick
  <2>2. IsFiniteSet(T)
    BY FS_Subset
  <2>3. Cardinality(T) \in Nat /\ Cardinality(T \ {pick(T)}) = Cardinality(T) - 1
    BY <2>1, <2>2, FS_RemoveElement, FS_CardinalityType
  <2> QED  BY <2>1, <2>3, SMTT(30)
<1>2. MapThenSumSet(peer_latency, D) = iter[D]
  BY DEF MapThenSumSet, MapThenFoldSet
<1> HIDE DEF pick
<1>3. body \in [[X -> Nat] -> [X -> Nat]]
  <2> SUFFICES ASSUME NEW f \in [X -> Nat], NEW T \in X
               PROVE  (IF T = {} THEN 0 ELSE peer_latency(pick(T)) + f[T \ {pick(T)}]) \in Nat
    OBVIOUS
  <2>1. CASE T = {}
    BY <2>1
  <2>2. CASE T # {}
    <3>1. f[T \ {pick(T)}] \in Nat /\ peer_latency(pick(T)) \in Nat
      BY <1>1, <2>2
    <3> QED  BY <2>2, <3>1, SMTT(30)
  <2> QED  BY <2>1, <2>2
<1>4. \A f, h \in [X -> Nat] : \A T \in X :
         (\A U \in X : rank[U] < rank[T] => f[U] = h[U]) => body[f][T] = body[h][T]
  <2> SUFFICES ASSUME NEW f \in [X -> Nat], NEW h \in [X -> Nat], NEW T \in X,
                      \A U \in X : rank[U] < rank[T] => f[U] = h[U]
               PROVE  body[f][T] = body[h][T]
    OBVIOUS
  <2>1. CASE T = {}
    BY <2>1
  <2>2. CASE T # {}
    <3>1. f[T \ {pick(T)}] = h[T \ {pick(T)}]
      BY <1>1, <2>2
    <3> QED  BY <2>2, <3>1
  <2> QED  BY <2>1, <2>2
<1>5. rank \in [X -> Nat]
  BY FS_Subset, FS_CardinalityType
<1>6. HasFixpoint(X, Nat, body)
  <2> HIDE DEF body, rank, X
  <2>1. Ranked(X, Nat, rank, body)
    BY <1>3, <1>4, <1>5 DEF Ranked
  <2> QED  BY <2>1, RankRecursion
<1>7. PICK F \in [X -> Nat] : F = body[F]
  BY <1>6 DEF HasFixpoint
<1>8. F = [T \in X |-> IF T = {} THEN 0 ELSE peer_latency(pick(T)) + F[T \ {pick(T)}]]
  BY <1>7
<1>9. iter = [T \in X |-> IF T = {} THEN 0 ELSE peer_latency(pick(T)) + iter[T \ {pick(T)}]]
  BY <1>8
<1> HIDE DEF iter
<1>10. iter[{}] = 0
  BY <1>9
<1>11. \A T \in X : T # {} => iter[T] = g[pick(T)] + iter[T \ {pick(T)}]
  BY <1>1, <1>9
<1> DEFINE P == {n \in Nat : \A T \in X : Cardinality(T) = n => iter[T] \in Nat}
<1>12. 0 \in P
  <2> SUFFICES ASSUME NEW T \in X, Cardinality(T) = 0 PROVE iter[T] \in Nat
    OBVIOUS
  <2>1. T = {}
    BY FS_Subset, FS_EmptySet
  <2> QED  BY <1>10, <2>1, SMTT(30)
<1>13. ASSUME NEW n \in Nat, n \in P PROVE n + 1 \in P
  <2> SUFFICES ASSUME NEW T \in X, Cardinality(T) = n + 1 PROVE iter[T] \in Nat
    BY SMTT(30)
  <2>1. IsFiniteSet(T)
    BY FS_Subset
  <2>2. T # {}
    BY <2>1, FS_EmptySet, SMTT(30)
  <2>3. Cardinality(T \ {pick(T)}) = n
    <3>1. Cardinality(T \ {pick(T)}) = Cardinality(T) - 1
      BY <1>1, <2>1, <2>2, FS_RemoveElement
    <3> QED  BY <3>1, SMTT(30)
  <2>4. iter[T \ {pick(T)}] \in Nat /\ g[pick(T)] \in Nat
    BY <1>1, <1>13, <2>2, <2>3
  <2>5. iter[T] = g[pick(T)] + iter[T \ {pick(T)}]
    BY <1>11, <2>2
  <2> QED  BY <2>4, <2>5, SMTT(30)
<1>14. Nat \subseteq P
  <2> HIDE DEF P
  <2> QED  BY <1>12, <1>13, NatSetInduction
<1>15. iter \in [X -> Nat]
  <2>1. \A T \in X : iter[T] \in Nat
    BY <1>5, <1>14
  <2> QED  BY <1>9, <2>1
<1>16. \A T \in X : T # {} => \E x \in T : iter[T] = g[x] + iter[T \ {x}]
  BY <1>1, <1>11
<1> HIDE DEF g
<1>17. SumsUp(D, g, iter[D])
  BY <1>10, <1>15, <1>16 DEF SumsUp
<1> QED  BY <1>2, <1>17 DEF g

\* A sum lies between what it would be if all had the least value, and the greatest.
LEMMA SumBetween ==
    ASSUME NEW D, IsFiniteSet(D), NEW g \in [D -> Nat], NEW lo \in Nat, NEW hi \in Nat,
           \A p \in D : lo <= g[p] /\ g[p] <= hi, NEW total, SumsUp(D, g, total)
    PROVE  lo * Cardinality(D) <= total /\ total <= hi * Cardinality(D)
<1>1. PICK sum \in [SUBSET D -> Nat] :
         /\ sum[{}] = 0
         /\ \A T \in SUBSET D : T # {} => \E x \in T : sum[T] = g[x] + sum[T \ {x}]
         /\ total = sum[D]
  BY DEF SumsUp
<1> DEFINE P == {n \in Nat : \A T \in SUBSET D :
                   Cardinality(T) = n => lo * n <= sum[T] /\ sum[T] <= hi * n}
<1>2. 0 \in P
  <2> SUFFICES ASSUME NEW T \in SUBSET D, Cardinality(T) = 0
               PROVE  lo * 0 <= sum[T] /\ sum[T] <= hi * 0
    OBVIOUS
  <2>1. T = {}
    BY FS_Subset, FS_EmptySet
  <2> QED  BY <1>1, <2>1, SMTT(30)
<1>3. ASSUME NEW n \in Nat, n \in P PROVE n + 1 \in P
  <2> SUFFICES ASSUME NEW T \in SUBSET D, Cardinality(T) = n + 1
               PROVE  lo * (n + 1) <= sum[T] /\ sum[T] <= hi * (n + 1)
    BY SMTT(30)
  <2>1. IsFiniteSet(T)
    BY FS_Subset
  <2>2. T # {}
    BY <2>1, FS_EmptySet, SMTT(30)
  <2>3. PICK x \in T : sum[T] = g[x] + sum[T \ {x}]
    BY <1>1, <2>2
  <2>4. Cardinality(T \ {x}) = n
    <3>1. Cardinality(T \ {x}) = Cardinality(T) - 1
      BY <2>1, FS_RemoveElement
    <3> QED  BY <3>1, SMTT(30)
  <2>5. lo * n <= sum[T \ {x}] /\ sum[T \ {x}] <= hi * n /\ sum[T \ {x}] \in Nat
    BY <1>1, <1>3, <2>4
  <2>6. lo <= g[x] /\ g[x] <= hi /\ g[x] \in Nat
    OBVIOUS
  <2>7. lo * (n + 1) = lo * n + lo /\ hi * (n + 1) = hi * n + hi
        /\ lo * n \in Nat /\ hi * n \in Nat
    BY SMTT(30)
  <2> QED  BY <2>3, <2>5, <2>6, <2>7, SMTT(30)
<1>4. Nat \subseteq P
  <2> HIDE DEF P
  <2> QED  BY <1>2, <1>3, NatSetInduction
<1>5. Cardinality(D) \in Nat
  BY FS_CardinalityType
<1> QED  BY <1>1, <1>4, <1>5

\* The statistics of a tracker whose maps agree with the registry.
LEMMA StatsLaw ==
    ASSUME LatencyInv
    PROVE  StatsOfConnected
<1> DEFINE D == HasAverage
           R == {p \in PeerId : Registered(p)}
           emas == {peer_latency(p) : p \in D}
           g == [p \in D |-> peer_latency(p)]
<1>1. D = latency_tracker.peers /\ D \subseteq PeerId
  BY DEF LatencyInv, HasAverage
<1>2. D \subseteq R
  BY <1>1 DEF LatencyInv, RouterInv, TablesMentionRegistered
<1>3. /\ IsFiniteSet(R) /\ IsFiniteSet(D) /\ IsFiniteSet(outbound_peers)
      /\ Cardinality(D) <= Cardinality(R) /\ Cardinality(outbound_peers) <= Cardinality(R)
  <2>1. IsFiniteSet(R)
    BY LatencyAssumption, FS_Subset
  <2>2. outbound_peers \subseteq R
    BY DEF outbound_peers, IsPeer
  <2> HIDE DEF R, D
  <2> QED  BY <1>2, <2>1, <2>2, FS_Subset
<1>4. \A p \in D : peer_latency(p) \in Nat
  BY DEF LatencyInv, NumbersTypeOK, PeerLatency, HasAverage, peer_latency
<1>5. stats = [min |-> Min(emas), max |-> Max(emas), peer_count |-> Cardinality(D),
               sum |-> MapThenSumSet(peer_latency, D)]
  BY DEF stats
<1>6. stats.peer_count = Cardinality(D) /\ stats.min = Min(emas) /\ stats.max = Max(emas)
      /\ stats.sum = MapThenSumSet(peer_latency, D)
  BY <1>5
<1>7. RrdPeers <= Cardinality(R)
  BY <1>3, <1>6 DEF RrdPeers
<1>8. ASSUME D # {}
      PROVE  /\ stats.min * stats.peer_count <= stats.sum
             /\ stats.sum <= stats.max * stats.peer_count
             /\ fastest_peer(R) = {p \in D : peer_latency(p) = stats.min}
  <2>1. emas \in SUBSET Nat /\ emas # {}
    BY <1>4, <1>8
  <2>2. g \in [D -> Nat] /\ \A p \in D : g[p] = peer_latency(p) /\ g[p] \in emas
    BY <1>4
  <2>3. Min(emas) \in emas /\ \A y \in emas : Min(emas) <= y
    <3> HIDE DEF emas
    <3> QED  BY <2>1, MinLaw
  <2>4. Max(emas) \in emas /\ \A y \in emas : y <= Max(emas)
    <3>1. Largest(D, g)
      <4> HIDE DEF g, D
      <4> QED  BY <1>3, <1>8, <2>2, LargestExists
    <3>2. PICK p \in D : \A q \in D : g[q] <= g[p]
      BY <3>1 DEF Largest
    <3>3. g[p] \in emas /\ \A y \in emas : g[p] >= y
      BY <2>2, <3>2
    <3>4. Max(emas) \in emas /\ \A y \in emas : Max(emas) >= y
      <4> HIDE DEF emas, g, D
      <4> QED  BY <3>3 DEF Max
    <3> HIDE DEF emas
    <3> QED  BY <2>1, <3>4
  <2>5. SumsUp(D, g, stats.sum)
    BY <1>3, <1>4, <1>6, SumLaw
  <2>6. Min(emas) \in Nat /\ Max(emas) \in Nat
        /\ \A p \in D : Min(emas) <= g[p] /\ g[p] <= Max(emas)
    <3> HIDE DEF emas, g
    <3> QED  BY <2>1, <2>2, <2>3, <2>4
  <2>7. /\ Min(emas) * Cardinality(D) <= stats.sum
        /\ stats.sum <= Max(emas) * Cardinality(D)
    <3> HIDE DEF emas, g, D
    <3> QED  BY <1>3, <2>2, <2>5, <2>6, SumBetween
  <2>8. fastest_peer(R) = {p \in D : \A q \in D : peer_latency(p) <= peer_latency(q)}
    BY <1>2 DEF fastest_peer
  <2>9. ASSUME NEW p \in D
        PROVE  (\A q \in D : peer_latency(p) <= peer_latency(q))
                 <=> peer_latency(p) = Min(emas)
    <3>1. PICK r \in D : Min(emas) = peer_latency(r)
      BY <2>3
    <3>2. \A q \in D : Min(emas) <= peer_latency(q) /\ peer_latency(q) \in Nat
      BY <1>4, <2>3
    <3> HIDE DEF emas, D
    <3> QED  BY <2>6, <3>1, <3>2, SMTT(30)
  <2> HIDE DEF emas, g, D, R
  <2> QED  BY <1>6, <2>7, <2>8, <2>9
<1> QED  BY <1>1, <1>7, <1>8 DEF StatsOfConnected

----------------------------------------------------------------------------
(* The theorems *)

\* The inductive invariant holds in every reachable state.
THEOREM LatencyInvariant == LatencySpec => []LatencyInv
  BY LatencyInitial, LatencyStep, PTL DEF LatencySpec

\* "returns the exponential moving average RTT for a peer" (latency.rs:7): whatever the
\* order of requests, responses and announcements, an average lies between the shortest
\* and the longest round trip the peer was credited with.
THEOREM AveragesBounded == LatencySpec => []AverageWithinSamples
<1>1. LatencyInv => AverageWithinSamples
  BY DEF LatencyInv
<1> QED
  BY <1>1, LatencyInvariant, PTL

\* A peer has an average only if it was itself sent a request since it connected.
THEOREM OnlyAskedAreSampled == LatencySpec => []SampledWasAsked
<1>1. LatencyInv => SampledWasAsked
  BY DEF LatencyInv
<1> QED
  BY <1>1, LatencyInvariant, PTL

\* "stats(): returns (min, avg, max) across all peers with data" (latency.rs:9): the
\* report of the RRD task is about connected peers only, and its numbers are in order.
THEOREM StatisticsSound == LatencySpec => []StatsOfConnected
<1>1. LatencyInv => StatsOfConnected
  BY StatsLaw
<1> QED
  BY <1>1, LatencyInvariant, PTL

=============================================================================
