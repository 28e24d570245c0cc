------------------------------ MODULE Latency -------------------------------
(***************************************************************************)
(* The numbers of the latency tracker (routing/latency.rs), beside the     *)
(* router that drives it, and what the RRD task of main.rs reports.        *)
(* Router.tla has the keys of the two maps; here are their values: how     *)
(* long ago a timed request was sent, and each peer's average.             *)
(*                                                                         *)
(* Time passes in ticks, and averages are kept in units of 1/Scale.  They  *)
(* are exact: a weight of 3/10 for the new sample makes every average of   *)
(* up to MaxSamples samples a multiple of 1/10^(MaxSamples - 1).           *)
(***************************************************************************)
EXTENDS Router, Integers, Sequences, FiniteSetsExt

CONSTANTS
    Kinds,         \* the kinds of messages that come in
    MaxAge,        \* bound: ticks a timed request is waited for
    MaxSamples,    \* bound: samples of one peer
    Scale          \* units of a tick in which averages are kept

\* There are finitely many ids: a PeerId is a u64, a ModifierId has 32 bytes.
ASSUME LatencyAssumption ==
    /\ MaxAge \in Nat
    /\ MaxSamples \in Nat \ {0}
    /\ Scale \in Nat \ {0} /\ Scale % 10^(MaxSamples - 1) = 0
    /\ IsFiniteSet(PeerId) /\ IsFiniteSet(ModifierId)

PeerLatency == [ema : Nat, sample_count : Nat]

ASSUME NoneIsNoLatency == None \notin PeerLatency

VARIABLES
    age,           \* for a timed id, the ticks since PendingTiming.sent_at
    average,       \* PeerLatency of each peer
    samples,       \* history: the round trips a connected peer was credited with
    asked          \* history: the connected peers a request was sent to

numberVars == <<age, average, samples, asked>>

latencyVars == <<routerVars, numberVars>>

LatencyInit ==
    /\ RouterInit
    /\ age = [id \in ModifierId |-> 0]
    /\ average = EmptyMap(PeerId)
    /\ samples = [p \in PeerId |-> {}]
    /\ asked = {}

----------------------------------------------------------------------------
(* The tracker *)

\* record_request of each of `ids`.
RecordRequests(ids) ==
    /\ age' = [id \in ModifierId |-> IF id \in ids THEN 0 ELSE age[id]]
    /\ asked' = asked \cup {inv_table[id] : id \in ids}
    /\ UNCHANGED <<average, samples>>

\* Mutant: the first sample is averaged like the others, from zero.
AddSampleFromZero(entry, rtt) ==
    [ema |-> (3 * rtt * Scale + 7 * (IF entry = None THEN 0 ELSE entry.ema)) \div 10,
     sample_count |-> IF entry = None THEN 1 ELSE entry.sample_count + 1]

\* The new PeerLatency for one round trip.
AddSample(entry, rtt) ==
    IF entry = None THEN [ema |-> rtt * Scale, sample_count |-> 1]
    ELSE [ema |-> (3 * rtt * Scale + 7 * entry.ema) \div 10,
          sample_count |-> entry.sample_count + 1]

\* Mutant: the sample goes to the peer that announced the modifier last.
CreditedAnnouncer(id) ==
    IF inv_table[id] # None THEN inv_table[id] ELSE latency_tracker.pending[id]

\* The peer a sample is credited to.
Credited(id) == latency_tracker.pending[id]

\* record_response of a timed id, with the averages so far.
Credit(map, id) == [map EXCEPT ![Credited(id)] = AddSample(@, age[id])]

\* record_response of each id of `order`, one after the other.
CreditAll(order) ==
    LET after[n \in 0..Len(order)] ==
            IF n = 0 THEN average ELSE Credit(after[n - 1], order[n])
    IN  after[Len(order)]

\* record_response of each of `ids`, in some order; an untimed id returns early.
RecordResponses(ids) ==
    LET timed == {id \in ids : latency_tracker.pending[id] # None}
    IN  /\ \E order \in Bijection(1..Cardinality(timed), timed) : average' = CreditAll(order)
        /\ \A p \in PeerId : average'[p] # None => average'[p].sample_count <= MaxSamples
        /\ samples' = [p \in PeerId |->
                          samples[p] \cup {age[id] : id \in {i \in timed : Credited(i) = p}}]
        /\ age' = [id \in ModifierId |-> IF id \in ids THEN 0 ELSE age[id]]
        /\ UNCHANGED asked

\* Mutant: the average of the peer stays.
PurgeNumbersKeep(p) ==
    /\ age' = [id \in ModifierId |-> IF latency_tracker.pending[id] = p THEN 0 ELSE age[id]]
    /\ samples' = [samples EXCEPT ![p] = {}]
    /\ asked' = asked \ {p}
    /\ UNCHANGED average

\* purge_peer
PurgeNumbers(p) ==
    /\ age' = [id \in ModifierId |-> IF latency_tracker.pending[id] = p THEN 0 ELSE age[id]]
    /\ average' = Remove(average, p)
    /\ samples' = [samples EXCEPT ![p] = {}]
    /\ asked' = asked \ {p}

\* What handle_event has the tracker do.
Track(event) ==
    \/ /\ event.type = "PeerDisconnected"
       /\ PurgeNumbers(event.peer_id)
    \/ /\ event.type = "Message"
       /\ Registered(event.peer_id)
       /\ \/ /\ event.message.kind = "ModifierRequest"
             /\ RecordRequests({id \in event.message.ids :
                                   inv_table[id] \notin {None, event.peer_id}})
          \/ /\ event.message.kind = "ModifierResponse"
             /\ RecordResponses(event.message.ids)
          \/ /\ event.message.kind \notin {"ModifierRequest", "ModifierResponse"}
             /\ UNCHANGED numberVars
    \/ /\ \/ event.type = "PeerConnected"
          \/ event.type = "Message" /\ ~Registered(event.peer_id)
       /\ UNCHANGED numberVars

Tick ==
    /\ \E id \in ModifierId : latency_tracker.pending[id] # None
    /\ \A id \in ModifierId : age[id] < MaxAge
    /\ age' = [id \in ModifierId |->
                 IF latency_tracker.pending[id] = None THEN 0 ELSE age[id] + 1]
    /\ UNCHANGED <<routerVars, average, samples, asked>>

\* The mode of a peer plays no part in modifier traffic.
LatencyNext ==
    \/ Tick
    \/ \E p \in PeerId, direction \in Direction :
          RegisterPeer(p, direction, "Full") /\ UNCHANGED numberVars
    \/ \E event \in ProtocolEvent :
          /\ event.peer_id \in issued
          /\ event.type = "Message" => event.message.kind \in Kinds
          /\ HandleEvent(event)
          /\ Track(event)

LatencySpec == LatencyInit /\ [][LatencyNext]_latencyVars

----------------------------------------------------------------------------
(* Reading the tracker *)

HasAverage == {p \in PeerId : average[p] # None}

\* peer_latency
peer_latency(p) == average[p].ema

\* stats, with the sum for the average.
stats ==
    LET emas == {peer_latency(p) : p \in HasAverage}
    IN  [min |-> Min(emas), max |-> Max(emas), peer_count |-> Cardinality(HasAverage),
         sum |-> MapThenSumSet(peer_latency, HasAverage)]

\* The peer count in the update of the RRD task: that of the statistics when there
\* are any.
RrdPeers == IF HasAverage = {} THEN Cardinality(outbound_peers) ELSE stats.peer_count

\* fastest_peer: one of the candidates with the least average.
fastest_peer(candidates) ==
    {p \in candidates \cap HasAverage :
        \A q \in candidates \cap HasAverage : peer_latency(p) <= peer_latency(q)}

----------------------------------------------------------------------------
(* Properties *)

\* "returns the exponential moving average RTT for a peer" (latency.rs:7): an average
\* lies between the shortest and the longest round trip the peer was credited with,
\* from the first sample on.
AverageWithinSamples ==
    \A p \in HasAverage : \E shortest, longest \in samples[p] :
        /\ Scale * shortest <= peer_latency(p)
        /\ peer_latency(p) <= Scale * longest

\* Whatever peers announce the modifier while it is under way, and whoever answers, a
\* peer has an average only if it was itself sent a request (record_request and
\* record_response agree on the target through the pending entry).
SampledWasAsked == HasAverage \subseteq asked

\* "stats(): returns (min, avg, max) across all peers with data" (latency.rs:9): what
\* the RRD task reports is about peers that are connected at that moment, the numbers
\* are in order, and the peer count is never more than there are peers.
StatsOfConnected ==
    /\ HasAverage = latency_tracker.peers
    /\ RrdPeers <= Cardinality({p \in PeerId : Registered(p)})
    /\ HasAverage # {} =>
          /\ stats.min * stats.peer_count <= stats.sum
          /\ stats.sum <= stats.max * stats.peer_count
          /\ fastest_peer({p \in PeerId : Registered(p)}) =
                {p \in HasAverage : peer_latency(p) = stats.min}

----------------------------------------------------------------------------
(* The inductive invariant *)

NumbersTypeOK ==
    /\ age \in [ModifierId -> Nat]
    /\ average \in [PeerId -> PeerLatency \cup {None}]
    /\ samples \in [PeerId -> SUBSET Nat]
    /\ asked \subseteq PeerId

\* What every step preserves: the peers being timed have been asked, and the maps of
\* the tracker have the keys that Router.tla says.
LatencyInv ==
    /\ RouterInv
    /\ NumbersTypeOK
    /\ AverageWithinSamples
    /\ SampledWasAsked
    /\ \A id \in ModifierId :
          latency_tracker.pending[id] # None => latency_tracker.pending[id] \in asked
    /\ HasAverage = latency_tracker.peers

=============================================================================
