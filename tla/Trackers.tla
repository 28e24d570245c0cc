------------------------------ MODULE Trackers ------------------------------
(***************************************************************************)
(* The tables the router keeps: InvTable (inv_table.rs), RequestTracker    *)
(* and SyncTracker (tracker.rs), and the table half of LatencyTracker      *)
(* (latency.rs).  The operators below take the contents of a table and     *)
(* return its contents after the operation; Router.tla holds the tables as *)
(* variables.                                                              *)
(*                                                                         *)
(* A HashMap<K, V> is a total function on K whose value is None where the  *)
(* map has no entry, so that get(&k).copied() is plain application.        *)
(***************************************************************************)
CONSTANT None    \* Option::None: no entry

----------------------------------------------------------------------------
(* HashMap *)

\* HashMap::new() over the keys K.
EmptyMap(K) == [k \in K |-> None]

\* HashMap::remove(&key); nothing happens when key is itself None or absent.
Remove(map, key) == [k \in DOMAIN map |-> IF k = key THEN None ELSE map[k]]

\* HashMap::retain(|_, v| *v != value).
RetainNot(map, value) ==
    [k \in DOMAIN map |-> IF map[k] = value THEN None ELSE map[k]]

\* The removal of every key of a set, one after the other.
RemoveAll(map, keys) ==
    [k \in DOMAIN map |-> IF k \in keys THEN None ELSE map[k]]

\* `for id in ids { map.insert(id, value) }`.
InsertAll(map, keys, value) ==
    [k \in DOMAIN map |-> IF k \in keys THEN value ELSE map[k]]

----------------------------------------------------------------------------
(* InvTable: modifier id -> the peer that announced it last *)

InvRecord(entries, ids, peer) == InsertAll(entries, ids, peer)

\* Mutant: purge_peer leaves the announcements of the peer behind.
InvPurgeForgotten(entries, peer) == entries

InvPurge(entries, peer) == RetainNot(entries, peer)

----------------------------------------------------------------------------
(* RequestTracker: modifier id -> the peer that asked for it last *)

RequestRecord(pending, ids, requester) == InsertAll(pending, ids, requester)

RequestFulfill(pending, ids) == RemoveAll(pending, ids)

\* Mutant: purge_peer leaves the requests of the peer pending.
RequestPurgeForgotten(pending, peer) == pending

RequestPurge(pending, peer) == RetainNot(pending, peer)

----------------------------------------------------------------------------
(* SyncTracker: the pairing of an inbound peer with the outbound peer that *)
(* serves its sync, kept in two maps.                                      *)

SyncPair(sync, inbound, outbound) ==
    [ inbound_to_outbound |->
          [sync.inbound_to_outbound EXCEPT ![inbound] = outbound],
      outbound_to_inbound |->
          [sync.outbound_to_inbound EXCEPT ![outbound] = inbound] ]

\* Mutant: purge_peer removes the peer's own keys and not its partner's.
SyncPurgeOwnKeys(sync, peer) ==
    [ inbound_to_outbound |-> Remove(sync.inbound_to_outbound, peer),
      outbound_to_inbound |-> Remove(sync.outbound_to_inbound, peer) ]

\* purge_peer first treats the peer as an inbound one and then, on the
\* result, as an outbound one.
SyncPurge(sync, peer) ==
    LET asInbound == Remove(sync.outbound_to_inbound,
                            sync.inbound_to_outbound[peer])
        inbound   == asInbound[peer]
    IN  [ inbound_to_outbound |->
              Remove(Remove(sync.inbound_to_outbound, peer), inbound),
          outbound_to_inbound |-> Remove(asInbound, peer) ]

----------------------------------------------------------------------------
(* LatencyTracker: `pending` maps a modifier id to the peer the request    *)
(* was sent to (sent_at is left out: only its presence matters here), and  *)
(* `peers` is the set of peers that have an average.                       *)

\* record_request for each of `ids`, the target of id being targets[id].
TimingRecord(pending, ids, targets) ==
    [id \in DOMAIN pending |->
        IF id \in ids THEN targets[id] ELSE pending[id]]

\* Mutant: record_response does not return early for an untimed id.
TimingResponseUntimed(timing, ids) ==
    [ pending |-> RemoveAll(timing.pending, ids),
      peers   |-> timing.peers \cup {timing.pending[id] : id \in ids} ]

\* record_response for each of `ids`: an untimed id returns early.
TimingResponse(timing, ids) ==
    [ pending |-> RemoveAll(timing.pending, ids),
      peers   |-> timing.peers \cup
                  ({timing.pending[id] : id \in ids} \ {None}) ]

TimingPurge(timing, peer) ==
    [ pending |-> RetainNot(timing.pending, peer),
      peers   |-> timing.peers \ {peer} ]

=============================================================================
