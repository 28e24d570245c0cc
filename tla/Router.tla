------------------------------- MODULE Router -------------------------------
(***************************************************************************)
(* The router (routing/router.rs): the peer registry, the four tables of   *)
(* Trackers.tla, and handle_event, which consumes one protocol event and   *)
(* returns the messages to send.                                           *)
(*                                                                         *)
(* A message carries its kind and, for the three modifier messages, the    *)
(* modifier type and the ids; bodies and payloads are opaque to the router *)
(* and left out.  A Vec of ids is the set of its elements: the handlers    *)
(* treat the ids one by one and a repeated id behaves as two messages.     *)
(***************************************************************************)
EXTENDS Trackers

CONSTANTS
    PeerId,          \* the ids main.rs may hand out
    ModifierId,      \* modifier ids
    ModifierType     \* modifier type bytes

ASSUME NoneIsNoPeer == None \notin PeerId

Direction == {"Inbound", "Outbound"}

ProxyMode == {"Full", "Light"}

PeerEntry == [direction : Direction, mode : ProxyMode]

ASSUME NoneIsNoEntry == None \notin PeerEntry

ModifierMessage ==
    [kind : {"Inv", "ModifierRequest", "ModifierResponse"},
     modifier_type : ModifierType, ids : SUBSET ModifierId]

OpaqueMessage == [kind : {"SyncInfo", "GetPeers", "Peers", "Unknown"}]

ProtocolMessage == ModifierMessage \cup OpaqueMessage

Action == [target : PeerId, message : ProtocolMessage]

ProtocolEvent ==
    [type : {"PeerConnected", "PeerDisconnected"}, peer_id : PeerId]
      \cup [type : {"Message"}, peer_id : PeerId, message : ProtocolMessage]

VARIABLES
    peers,              \* Router.peers
    inv_table,          \* InvTable.entries
    request_tracker,    \* RequestTracker.pending
    sync_tracker,       \* the two maps of SyncTracker
    latency_tracker,    \* LatencyTracker.pending and the keys of its peers
    actions,            \* what the last handle_event returned
    issued              \* the PeerIds registered so far: a counter, no reuse

tables == <<inv_table, request_tracker, sync_tracker, latency_tracker>>

routerVars == <<peers, tables, actions, issued>>

\* The registry, the tables and the returned actions have the types router.rs gives
\* them; in particular latency_tracker.peers never holds an absent target.
TypeOK ==
    /\ peers \in [PeerId -> PeerEntry \cup {None}]
    /\ inv_table \in [ModifierId -> PeerId \cup {None}]
    /\ request_tracker \in [ModifierId -> PeerId \cup {None}]
    /\ sync_tracker \in
         [inbound_to_outbound : [PeerId -> PeerId \cup {None}],
          outbound_to_inbound : [PeerId -> PeerId \cup {None}]]
    /\ latency_tracker \in
         [pending : [ModifierId -> PeerId \cup {None}], peers : SUBSET PeerId]
    /\ actions \subseteq Action
    /\ issued \subseteq PeerId

----------------------------------------------------------------------------
(* Reading the registry *)

Registered(p) == peers[p] # None

IsPeer(p, direction) == Registered(p) /\ peers[p].direction = direction

outbound_peers == {p \in PeerId : IsPeer(p, "Outbound")}

inbound_peers == {p \in PeerId : IsPeer(p, "Inbound")}

\* The peers on the other side of the proxy than `source`.
OppositePeers(source) ==
    IF peers[source].direction = "Outbound" THEN inbound_peers ELSE outbound_peers

Send(target, message) == [target |-> target, message |-> message]

\* The forwarded request or response for one id of message m.
Single(m, id) == [kind |-> m.kind, modifier_type |-> m.modifier_type, ids |-> {id}]

\* Each id of `ids` is forwarded by itself, to the peer `table` holds for it.
SendEach(table, m, ids) == {Send(table[id], Single(m, id)) : id \in ids}

----------------------------------------------------------------------------
(* The calls that change the router *)

RouterInit ==
    /\ peers = EmptyMap(PeerId)
    /\ inv_table = EmptyMap(ModifierId)
    /\ request_tracker = EmptyMap(ModifierId)
    /\ sync_tracker = [inbound_to_outbound |-> EmptyMap(PeerId),
                       outbound_to_inbound |-> EmptyMap(PeerId)]
    /\ latency_tracker = [pending |-> EmptyMap(ModifierId), peers |-> {}]
    /\ actions = {}
    /\ issued = {}

\* register_peer, called once for each id of the counter in main.rs.  Outbound
\* connections are always made in full mode.
RegisterPeer(p, direction, mode) ==
    /\ p \notin issued
    /\ direction = "Outbound" => mode = "Full"
    /\ issued' = issued \cup {p}
    /\ peers' = [peers EXCEPT ![p] = [direction |-> direction, mode |-> mode]]
    /\ UNCHANGED <<tables, actions>>

PeerConnected(p) ==
    /\ actions' = {}
    /\ UNCHANGED <<peers, tables, issued>>

PeerDisconnected(p) ==
    /\ inv_table' = InvPurge(inv_table, p)
    /\ request_tracker' = RequestPurge(request_tracker, p)
    /\ sync_tracker' = SyncPurge(sync_tracker, p)
    /\ latency_tracker' = TimingPurge(latency_tracker, p)
    /\ peers' = Remove(peers, p)
    /\ actions' = {}
    /\ UNCHANGED issued

RouteInv(source, m) ==
    /\ inv_table' = InvRecord(inv_table, m.ids, source)
    /\ actions' = {Send(p, m) : p \in OppositePeers(source) \ {source}}
    /\ UNCHANGED <<peers, request_tracker, sync_tracker, latency_tracker, issued>>

\* Mutant: the announcer is asked even when it is the requester itself.
RouteModifierRequestToSelf(source, m) ==
    LET asked == {id \in m.ids : inv_table[id] # None}
    IN  /\ request_tracker' = RequestRecord(request_tracker, asked, source)
        /\ latency_tracker' = [latency_tracker EXCEPT
                                 !.pending = TimingRecord(@, asked, inv_table)]
        /\ actions' = SendEach(inv_table, m, asked)
        /\ UNCHANGED <<peers, inv_table, sync_tracker, issued>>

\* Each id that another peer announced is asked of that peer; the others are
\* skipped.
RouteModifierRequest(source, m) ==
    LET asked == {id \in m.ids : inv_table[id] \notin {None, source}}
    IN  /\ request_tracker' = RequestRecord(request_tracker, asked, source)
        /\ latency_tracker' = [latency_tracker EXCEPT
                                 !.pending = TimingRecord(@, asked, inv_table)]
        /\ actions' = SendEach(inv_table, m, asked)
        /\ UNCHANGED <<peers, inv_table, sync_tracker, issued>>

\* Mutant: the pending request is looked up and not removed.
RouteModifierResponseKeep(source, m) ==
    LET served == {id \in m.ids : request_tracker[id] # None}
    IN  /\ latency_tracker' = TimingResponse(latency_tracker, m.ids)
        /\ actions' = SendEach(request_tracker, m, served)
        /\ UNCHANGED <<peers, inv_table, request_tracker, sync_tracker, issued>>

\* Each id with a pending request goes to the requester.  Who responds is not
\* looked at.
RouteModifierResponse(source, m) ==
    LET served == {id \in m.ids : request_tracker[id] # None}
    IN  /\ latency_tracker' = TimingResponse(latency_tracker, m.ids)
        /\ request_tracker' = RequestFulfill(request_tracker, m.ids)
        /\ actions' = SendEach(request_tracker, m, served)
        /\ UNCHANGED <<peers, inv_table, sync_tracker, issued>>

FreeOutbound == {o \in outbound_peers : sync_tracker.outbound_to_inbound[o] = None}

\* An inbound peer is paired with some outbound peer that has no partner; find
\* over a HashMap may return any of them.
SyncFromInbound(source, m) ==
    \/ \E o \in FreeOutbound :
          /\ sync_tracker' = SyncPair(sync_tracker, source, o)
          /\ actions' = {Send(o, m)}
    \/ /\ FreeOutbound = {}
       /\ actions' = {}
       /\ UNCHANGED sync_tracker

SyncFromOutbound(source, m) ==
    /\ actions' = {Send(i, m) :
                      i \in {sync_tracker.outbound_to_inbound[source]} \ {None}}
    /\ UNCHANGED sync_tracker

\* Mutant: SyncInfo of a light peer is not dropped.
RouteSyncInfoAnyMode(source, m) ==
    /\ \/ peers[source].direction = "Inbound" /\ SyncFromInbound(source, m)
       \/ peers[source].direction = "Outbound" /\ SyncFromOutbound(source, m)
    /\ UNCHANGED <<peers, inv_table, request_tracker, latency_tracker, issued>>

RouteSyncInfo(source, m) ==
    /\ \/ /\ peers[source].mode = "Light"
          /\ actions' = {}
          /\ UNCHANGED sync_tracker
       \/ /\ peers[source].mode = "Full"
          /\ peers[source].direction = "Inbound"
          /\ SyncFromInbound(source, m)
       \/ /\ peers[source].mode = "Full"
          /\ peers[source].direction = "Outbound"
          /\ SyncFromOutbound(source, m)
    /\ UNCHANGED <<peers, inv_table, request_tracker, latency_tracker, issued>>

\* GetPeers is answered with an empty peer list.
RouteGetPeers(source) ==
    /\ actions' = {Send(source, [kind |-> "Peers"])}
    /\ UNCHANGED <<peers, tables, issued>>

RoutePeers(source) ==
    /\ actions' = {}
    /\ UNCHANGED <<peers, tables, issued>>

RouteUnknown(source, m) ==
    /\ actions' = {Send(p, m) : p \in OppositePeers(source) \ {source}}
    /\ UNCHANGED <<peers, tables, issued>>

RouteUnregistered(source) ==
    /\ ~Registered(source)
    /\ actions' = {}
    /\ UNCHANGED <<peers, tables, issued>>

RouteMessage(source, m) ==
    \/ RouteUnregistered(source)
    \/ /\ Registered(source)
       /\ \/ m.kind = "Inv" /\ RouteInv(source, m)
          \/ m.kind = "ModifierRequest" /\ RouteModifierRequest(source, m)
          \/ m.kind = "ModifierResponse" /\ RouteModifierResponse(source, m)
          \/ m.kind = "SyncInfo" /\ RouteSyncInfo(source, m)
          \/ m.kind = "GetPeers" /\ RouteGetPeers(source)
          \/ m.kind = "Peers" /\ RoutePeers(source)
          \/ m.kind = "Unknown" /\ RouteUnknown(source, m)

HandleEvent(event) ==
    \/ event.type = "PeerConnected" /\ PeerConnected(event.peer_id)
    \/ event.type = "PeerDisconnected" /\ PeerDisconnected(event.peer_id)
    \/ event.type = "Message" /\ RouteMessage(event.peer_id, event.message)

\* The events are those of peers that have been registered, and may still come
\* after the peer is gone.
RouterNext ==
    \/ \E p \in PeerId, direction \in Direction, mode \in ProxyMode :
          RegisterPeer(p, direction, mode)
    \/ \E event \in ProtocolEvent : event.peer_id \in issued /\ HandleEvent(event)

RouterSpec == RouterInit /\ [][RouterNext]_routerVars

----------------------------------------------------------------------------
(* Safety *)

\* What holds of the contract line "no references to unregistered peers"
\* (router.rs:8): the Inv table, the request tracker, the latency tracker and the
\* inbound-to-outbound half of the sync tracker mention registered peers only,
\* because PeerDisconnected purges each of them before it drops the peer.
TablesMentionRegistered ==
    /\ \A id \in ModifierId :
          /\ inv_table[id] # None => Registered(inv_table[id])
          /\ request_tracker[id] # None => Registered(request_tracker[id])
          /\ latency_tracker.pending[id] # None => Registered(latency_tracker.pending[id])
    /\ \A p \in latency_tracker.peers : Registered(p)
    /\ \A i \in PeerId :
          LET o == sync_tracker.inbound_to_outbound[i]
          IN  o # None => Registered(i) /\ Registered(o)

\* What holds of "actions target only registered, non-disconnected peers"
\* (router.rs:6): every action but SyncInfo does, since the tables and the registry
\* it is computed from agree.
NonSyncActionsTargetRegistered ==
    \A a \in actions : a.message.kind # "SyncInfo" => Registered(a.target)

\* What holds of "if A->B exists, B->A exists" (tracker.rs:14): the partner an
\* inbound peer is mapped to is an outbound peer that is mapped back to it, so two
\* inbound peers never hold the same partner.  This is the half that survives a
\* second pair() of the same inbound peer.
PartnersAgree ==
    \A i \in PeerId :
        LET o == sync_tracker.inbound_to_outbound[i]
        IN  o # None => /\ IsPeer(i, "Inbound")
                        /\ IsPeer(o, "Outbound")
                        /\ sync_tracker.outbound_to_inbound[o] = i

\* Light peers take no part in sync (router.rs:146): SyncInfo is never sent to a
\* peer registered in light mode, although outbound_to_inbound outlives the
\* registration of the inbound peer it names.
LightPeersNeverSync ==
    \A a \in actions :
        a.message.kind = "SyncInfo" /\ Registered(a.target)
            => peers[a.target].mode = "Full"

\* The two records of one forwarded request stay a pair: when an id has both a
\* requester (request_tracker) and a timed target (latency_tracker), they are
\* different peers, so no latency sample is taken of the peer that asked.
RequesterIsNotTarget ==
    \A id \in ModifierId :
        request_tracker[id] # None => latency_tracker.pending[id] # request_tracker[id]

\* The other half of a pairing may be stale, but never misleads: its key is a
\* connected outbound peer, and the peer it names is gone for good or is a full
\* inbound peer (ids are never reused, main.rs:238 and main.rs:299).
OutboundPartners ==
    \A o \in PeerId :
        LET i == sync_tracker.outbound_to_inbound[o]
        IN  i # None => /\ IsPeer(o, "Outbound")
                        /\ i \in issued
                        /\ Registered(i) => IsPeer(i, "Inbound") /\ peers[i].mode = "Full"

\* The pairs <<id, peer>> a table of peers stands for.
Entries(map) == {<<id, map[id]>> : id \in {i \in ModifierId : map[i] # None}}

\* The pairs <<id, target>> of the messages of one kind in a set of actions.
SentPairs(sent, kind) ==
    {x \in ModifierId \X PeerId :
        \E a \in sent : /\ a.target = x[2]
                        /\ a.message.kind = kind
                        /\ x[1] \in a.message.ids}

AbstractRelay == INSTANCE Relay WITH
    members <- {p \in PeerId : Registered(p)},
    offers <- Entries(inv_table),
    wants <- Entries(request_tracker),
    open <- Entries(latency_tracker.pending),
    asks <- SentPairs(actions, "ModifierRequest"),
    deliveries <- SentPairs(actions, "ModifierResponse")

\* Modifier traffic crosses the proxy as Relay.tla promises: requests go to a peer
\* that announced the modifier, a response to every peer that is owed it and only
\* once, the record of who owes it (latency_tracker.pending) is settled with it, and a
\* peer that leaves takes its announcements, its claims and the requests it was sent
\* with it and touches no claim that waits for another peer (handle_event and the
\* tables it keeps).
ImplementsRelay == AbstractRelay!Spec

----------------------------------------------------------------------------
(* The inductive invariant *)

\* Registered peers hold issued ids, and outbound ones are full.
RegistryInv ==
    \A p \in PeerId :
        Registered(p) => p \in issued /\ (IsPeer(p, "Outbound") => peers[p].mode = "Full")

\* Actions target issued ids.
ActionsInv == \A a \in actions : a.target \in issued

\* What every call of the router preserves: the properties above together with what
\* their preservation rests on.
RouterInv ==
    /\ TypeOK
    /\ RegistryInv
    /\ ActionsInv
    /\ NonSyncActionsTargetRegistered
    /\ TablesMentionRegistered
    /\ PartnersAgree
    /\ OutboundPartners
    /\ LightPeersNeverSync
    /\ RequesterIsNotTarget

=============================================================================
