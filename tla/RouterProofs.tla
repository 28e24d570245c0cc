---------------------------- MODULE RouterProofs ----------------------------
(***************************************************************************)
(* Proofs about Router.tla, for any sets of peers, modifiers and modifier  *)
(* types.                                                                  *)
(***************************************************************************)
EXTENDS Router, TLAPS

\* First-order reasoning is enough for most leaves; the ones that need arithmetic, or
\* what the backend knows of functions and sequences, cite SMT.
USE ZenonT(30)

----------------------------------------------------------------------------
(* The tables *)

Map(K) == [K -> PeerId \cup {None}]

\* The map operations keep a map of peers a map of peers.
LEMMA MapOps ==
    ASSUME NEW K, NEW map \in Map(K)
    PROVE  /\ EmptyMap(K) \in Map(K)
           /\ \A k : Remove(map, k) \in Map(K)
           /\ \A v : RetainNot(map, v) \in Map(K)
           /\ \A S : RemoveAll(map, S) \in Map(K)
           /\ \A S : \A p \in PeerId : InsertAll(map, S, p) \in Map(K)
    BY DEF Map, EmptyMap, Remove, RetainNot, RemoveAll, InsertAll

SyncType == [inbound_to_outbound : Map(PeerId), outbound_to_inbound : Map(PeerId)]

LatencyType == [pending : Map(ModifierId), peers : SUBSET PeerId]

\* The initial state satisfies the invariant.
LEMMA InitInv == RouterInit => RouterInv
    BY NoneIsNoPeer, SMTT(30) DEF RouterInit, RouterInv, TypeOK, RegistryInv, ActionsInv,
       NonSyncActionsTargetRegistered, TablesMentionRegistered, PartnersAgree, OutboundPartners,
       LightPeersNeverSync, RequesterIsNotTarget, EmptyMap, Registered, IsPeer

\* register_peer touches the registry only; its id is new.
LEMMA RegisterInv ==
    ASSUME RouterInv, NEW p \in PeerId, NEW d \in Direction, NEW m \in ProxyMode,
           RegisterPeer(p, d, m)
    PROVE  RouterInv'
<1> DEFINE entry == [direction |-> d, mode |-> m]
<1>1. entry \in PeerEntry /\ entry # None
  BY NoneIsNoEntry, SMTT(30) DEF PeerEntry
<1>2. /\ peers' = [peers EXCEPT ![p] = entry]
      /\ issued' = issued \cup {p}
      /\ p \notin issued
      /\ peers'[p] = entry
      /\ \A q \in PeerId : q # p => peers'[q] = peers[q]
      /\ UNCHANGED <<inv_table, request_tracker, sync_tracker, latency_tracker, actions>>
  BY DEF RegisterPeer, tables, RouterInv, TypeOK
<1>3. peers[p] = None
  BY <1>2 DEF RouterInv, RegistryInv, Registered
<1>4. TypeOK'
  BY <1>1, <1>2 DEF RouterInv, TypeOK
<1>5. \A q \in PeerId : Registered(q) => Registered(q)' /\ peers'[q] = peers[q]
  BY <1>2, <1>3 DEF Registered
<1>6. RegistryInv'
  BY <1>1, <1>2, <1>5, SMTT(30) DEF RouterInv, RegistryInv, Registered, IsPeer, RegisterPeer
<1>7. ActionsInv' /\ NonSyncActionsTargetRegistered'
  BY <1>2, <1>5 DEF RouterInv, TypeOK, ActionsInv, NonSyncActionsTargetRegistered, Action
<1>8. TablesMentionRegistered'
  BY <1>2, <1>5, SMTT(30) DEF RouterInv, TypeOK, TablesMentionRegistered
<1>9. PartnersAgree'
  BY <1>2, <1>5, SMTT(30) DEF RouterInv, TypeOK, PartnersAgree, IsPeer
<1>10. OutboundPartners'
  BY <1>2, <1>5, SMTT(30) DEF RouterInv, TypeOK, OutboundPartners, IsPeer, Registered
<1>11. LightPeersNeverSync'
  BY <1>2, <1>5, SMTT(30) DEF RouterInv, TypeOK, LightPeersNeverSync, ActionsInv, Registered, Action
<1>12. RequesterIsNotTarget'
  BY <1>2 DEF RouterInv, RequesterIsNotTarget
<1> QED
  BY <1>4, <1>6, <1>7, <1>8, <1>9, <1>10, <1>11, <1>12 DEF RouterInv

\* Steps that leave the registry and the tables alone keep the invariant when they
\* send no SyncInfo and send to registered peers.
LEMMA QuietInv ==
    ASSUME RouterInv, UNCHANGED <<peers, tables, issued>>, actions' \subseteq Action,
           \A a \in actions' : Registered(a.target) /\ a.message.kind # "SyncInfo"
    PROVE  RouterInv'
<1>1. TypeOK' /\ RegistryInv'
  BY DEF RouterInv, TypeOK, RegistryInv, Registered, IsPeer, tables
<1>2. ActionsInv' /\ LightPeersNeverSync' /\ NonSyncActionsTargetRegistered'
  BY DEF RouterInv, TypeOK, RegistryInv, ActionsInv, LightPeersNeverSync,
         NonSyncActionsTargetRegistered, Registered, Action
<1>3. TablesMentionRegistered' /\ PartnersAgree' /\ OutboundPartners' /\ RequesterIsNotTarget'
  BY DEF RouterInv, TablesMentionRegistered, PartnersAgree, OutboundPartners,
         RequesterIsNotTarget, Registered, IsPeer, tables
<1> QED
  BY <1>1, <1>2, <1>3 DEF RouterInv

\* The peers a message is broadcast to are registered.
LEMMA OppositeRegistered ==
    ASSUME NEW source \in PeerId
    PROVE  \A p \in OppositePeers(source) : p \in PeerId /\ Registered(p)
    BY DEF OppositePeers, inbound_peers, outbound_peers, IsPeer

\* PeerConnected, Peers and messages of unregistered peers send nothing; GetPeers and
\* unknown messages leave the tables alone.
LEMMA PlainInv ==
    ASSUME RouterInv, NEW source \in PeerId, NEW m \in ProtocolMessage,
           \/ PeerConnected(source)
           \/ RouteUnregistered(source)
           \/ Registered(source) /\ RouteGetPeers(source)
           \/ RoutePeers(source)
           \/ m.kind = "Unknown" /\ RouteUnknown(source, m)
    PROVE  RouterInv'
<1>1. CASE PeerConnected(source) \/ RouteUnregistered(source) \/ RoutePeers(source)
  BY <1>1, QuietInv DEF PeerConnected, RouteUnregistered, RoutePeers
<1>2. CASE Registered(source) /\ RouteGetPeers(source)
  <2>1. [kind |-> "Peers"] \in ProtocolMessage
    BY DEF ProtocolMessage, OpaqueMessage
  <2> QED
    BY <1>2, <2>1, QuietInv, SMTT(30) DEF RouteGetPeers, Send, Action
<1>3. CASE m.kind = "Unknown" /\ RouteUnknown(source, m)
  <2>1. \A a \in actions' : /\ a \in Action
                            /\ Registered(a.target)
                            /\ a.message.kind = "Unknown"
    BY <1>3, OppositeRegistered, SMTT(30) DEF RouteUnknown, Send, Action
  <2> QED
    BY <1>3, <2>1, QuietInv DEF RouteUnknown
<1> QED
  BY <1>1, <1>2, <1>3

\* Steps on the modifier tables, which leave the registry and the pairings alone.
LEMMA ModifierInv ==
    ASSUME RouterInv, UNCHANGED <<peers, issued, sync_tracker>>,
           actions' \subseteq Action,
           \A a \in actions' : Registered(a.target) /\ a.message.kind # "SyncInfo",
           inv_table' \in Map(ModifierId), request_tracker' \in Map(ModifierId),
           latency_tracker' \in LatencyType,
           \A id \in ModifierId :
              /\ inv_table'[id] # None => Registered(inv_table'[id])
              /\ request_tracker'[id] # None =>
                    /\ Registered(request_tracker'[id])
                    /\ latency_tracker'.pending[id] # request_tracker'[id]
              /\ latency_tracker'.pending[id] # None =>
                    Registered(latency_tracker'.pending[id]),
           \A p \in latency_tracker'.peers : Registered(p)
    PROVE  RouterInv'
<1>1. TypeOK' /\ RegistryInv'
  BY DEF RouterInv, TypeOK, RegistryInv, Registered, IsPeer, Map, LatencyType
<1>2. ActionsInv' /\ LightPeersNeverSync' /\ NonSyncActionsTargetRegistered'
  BY DEF RouterInv, TypeOK, RegistryInv, ActionsInv, LightPeersNeverSync,
         NonSyncActionsTargetRegistered, Registered, Action
<1>3. TablesMentionRegistered' /\ RequesterIsNotTarget'
  BY DEF RouterInv, TablesMentionRegistered, RequesterIsNotTarget, Registered
<1>4. PartnersAgree' /\ OutboundPartners'
  BY DEF RouterInv, PartnersAgree, OutboundPartners, Registered, IsPeer
<1> QED
  BY <1>1, <1>2, <1>3, <1>4 DEF RouterInv

\* An action is what Send builds.
LEMMA SendAction ==
    ASSUME NEW p \in PeerId, NEW m \in ProtocolMessage
    PROVE  Send(p, m) \in Action /\ Send(p, m).target = p /\ Send(p, m).message = m
    BY DEF Send, Action

\* Inv: the announcer is registered.
LEMMA InvStepInv ==
    ASSUME RouterInv, NEW source \in PeerId, NEW m \in ModifierMessage,
           Registered(source), m.kind = "Inv", RouteInv(source, m)
    PROVE  RouterInv'
<1>1. \A a \in actions' : a \in Action /\ Registered(a.target) /\ a.message.kind = "Inv"
  BY OppositeRegistered, SMTT(30) DEF RouteInv, Send, Action, ProtocolMessage
<1>2. /\ inv_table' \in Map(ModifierId)
      /\ \A id \in ModifierId : inv_table'[id] \in {inv_table[id], source}
  BY DEF RouteInv, InvRecord, InsertAll, Map, RouterInv, TypeOK
<1>3. UNCHANGED <<peers, issued, sync_tracker, request_tracker, latency_tracker>>
  BY DEF RouteInv
<1>4. request_tracker \in Map(ModifierId) /\ latency_tracker \in LatencyType
  BY DEF RouterInv, TypeOK, Map, LatencyType
<1> QED
  BY <1>1, <1>2, <1>3, <1>4, ModifierInv
  DEF RouterInv, TablesMentionRegistered, RequesterIsNotTarget

\* ModifierRequest: the requester and the announcer it is sent to are registered and
\* differ.
LEMMA RequestStepInv ==
    ASSUME RouterInv, NEW source \in PeerId, NEW m \in ModifierMessage,
           Registered(source), m.kind = "ModifierRequest",
           RouteModifierRequest(source, m)
    PROVE  RouterInv'
<1> DEFINE asked == {id \in m.ids : inv_table[id] \notin {None, source}}
<1>0. m.ids \subseteq ModifierId
  BY DEF ModifierMessage
<1>1. \A id \in asked : /\ id \in ModifierId
                        /\ inv_table[id] \in PeerId
                        /\ inv_table[id] # None
                        /\ inv_table[id] # source
                        /\ Registered(inv_table[id])
  BY <1>0 DEF RouterInv, TypeOK, TablesMentionRegistered
<1>2. \A a \in actions' :
         a \in Action /\ Registered(a.target) /\ a.message.kind = "ModifierRequest"
  <2> TAKE a \in actions'
  <2>1. PICK id \in asked : a = Send(inv_table[id], Single(m, id))
    BY DEF RouteModifierRequest, SendEach
  <2>2. Single(m, id) \in ProtocolMessage /\ Single(m, id).kind = "ModifierRequest"
    BY <1>1 DEF Single, ModifierMessage, ProtocolMessage
  <2>3. a \in Action /\ a.target = inv_table[id] /\ a.message = Single(m, id)
    BY <1>1, <2>1, <2>2, SendAction, SMTT(30)
  <2> QED
    BY <1>1, <2>2, <2>3 DEF Registered
<1>3. /\ request_tracker' \in Map(ModifierId)
      /\ \A id \in ModifierId :
            request_tracker'[id] = IF id \in asked THEN source ELSE request_tracker[id]
  BY DEF RouteModifierRequest, RequestRecord, InsertAll, Map, RouterInv, TypeOK
<1>4. /\ latency_tracker' \in LatencyType
      /\ latency_tracker'.peers = latency_tracker.peers
      /\ \A id \in ModifierId : latency_tracker'.pending[id] =
            IF id \in asked THEN inv_table[id] ELSE latency_tracker.pending[id]
  BY <1>1 DEF RouteModifierRequest, TimingRecord, Map, LatencyType, RouterInv, TypeOK
<1>5. UNCHANGED <<peers, issued, sync_tracker, inv_table>>
  BY DEF RouteModifierRequest
<1>6. inv_table \in Map(ModifierId)
  BY DEF RouterInv, TypeOK, Map
<1>7. \A id \in ModifierId :
         /\ inv_table'[id] # None => Registered(inv_table'[id])
         /\ request_tracker'[id] # None =>
               /\ Registered(request_tracker'[id])
               /\ latency_tracker'.pending[id] # request_tracker'[id]
         /\ latency_tracker'.pending[id] # None =>
               Registered(latency_tracker'.pending[id])
  BY <1>1, <1>3, <1>4, <1>5
  DEF RouterInv, TablesMentionRegistered, RequesterIsNotTarget
<1>8. \A p \in latency_tracker'.peers : Registered(p)
  BY <1>4 DEF RouterInv, TablesMentionRegistered
<1> QED
  BY <1>2, <1>3, <1>4, <1>5, <1>6, <1>7, <1>8, ModifierInv

\* ModifierResponse: entries only go away, and the peers timed were pending targets.
LEMMA ResponseStepInv ==
    ASSUME RouterInv, NEW source \in PeerId, NEW m \in ModifierMessage,
           m.kind = "ModifierResponse", RouteModifierResponse(source, m)
    PROVE  RouterInv'
<1> DEFINE served == {id \in m.ids : request_tracker[id] # None}
<1>0. m.ids \subseteq ModifierId
  BY DEF ModifierMessage
<1>1. \A id \in served : /\ id \in ModifierId
                         /\ request_tracker[id] \in PeerId
                         /\ Registered(request_tracker[id])
  BY <1>0 DEF RouterInv, TypeOK, TablesMentionRegistered
<1>2. \A a \in actions' :
         a \in Action /\ Registered(a.target) /\ a.message.kind = "ModifierResponse"
  <2> TAKE a \in actions'
  <2>1. PICK id \in served : a = Send(request_tracker[id], Single(m, id))
    BY DEF RouteModifierResponse, SendEach
  <2>2. Single(m, id) \in ProtocolMessage /\ Single(m, id).kind = "ModifierResponse"
    BY <1>1 DEF Single, ModifierMessage, ProtocolMessage
  <2>3. a \in Action /\ a.target = request_tracker[id] /\ a.message = Single(m, id)
    BY <1>1, <2>1, <2>2, SendAction, SMTT(30)
  <2> QED
    BY <1>1, <2>2, <2>3 DEF Registered
<1>3. /\ request_tracker' \in Map(ModifierId)
      /\ \A id \in ModifierId : request_tracker'[id] \in {request_tracker[id], None}
  BY DEF RouteModifierResponse, RequestFulfill, RemoveAll, Map, RouterInv, TypeOK
<1>4. /\ latency_tracker'.pending = RemoveAll(latency_tracker.pending, m.ids)
      /\ latency_tracker'.peers = latency_tracker.peers \cup
             ({latency_tracker.pending[id] : id \in m.ids} \ {None})
      /\ latency_tracker' = [pending |-> latency_tracker'.pending,
                             peers |-> latency_tracker'.peers]
  BY DEF RouteModifierResponse, TimingResponse
<1>5. /\ latency_tracker'.pending \in Map(ModifierId)
      /\ \A id \in ModifierId :
            latency_tracker'.pending[id] \in {latency_tracker.pending[id], None}
  BY <1>4, SMTT(30) DEF RemoveAll, Map, RouterInv, TypeOK
<1>6. \A p \in latency_tracker'.peers : p \in PeerId /\ Registered(p)
  BY <1>0, <1>4, SMTT(30) DEF RouterInv, TypeOK, TablesMentionRegistered
<1>7. latency_tracker' \in LatencyType
  BY <1>4, <1>5, <1>6 DEF LatencyType
<1>8. UNCHANGED <<peers, issued, sync_tracker, inv_table>> /\ inv_table \in Map(ModifierId)
  BY DEF RouteModifierResponse, RouterInv, TypeOK, Map
<1>9. \A id \in ModifierId :
         /\ inv_table'[id] # None => Registered(inv_table'[id])
         /\ request_tracker'[id] # None =>
               /\ Registered(request_tracker'[id])
               /\ latency_tracker'.pending[id] # request_tracker'[id]
         /\ latency_tracker'.pending[id] # None =>
               Registered(latency_tracker'.pending[id])
  BY <1>3, <1>5, <1>8 DEF RouterInv, TablesMentionRegistered, RequesterIsNotTarget
<1> QED
  BY <1>2, <1>3, <1>6, <1>7, <1>8, <1>9, ModifierInv

\* SyncInfo: a partner is chosen among the outbound peers that have none.
LEMMA SyncStepInv ==
    ASSUME RouterInv, NEW source \in PeerId, NEW m \in ProtocolMessage,
           Registered(source), m.kind = "SyncInfo", RouteSyncInfo(source, m)
    PROVE  RouterInv'
<1> DEFINE i2o == sync_tracker.inbound_to_outbound
           o2i == sync_tracker.outbound_to_inbound
<1>1. /\ UNCHANGED <<peers, inv_table, request_tracker, latency_tracker, issued>>
      /\ i2o \in Map(PeerId) /\ o2i \in Map(PeerId)
  BY DEF RouteSyncInfo, RouterInv, TypeOK, Map
<1>2. RegistryInv' /\ RequesterIsNotTarget'
  BY <1>1 DEF RouterInv, RegistryInv, RequesterIsNotTarget, Registered, IsPeer
<1>3. CASE peers[source].mode = "Light" /\ actions' = {} /\ UNCHANGED sync_tracker
  BY <1>1, <1>3, QuietInv DEF tables
<1>4. CASE FreeOutbound = {} /\ actions' = {} /\ UNCHANGED sync_tracker
  BY <1>1, <1>4, QuietInv DEF tables
<1>5. CASE /\ IsPeer(source, "Inbound") /\ peers[source].mode = "Full"
           /\ \E o \in FreeOutbound : /\ sync_tracker' = SyncPair(sync_tracker, source, o)
                                      /\ actions' = {Send(o, m)}
  <2>1. PICK o \in FreeOutbound : /\ sync_tracker' = SyncPair(sync_tracker, source, o)
                                  /\ actions' = {Send(o, m)}
    BY <1>5
  <2>2. o \in PeerId /\ IsPeer(o, "Outbound") /\ Registered(o) /\ o2i[o] = None
    BY DEF FreeOutbound, outbound_peers, IsPeer
  <2>3. /\ sync_tracker' \in SyncType
        /\ sync_tracker'.inbound_to_outbound = [i2o EXCEPT ![source] = o]
        /\ sync_tracker'.outbound_to_inbound = [o2i EXCEPT ![o] = source]
    BY <1>1, <2>1, <2>2 DEF SyncPair, SyncType, Map
  <2>4. \A a \in actions' : a \in Action /\ a.target = o /\ a.message = m
    BY <2>1, <2>2, SendAction, SMTT(30)
  <2>5. TypeOK'
    BY <1>1, <2>3, <2>4 DEF RouterInv, TypeOK, SyncType, Map
  <2>6. ActionsInv' /\ LightPeersNeverSync' /\ NonSyncActionsTargetRegistered'
    BY <1>1, <2>2, <2>4
    DEF ActionsInv, LightPeersNeverSync, NonSyncActionsTargetRegistered, RouterInv,
        RegistryInv, Registered, IsPeer
  <2>7. PartnersAgree'
    BY <1>1, <1>5, <2>2, <2>3, NoneIsNoPeer, SMTT(30)
    DEF PartnersAgree, RouterInv, Registered, IsPeer, Map
  <2>8. OutboundPartners'
    BY <1>1, <1>5, <2>2, <2>3, NoneIsNoPeer, SMTT(30)
    DEF OutboundPartners, RouterInv, RegistryInv, Registered, IsPeer, Map
  <2>9. TablesMentionRegistered'
    BY <1>1, <2>2, <2>3, SMTT(30) DEF TablesMentionRegistered, RouterInv, Registered, Map
  <2> QED
    BY <1>2, <2>5, <2>6, <2>7, <2>8, <2>9 DEF RouterInv
<1>6. CASE SyncFromOutbound(source, m)
  <2>1. UNCHANGED sync_tracker
    BY <1>6 DEF SyncFromOutbound
  <2>2. \A a \in actions' : /\ a \in Action
                            /\ a.target = o2i[source] /\ a.message = m
                            /\ a.target # None
    <3> TAKE a \in actions'
    <3>1. o2i[source] # None /\ a = Send(o2i[source], m)
      BY <1>6 DEF SyncFromOutbound
    <3>2. o2i[source] \in PeerId
      BY <1>1, <3>1 DEF Map
    <3> QED
      BY <3>1, <3>2, SendAction, SMTT(30)
  <2>3. TypeOK'
    BY <1>1, <2>1, <2>2 DEF RouterInv, TypeOK
  <2>4. ActionsInv' /\ LightPeersNeverSync' /\ NonSyncActionsTargetRegistered'
    BY <1>1, <2>2
    DEF ActionsInv, LightPeersNeverSync, NonSyncActionsTargetRegistered, RouterInv,
        OutboundPartners, Registered
  <2>5. PartnersAgree' /\ OutboundPartners' /\ TablesMentionRegistered'
    BY <1>1, <2>1, SMTT(30)
    DEF RouterInv, PartnersAgree, OutboundPartners, TablesMentionRegistered, Registered, IsPeer
  <2> QED
    BY <1>2, <2>3, <2>4, <2>5 DEF RouterInv
<1> QED
  BY <1>3, <1>4, <1>5, <1>6 DEF RouteSyncInfo, SyncFromInbound, IsPeer

\* PeerDisconnected: every table forgets the peer before the registry does.
LEMMA DisconnectInv ==
    ASSUME RouterInv, NEW p \in PeerId, PeerDisconnected(p)
    PROVE  RouterInv'
<1> DEFINE i2o == sync_tracker.inbound_to_outbound
           o2i == sync_tracker.outbound_to_inbound
           asInbound == Remove(o2i, i2o[p])
           inb == asInbound[p]
<1>1. /\ inv_table' = RetainNot(inv_table, p)
      /\ request_tracker' = RetainNot(request_tracker, p)
      /\ latency_tracker' = [pending |-> RetainNot(latency_tracker.pending, p),
                             peers |-> latency_tracker.peers \ {p}]
      /\ peers' = Remove(peers, p)
      /\ actions' = {}
      /\ issued' = issued
  BY DEF PeerDisconnected, InvPurge, RequestPurge, TimingPurge
<1>2. /\ sync_tracker'.inbound_to_outbound = Remove(Remove(i2o, p), inb)
      /\ sync_tracker'.outbound_to_inbound = Remove(asInbound, p)
      /\ sync_tracker' = [inbound_to_outbound |-> Remove(Remove(i2o, p), inb),
                          outbound_to_inbound |-> Remove(asInbound, p)]
  BY DEF PeerDisconnected, SyncPurge
<1>3. i2o \in Map(PeerId) /\ o2i \in Map(PeerId)
  BY DEF RouterInv, TypeOK, Map
<1>4. \A q \in PeerId : peers'[q] = IF q = p THEN None ELSE peers[q]
  BY <1>1 DEF Remove, RouterInv, TypeOK
<1>5. \A i \in PeerId : sync_tracker'.inbound_to_outbound[i] =
                           IF i \in {p, inb} THEN None ELSE i2o[i]
  BY <1>2, <1>3 DEF Remove, Map
<1>6. \A o \in PeerId : sync_tracker'.outbound_to_inbound[o] =
                           IF o \in {p, i2o[p]} THEN None ELSE o2i[o]
  BY <1>2, <1>3 DEF Remove, Map
<1>7. TypeOK'
  <2>1. sync_tracker' \in SyncType
    BY <1>2, <1>3, MapOps DEF SyncType
  <2>2. latency_tracker' \in LatencyType
    BY <1>1 DEF RetainNot, LatencyType, Map, RouterInv, TypeOK
  <2>3. /\ inv_table' \in Map(ModifierId) /\ request_tracker' \in Map(ModifierId)
        /\ peers' \in [PeerId -> PeerEntry \cup {None}]
    BY <1>1 DEF RetainNot, Remove, Map, RouterInv, TypeOK
  <2> QED
    BY <1>1, <2>1, <2>2, <2>3 DEF TypeOK, RouterInv, SyncType, LatencyType, Map
<1>8. RegistryInv' /\ ActionsInv' /\ LightPeersNeverSync' /\ NonSyncActionsTargetRegistered'
  BY <1>1, <1>4
  DEF RouterInv, RegistryInv, ActionsInv, LightPeersNeverSync,
      NonSyncActionsTargetRegistered, Registered, IsPeer
\* A partner that is left is neither p nor the partner of p.
<1>9. \A i \in PeerId \ {p, inb} : i2o[i] # None =>
         /\ i2o[i] \in PeerId
         /\ i2o[i] \notin {p, i2o[p]}
         /\ IsPeer(i, "Inbound") /\ IsPeer(i2o[i], "Outbound") /\ o2i[i2o[i]] = i
  <2> TAKE i \in PeerId \ {p, inb}
  <2> HAVE i2o[i] # None
  <2>1. i2o[i] \in PeerId
    BY <1>3 DEF Map
  <2>2. IsPeer(i, "Inbound") /\ IsPeer(i2o[i], "Outbound") /\ o2i[i2o[i]] = i
    BY DEF RouterInv, PartnersAgree
  <2>3. i2o[i] # i2o[p]
    BY <2>2 DEF RouterInv, PartnersAgree
  <2>4. i2o[i] # p
    <3> SUFFICES ASSUME i2o[i] = p PROVE FALSE
      OBVIOUS
    <3>1. o2i[p] = i /\ peers[p].direction = "Outbound"
      BY <2>2 DEF IsPeer
    <3>2. i2o[p] # p
      BY <3>1, NoneIsNoPeer DEF RouterInv, PartnersAgree, IsPeer
    <3>3. asInbound[p] = i
      BY <1>3, <3>1, <3>2 DEF Remove, Map
    <3> QED
      BY <3>3
  <2> QED
    BY <2>1, <2>2, <2>3, <2>4
<1>10. PartnersAgree'
  BY <1>4, <1>5, <1>6, <1>9, SMTT(30) DEF PartnersAgree, IsPeer, Registered
<1>11. OutboundPartners'
  BY <1>1, <1>3, <1>4, <1>6, SMTT(30) DEF OutboundPartners, RouterInv, IsPeer, Registered, Map
\* What is left in the modifier tables is what was there and is not p.
<1>12. \A id \in ModifierId :
          /\ inv_table'[id] = IF inv_table[id] = p THEN None ELSE inv_table[id]
          /\ request_tracker'[id] =
                IF request_tracker[id] = p THEN None ELSE request_tracker[id]
          /\ latency_tracker'.pending[id] =
                IF latency_tracker.pending[id] = p THEN None ELSE latency_tracker.pending[id]
  <2>1. /\ DOMAIN inv_table = ModifierId
        /\ DOMAIN request_tracker = ModifierId
        /\ DOMAIN latency_tracker.pending = ModifierId
    BY DEF RouterInv, TypeOK
  <2>2. latency_tracker'.pending = RetainNot(latency_tracker.pending, p)
    BY <1>1
  <2> QED
    BY <1>1, <2>1, <2>2 DEF RetainNot
<1>13. RequesterIsNotTarget'
  BY <1>12 DEF RouterInv, RequesterIsNotTarget
<1>14. TablesMentionRegistered'
  <2>1. \A id \in ModifierId :
          /\ inv_table'[id] # None => peers'[inv_table'[id]] # None
          /\ request_tracker'[id] # None => peers'[request_tracker'[id]] # None
          /\ latency_tracker'.pending[id] # None =>
                peers'[latency_tracker'.pending[id]] # None
    BY <1>4, <1>12, SMTT(30) DEF RouterInv, TypeOK, TablesMentionRegistered, Registered
  <2>2. \A q \in latency_tracker'.peers : Registered(q)'
    BY <1>1, <1>4 DEF RouterInv, TypeOK, TablesMentionRegistered, Registered
  <2>3. \A i \in PeerId :
          LET o == sync_tracker'.inbound_to_outbound[i]
          IN  o # None => Registered(i)' /\ peers'[o] # None
    BY <1>4, <1>5, <1>9, SMTT(30) DEF IsPeer, Registered
  <2> QED
    BY <2>1, <2>2, <2>3 DEF TablesMentionRegistered, Registered
<1> QED
  BY <1>7, <1>8, <1>10, <1>11, <1>13, <1>14 DEF RouterInv

----------------------------------------------------------------------------
(* The theorems *)

\* Every call of the router, and stuttering, keeps the invariant.
LEMMA NextInv ==
    ASSUME RouterInv, [RouterNext]_routerVars
    PROVE  RouterInv'
<1>1. CASE UNCHANGED routerVars
  <2>1. UNCHANGED <<peers, tables, issued>> /\ UNCHANGED actions
    BY <1>1 DEF routerVars
  <2>2. /\ TypeOK' /\ RegistryInv' /\ ActionsInv' /\ LightPeersNeverSync'
        /\ NonSyncActionsTargetRegistered'
    BY <2>1 DEF RouterInv, TypeOK, RegistryInv, ActionsInv, LightPeersNeverSync,
                NonSyncActionsTargetRegistered, Registered, IsPeer, tables
  <2>3. /\ TablesMentionRegistered' /\ PartnersAgree'
        /\ OutboundPartners' /\ RequesterIsNotTarget'
    BY <2>1, SMTT(30) DEF RouterInv, TablesMentionRegistered, PartnersAgree, OutboundPartners,
                RequesterIsNotTarget, Registered, IsPeer, tables
  <2> QED
    BY <2>2, <2>3 DEF RouterInv
<1>2. CASE \E p \in PeerId, d \in Direction, m \in ProxyMode : RegisterPeer(p, d, m)
  BY <1>2, RegisterInv
<1>3. ASSUME NEW e \in ProtocolEvent, HandleEvent(e)
      PROVE  RouterInv'
  <2>0. e.peer_id \in PeerId /\ (e.type = "Message" => e.message \in ProtocolMessage)
    BY DEF ProtocolEvent
  <2>1. CASE e.type = "PeerConnected" /\ PeerConnected(e.peer_id)
    <3>1. [kind |-> "Peers"] \in ProtocolMessage
      BY DEF ProtocolMessage, OpaqueMessage
    <3> QED
      BY <2>0, <2>1, <3>1, PlainInv
  <2>2. CASE e.type = "PeerDisconnected" /\ PeerDisconnected(e.peer_id)
    BY <2>0, <2>2, DisconnectInv
  <2>3. CASE e.type = "Message" /\ RouteMessage(e.peer_id, e.message)
    <3> DEFINE s == e.peer_id
               m == e.message
    <3>1. s \in PeerId /\ m \in ProtocolMessage
      BY <2>0, <2>3
    <3>2. m.kind \in {"Inv", "ModifierRequest", "ModifierResponse"}
             => m \in ModifierMessage
      BY <3>1 DEF ProtocolMessage, OpaqueMessage
    <3>3. RouteMessage(s, m)
      BY <2>3
    <3> HIDE DEF s, m
    <3>4. CASE Registered(s) /\ m.kind = "Inv" /\ RouteInv(s, m)
      BY <3>1, <3>2, <3>4, InvStepInv
    <3>5. CASE Registered(s) /\ m.kind = "ModifierRequest" /\ RouteModifierRequest(s, m)
      BY <3>1, <3>2, <3>5, RequestStepInv
    <3>6. CASE m.kind = "ModifierResponse" /\ RouteModifierResponse(s, m)
      BY <3>1, <3>2, <3>6, ResponseStepInv
    <3>7. CASE Registered(s) /\ m.kind = "SyncInfo" /\ RouteSyncInfo(s, m)
      BY <3>1, <3>7, SyncStepInv
    <3> QED
      BY <3>1, <3>3, <3>4, <3>5, <3>6, <3>7, PlainInv DEF RouteMessage
  <2> QED
    BY <1>3, <2>1, <2>2, <2>3 DEF HandleEvent
<1> QED
  BY <1>1, <1>2, <1>3 DEF RouterNext

\* The inductive invariant holds in every reachable state of the router.
THEOREM RouterInvariant == RouterSpec => []RouterInv
  BY InitInv, NextInv, PTL DEF RouterSpec

\* The router's variables keep their types.
THEOREM RouterTypeCorrect == RouterSpec => []TypeOK
<1>1. RouterInv => TypeOK
  BY DEF RouterInv
<1> QED
  BY <1>1, RouterInvariant, PTL

\* No table but the stale half of a pairing ever mentions a departed peer
\* (handle_event, PeerDisconnected).
THEOREM TablesConsistent == RouterSpec => []TablesMentionRegistered
<1>1. RouterInv => TablesMentionRegistered
  BY DEF RouterInv
<1> QED
  BY <1>1, RouterInvariant, PTL

\* No message but SyncInfo is ever addressed to a departed peer (handle_event).
THEOREM ActionTargets == RouterSpec => []NonSyncActionsTargetRegistered
<1>1. RouterInv => NonSyncActionsTargetRegistered
  BY DEF RouterInv
<1> QED
  BY <1>1, RouterInvariant, PTL

\* The partner of an inbound peer is mapped back to it (SyncTracker).
THEOREM PartnersConsistent == RouterSpec => []PartnersAgree
<1>1. RouterInv => PartnersAgree
  BY DEF RouterInv
<1> QED
  BY <1>1, RouterInvariant, PTL

\* SyncInfo never reaches a light peer (route_message, SyncInfo).
THEOREM LightIsolation == RouterSpec => []LightPeersNeverSync
<1>1. RouterInv => LightPeersNeverSync
  BY DEF RouterInv
<1> QED
  BY <1>1, RouterInvariant, PTL

\* A pending request is never timed against its own requester.
THEOREM RequestPairs == RouterSpec => []RequesterIsNotTarget
<1>1. RouterInv => RequesterIsNotTarget
  BY DEF RouterInv
<1> QED
  BY <1>1, RouterInvariant, PTL

----------------------------------------------------------------------------
(* The router implements Relay.tla, and what Relay promises therefore      *)
(* holds of the router.                                                    *)


Members == {p \in PeerId : Registered(p)}

----------------------------------------------------------------------------
(* The pairs a table stands for *)

\* A pair is in the entries of a table just when the table maps the id to the peer.
LEMMA InEntries ==
    ASSUME NEW map \in Map(ModifierId), NEW id \in ModifierId, NEW p \in PeerId
    PROVE  <<id, p>> \in Entries(map) <=> map[id] = p
    BY NoneIsNoPeer DEF Entries, Map

\* The entries of a table of peers are pairs of an id and a peer.
LEMMA EntriesType ==
    ASSUME NEW map \in Map(ModifierId)
    PROVE  Entries(map) \subseteq ModifierId \X PeerId
    BY SMTT(30) DEF Entries, Map

\* retain(|_, v| *v != p) drops the pairs of p.
LEMMA EntriesRetain ==
    ASSUME NEW map \in Map(ModifierId), NEW p \in PeerId
    PROVE  Entries(RetainNot(map, p)) = {x \in Entries(map) : x[2] # p}
<1>1. RetainNot(map, p) \in Map(ModifierId)
  BY MapOps
<1>2. ASSUME NEW id \in ModifierId, NEW q \in PeerId
      PROVE  <<id, q>> \in Entries(RetainNot(map, p))
                <=> <<id, q>> \in Entries(map) /\ q # p
  <2>1. RetainNot(map, p)[id] = q <=> map[id] = q /\ q # p
    BY NoneIsNoPeer DEF RetainNot, Map
  <2> QED
    BY <1>1, <2>1, InEntries
<1> QED
  BY <1>1, <1>2, EntriesType, SMTT(30)

\* Inserting p under `ids` adds those pairs, and touches no other id.
LEMMA EntriesInsert ==
    ASSUME NEW map \in Map(ModifierId), NEW ids \in SUBSET ModifierId, NEW p \in PeerId
    PROVE  /\ Entries(InsertAll(map, ids, p)) \subseteq Entries(map) \cup (ids \X {p})
           /\ ids \X {p} \subseteq Entries(InsertAll(map, ids, p))
           /\ {x \in Entries(map) : x[1] \notin ids} \subseteq Entries(InsertAll(map, ids, p))
<1>1. InsertAll(map, ids, p) \in Map(ModifierId)
  BY MapOps
<1>2. ASSUME NEW id \in ModifierId, NEW q \in PeerId
      PROVE  <<id, q>> \in Entries(InsertAll(map, ids, p))
                <=> IF id \in ids THEN q = p ELSE <<id, q>> \in Entries(map)
  <2>1. InsertAll(map, ids, p)[id] = IF id \in ids THEN p ELSE map[id]
    BY DEF InsertAll, Map
  <2> QED
    BY <1>1, <2>1, InEntries
<1> QED
  BY <1>1, <1>2, EntriesType, SMTT(30)

\* record_request for `ids` adds each with its target, and touches no other id.
LEMMA EntriesRecord ==
    ASSUME NEW map \in Map(ModifierId), NEW targets, NEW ids \in SUBSET ModifierId,
           \A id \in ids : targets[id] \in PeerId,
           NEW sent, sent = {<<id, targets[id]>> : id \in ids}
    PROVE  /\ Entries(TimingRecord(map, ids, targets)) \subseteq Entries(map) \cup sent
           /\ sent \subseteq Entries(TimingRecord(map, ids, targets))
           /\ {x \in Entries(map) : x[1] \notin ids}
                 \subseteq Entries(TimingRecord(map, ids, targets))
<1>1. TimingRecord(map, ids, targets) \in Map(ModifierId)
  BY DEF TimingRecord, Map
<1>2. ASSUME NEW id \in ModifierId, NEW q \in PeerId
      PROVE  <<id, q>> \in Entries(TimingRecord(map, ids, targets))
                <=> IF id \in ids THEN q = targets[id] ELSE <<id, q>> \in Entries(map)
  <2>1. TimingRecord(map, ids, targets)[id] = IF id \in ids THEN targets[id] ELSE map[id]
    BY DEF TimingRecord, Map
  <2> QED
    BY <1>1, <2>1, InEntries
<1>3. sent \subseteq ModifierId \X PeerId
  BY SMTT(30)
<1>4. ASSUME NEW id \in ModifierId, NEW q \in PeerId
      PROVE  <<id, q>> \in sent <=> id \in ids /\ q = targets[id]
  BY SMTT(30)
<1> QED
  BY <1>1, <1>2, <1>3, <1>4, EntriesType, SMTT(30)

\* Removing `ids` removes exactly their pairs.
LEMMA EntriesRemove ==
    ASSUME NEW map \in Map(ModifierId), NEW ids \in SUBSET ModifierId
    PROVE  Entries(RemoveAll(map, ids)) = {x \in Entries(map) : x[1] \notin ids}
<1>1. RemoveAll(map, ids) \in Map(ModifierId)
  BY MapOps
<1>2. ASSUME NEW id \in ModifierId, NEW q \in PeerId
      PROVE  <<id, q>> \in Entries(RemoveAll(map, ids))
                <=> <<id, q>> \in Entries(map) /\ id \notin ids
  <2>1. RemoveAll(map, ids)[id] = q <=> map[id] = q /\ id \notin ids
    BY NoneIsNoPeer DEF RemoveAll, Map
  <2> QED
    BY <1>1, <2>1, InEntries
<1> QED
  BY <1>1, <1>2, EntriesType, SMTT(30)

\* A new HashMap has no entries.
LEMMA EntriesEmpty == Entries(EmptyMap(ModifierId)) = {}
  BY DEF Entries, EmptyMap

----------------------------------------------------------------------------
(* The steps *)

Asks == SentPairs(actions, "ModifierRequest")

Deliveries == SentPairs(actions, "ModifierResponse")

Open == Entries(latency_tracker.pending)

\* Messages of other kinds are neither requests nor responses.
LEMMA OtherSends ==
    ASSUME \A a \in actions' : a.message.kind \notin {"ModifierRequest", "ModifierResponse"}
    PROVE  Asks' = {} /\ Deliveries' = {}
  BY DEF Asks, Deliveries, SentPairs

\* Router::new() is an initial state of Relay.
LEMMA RefineInit == RouterInit => AbstractRelay!Init
<1> SUFFICES ASSUME RouterInit PROVE AbstractRelay!Init
  OBVIOUS
<1>1. Members = {}
  BY DEF RouterInit, Members, Registered, EmptyMap
<1>2. Asks = {} /\ Deliveries = {}
  BY DEF RouterInit, Asks, Deliveries, SentPairs
<1>3. Entries(inv_table) = {} /\ Entries(request_tracker) = {} /\ Open = {}
  BY EntriesEmpty DEF RouterInit, Open
<1> QED
  BY <1>1, <1>2, <1>3 DEF AbstractRelay!Init, Members, Asks, Deliveries, Open

\* Events that concern no modifier are an answer to nobody.
LEMMA RefineQuiet ==
    ASSUME UNCHANGED <<peers, inv_table, request_tracker, latency_tracker>>,
           \A a \in actions' : a.message.kind \notin {"ModifierRequest", "ModifierResponse"}
    PROVE  AbstractRelay!Answer({})
<1>1. Members' = Members
  BY DEF Members, Registered
<1>2. Entries(inv_table)' = Entries(inv_table)
      /\ Entries(request_tracker)' = Entries(request_tracker)
      /\ Open' = Open
  BY DEF Entries, Open
<1> QED
  BY <1>1, <1>2, OtherSends DEF AbstractRelay!Answer, Members, Asks, Deliveries, Open

\* register_peer is Join.
LEMMA RefineRegister ==
    ASSUME RouterInv, NEW p \in PeerId, NEW d \in Direction, NEW m \in ProxyMode,
           RegisterPeer(p, d, m)
    PROVE  AbstractRelay!Join(p)
<1>1. [direction |-> d, mode |-> m] # None
  BY NoneIsNoEntry, SMTT(30) DEF PeerEntry
<1>2. p \notin Members
  BY DEF RegisterPeer, Members, RouterInv, RegistryInv
<1>3. Members' = Members \cup {p}
  BY <1>1, SMTT(30) DEF RegisterPeer, Members, Registered, RouterInv, TypeOK
<1>4. Entries(inv_table)' = Entries(inv_table)
      /\ Entries(request_tracker)' = Entries(request_tracker)
      /\ Open' = Open
  BY DEF Entries, RegisterPeer, tables, Open
<1>5. Asks' = Asks /\ Deliveries' = Deliveries
  BY DEF Asks, Deliveries, SentPairs, RegisterPeer
<1> QED
  BY <1>2, <1>3, <1>4, <1>5 DEF AbstractRelay!Join, Members, Asks, Deliveries, Open

\* PeerDisconnected is Leave, or changes nothing when the peer has left before.
LEMMA RefineDisconnect ==
    ASSUME RouterInv, NEW p \in PeerId, PeerDisconnected(p)
    PROVE  AbstractRelay!Leave(p) \/ AbstractRelay!Answer({})
<1>1. /\ inv_table \in Map(ModifierId) /\ request_tracker \in Map(ModifierId)
      /\ latency_tracker.pending \in Map(ModifierId)
  BY DEF RouterInv, TypeOK, Map
<1>2. /\ Entries(inv_table)' = {x \in Entries(inv_table) : x[2] # p}
      /\ Entries(request_tracker)' = {x \in Entries(request_tracker) : x[2] # p}
      /\ Open' = {x \in Open : x[2] # p}
  <2>1. Entries(inv_table') = {x \in Entries(inv_table) : x[2] # p}
    BY <1>1, EntriesRetain DEF PeerDisconnected, InvPurge
  <2>2. Entries(request_tracker') = {x \in Entries(request_tracker) : x[2] # p}
    BY <1>1, EntriesRetain DEF PeerDisconnected, RequestPurge
  <2>3. latency_tracker'.pending = RetainNot(latency_tracker.pending, p)
    BY DEF PeerDisconnected, TimingPurge
  <2>4. Entries(latency_tracker'.pending) = {x \in Open : x[2] # p}
    BY <1>1, <2>3, EntriesRetain DEF Open
  <2> QED
    BY <2>1, <2>2, <2>4 DEF Entries, Open
<1>3. Members' = Members \ {p}
  BY DEF PeerDisconnected, Remove, Members, Registered, RouterInv, TypeOK
<1>4. Asks' = {} /\ Deliveries' = {}
  BY OtherSends DEF PeerDisconnected
<1>5. CASE p \in Members
  BY <1>2, <1>3, <1>4, <1>5 DEF AbstractRelay!Leave, Members, Asks, Deliveries, Open
\* A peer that is not registered is in no table.
<1>6. CASE p \notin Members
  <2>1. \A id \in ModifierId :
           inv_table[id] # p /\ request_tracker[id] # p /\ latency_tracker.pending[id] # p
    BY <1>6, NoneIsNoPeer DEF Members, RouterInv, TablesMentionRegistered
  <2>2. /\ \A x \in Entries(inv_table) : x[2] # p
        /\ \A x \in Entries(request_tracker) : x[2] # p
        /\ \A x \in Open : x[2] # p
    BY <2>1, SMTT(30) DEF Entries, Open
  <2>3. /\ Members' = Members
        /\ Entries(inv_table)' = Entries(inv_table)
        /\ Entries(request_tracker)' = Entries(request_tracker)
        /\ Open' = Open
    BY <1>2, <1>3, <1>6, <2>2
  <2> QED
    BY <1>4, <2>3 DEF AbstractRelay!Answer, Members, Asks, Deliveries, Open
<1> QED
  BY <1>5, <1>6

\* The Inv handler is Announce.
LEMMA RefineInv ==
    ASSUME RouterInv, NEW source \in PeerId, NEW m \in ModifierMessage,
           Registered(source), m.kind = "Inv", RouteInv(source, m)
    PROVE  AbstractRelay!Announce(source, m.ids)
<1>1. inv_table \in Map(ModifierId) /\ m.ids \in SUBSET ModifierId
  BY DEF RouterInv, TypeOK, Map, ModifierMessage
<1>2. Members' = Members /\ source \in Members
  BY DEF RouteInv, Members, Registered
<1>3. Entries(request_tracker)' = Entries(request_tracker) /\ Open' = Open
  BY DEF RouteInv, Entries, Open
<1>4. Entries(inv_table)' = Entries(InsertAll(inv_table, m.ids, source))
  BY DEF RouteInv, InvRecord, Entries
<1>5. \A a \in actions' : a.message.kind = "Inv"
  BY SMTT(30) DEF RouteInv, Send
<1>6. Asks' = {} /\ Deliveries' = {}
  BY <1>5, OtherSends
<1> QED
  BY <1>1, <1>2, <1>3, <1>4, <1>6, EntriesInsert
  DEF AbstractRelay!Announce, Members, Asks, Deliveries, Open

\* One message per id: the pairs sent are the ids with their targets.
LEMMA SentSingles ==
    ASSUME NEW ids \in SUBSET ModifierId, NEW table, \A id \in ids : table[id] \in PeerId,
           NEW m \in ModifierMessage, NEW kind
    PROVE  SentPairs(SendEach(table, m, ids), kind) =
              IF kind = m.kind THEN {<<id, table[id]>> : id \in ids} ELSE {}
<1> DEFINE sent == SendEach(table, m, ids)
<1>1. ASSUME NEW id \in ids, NEW a, a = Send(table[id], Single(m, id))
      PROVE  a.target = table[id] /\ a.message.kind = m.kind /\ a.message.ids = {id}
  BY <1>1 DEF Send, Single
<1>2. /\ \A a \in sent : \E id \in ids : a = Send(table[id], Single(m, id))
      /\ \A id \in ids : Send(table[id], Single(m, id)) \in sent
  BY DEF SendEach
<1> HIDE DEF sent
<1>3. CASE kind # m.kind
  <2>1. \A a \in sent : a.message.kind = m.kind
    BY <1>1, <1>2, SMTT(30)
  <2>2. SentPairs(sent, kind) = {}
    BY <1>3, <2>1 DEF SentPairs
  <2> QED
    BY <1>3, <2>2 DEF sent
<1>4. CASE kind = m.kind
  <2>1. ASSUME NEW i \in ModifierId, NEW p \in PeerId
        PROVE  <<i, p>> \in SentPairs(sent, kind) <=> i \in ids /\ p = table[i]
    <3>1. <<i, p>> \in SentPairs(sent, kind) <=> \E a \in sent : /\ a.target = p
                                                               /\ a.message.kind = m.kind
                                                               /\ i \in a.message.ids
      BY <1>4 DEF SentPairs
    <3>2. ASSUME NEW a \in sent, a.target = p, i \in a.message.ids
          PROVE  i \in ids /\ p = table[i]
      BY <1>1, <1>2, <3>2, SMTT(30)
    <3>3. ASSUME i \in ids, p = table[i]
          PROVE  \E a \in sent : /\ a.target = p
                                 /\ a.message.kind = m.kind
                                 /\ i \in a.message.ids
      BY <1>1, <1>2, <3>3
    <3> QED
      BY <3>1, <3>2, <3>3
  <2>2. SentPairs(sent, kind) \subseteq ModifierId \X PeerId
    BY DEF SentPairs
  <2>3. SentPairs(sent, kind) = {<<id, table[id]>> : id \in ids}
    BY <2>1, <2>2, SMTT(30)
  <2> QED
    BY <1>4, <2>3 DEF sent
<1> QED
  BY <1>3, <1>4

\* The ModifierRequest handler is Ask, with the ids another peer announced.
LEMMA RefineRequest ==
    ASSUME RouterInv, NEW source \in PeerId, NEW m \in ModifierMessage,
           Registered(source), m.kind = "ModifierRequest",
           RouteModifierRequest(source, m)
    PROVE  \E sent \in SUBSET Entries(inv_table) : AbstractRelay!Ask(source, sent)
<1> DEFINE asked == {id \in m.ids : inv_table[id] \notin {None, source}}
           sent == {<<id, inv_table[id]>> : id \in asked}
<1>1. /\ inv_table \in Map(ModifierId) /\ request_tracker \in Map(ModifierId)
      /\ latency_tracker.pending \in Map(ModifierId)
      /\ asked \in SUBSET ModifierId
      /\ \A id \in asked : inv_table[id] \in PeerId /\ inv_table[id] # source
  BY DEF RouterInv, TypeOK, Map, ModifierMessage
<1>2. Members' = Members /\ source \in Members
  BY DEF RouteModifierRequest, Members, Registered
<1>3. Entries(inv_table)' = Entries(inv_table)
  BY DEF RouteModifierRequest, Entries
<1>4. Entries(request_tracker)' = Entries(InsertAll(request_tracker, asked, source))
  BY DEF RouteModifierRequest, RequestRecord, Entries
<1>5. actions' = SendEach(inv_table, m, asked)
  BY DEF RouteModifierRequest
<1>6. sent \subseteq Entries(inv_table)
  BY <1>1 DEF Entries
<1> HIDE DEF asked
<1>7. /\ Open' \subseteq Open \cup sent
      /\ sent \subseteq Open'
      /\ {x \in Open : x[1] \notin asked} \subseteq Open'
  <2>1. latency_tracker'.pending = TimingRecord(latency_tracker.pending, asked, inv_table)
    BY DEF RouteModifierRequest, asked, RouterInv, TypeOK
  <2>2. Open' = Entries(TimingRecord(latency_tracker.pending, asked, inv_table))
    BY <2>1 DEF Open, Entries
  <2> QED
    BY <1>1, <2>2, EntriesRecord DEF Open
<1>8. asked = {x[1] : x \in sent} /\ \A x \in sent : x[2] # source
  <2>1. \A id \in asked : \E x \in sent : id = x[1]
    <3> TAKE id \in asked
    <3>1. <<id, inv_table[id]>> \in sent /\ <<id, inv_table[id]>>[1] = id
      OBVIOUS
    <3> QED
      BY <3>1
  <2>2. \A x \in sent : x[1] \in asked /\ x[2] # source
    BY <1>1, SMTT(30)
  <2> HIDE DEF sent
  <2> QED
    BY <2>1, <2>2
<1>9. Deliveries' = {} /\ Asks' = sent
  <2>1. /\ SentPairs(actions', "ModifierRequest") = sent
        /\ SentPairs(actions', "ModifierResponse") = {}
    BY <1>1, <1>5, SentSingles
  <2> QED
    BY <2>1 DEF Asks, Deliveries, SentPairs
<1> HIDE DEF sent
<1>10. AbstractRelay!Ask(source, sent)
  BY <1>1, <1>2, <1>3, <1>4, <1>7, <1>8, <1>9, EntriesInsert, SMTT(30)
  DEF AbstractRelay!Ask, Members, Asks, Deliveries, Open
<1> QED
  BY <1>6, <1>10

\* The ModifierResponse handler is Answer, with the ids of the response.
LEMMA RefineResponse ==
    ASSUME RouterInv, NEW source \in PeerId, NEW m \in ModifierMessage,
           m.kind = "ModifierResponse", RouteModifierResponse(source, m)
    PROVE  AbstractRelay!Answer(m.ids)
<1> DEFINE served == {id \in m.ids : request_tracker[id] # None}
           sent == {<<id, request_tracker[id]>> : id \in served}
<1>1. /\ request_tracker \in Map(ModifierId)
      /\ latency_tracker.pending \in Map(ModifierId)
      /\ m.ids \in SUBSET ModifierId
      /\ served \in SUBSET ModifierId
      /\ \A id \in served : request_tracker[id] \in PeerId
  BY DEF RouterInv, TypeOK, Map, ModifierMessage
<1>2. Members' = Members
  BY DEF RouteModifierResponse, Members, Registered
<1>3. Entries(inv_table)' = Entries(inv_table)
  BY DEF RouteModifierResponse, Entries
<1>4. Entries(request_tracker)' = {x \in Entries(request_tracker) : x[1] \notin m.ids}
  <2>1. Entries(request_tracker') = {x \in Entries(request_tracker) : x[1] \notin m.ids}
    BY <1>1, EntriesRemove DEF RouteModifierResponse, RequestFulfill
  <2> QED
    BY <2>1 DEF Entries
<1>5. actions' = SendEach(request_tracker, m, served)
  BY DEF RouteModifierResponse
<1>6. sent = {x \in Entries(request_tracker) : x[1] \in m.ids}
  <2>1. ASSUME NEW i \in ModifierId, NEW p \in PeerId
        PROVE  <<i, p>> \in sent <=> <<i, p>> \in Entries(request_tracker) /\ i \in m.ids
    BY <1>1, InEntries, NoneIsNoPeer, SMTT(30)
  <2>2. sent \subseteq ModifierId \X PeerId /\ Entries(request_tracker) \subseteq ModifierId \X PeerId
    BY <1>1, EntriesType, SMTT(30)
  <2> QED
    BY <2>1, <2>2, SMTT(30)
<1> HIDE DEF served
<1>7. Asks' = {} /\ Deliveries' = sent
  <2>1. /\ SentPairs(actions', "ModifierRequest") = {}
        /\ SentPairs(actions', "ModifierResponse") = sent
    BY <1>1, <1>5, SentSingles
  <2> QED
    BY <2>1 DEF Asks, Deliveries, SentPairs
<1> HIDE DEF sent
<1>8. Open' = {x \in Open : x[1] \notin m.ids}
  <2>1. latency_tracker'.pending = RemoveAll(latency_tracker.pending, m.ids)
    BY DEF RouteModifierResponse, TimingResponse
  <2>2. Entries(latency_tracker'.pending) = {x \in Open : x[1] \notin m.ids}
    BY <1>1, <2>1, EntriesRemove DEF Open
  <2> QED
    BY <2>2 DEF Open, Entries
<1> QED
  BY <1>2, <1>3, <1>4, <1>6, <1>7, <1>8
  DEF AbstractRelay!Answer, Members, Asks, Deliveries, Open

----------------------------------------------------------------------------
(* The theorems *)

\* Every step of the router is a step of Relay or leaves its variables unchanged.
LEMMA RefineNext ==
    ASSUME RouterInv, [RouterNext]_routerVars
    PROVE  [AbstractRelay!Next]_(AbstractRelay!relayVars)
<1>0. AbstractRelay!Answer({}) => AbstractRelay!Next
  BY DEF AbstractRelay!Next
<1>1. CASE UNCHANGED routerVars
  <2>1. UNCHANGED <<peers, inv_table, request_tracker, latency_tracker, actions>>
    BY <1>1 DEF routerVars, tables
  <2> QED
    BY <2>1 DEF AbstractRelay!relayVars, Registered, Entries, SentPairs
<1>2. CASE \E p \in PeerId, d \in Direction, m \in ProxyMode : RegisterPeer(p, d, m)
  BY <1>2, RefineRegister DEF AbstractRelay!Next
<1>3. ASSUME NEW e \in ProtocolEvent, HandleEvent(e)
      PROVE  AbstractRelay!Next
  <2>0. e.peer_id \in PeerId /\ (e.type = "Message" => e.message \in ProtocolMessage)
    BY DEF ProtocolEvent
  <2>1. CASE e.type = "PeerConnected" /\ PeerConnected(e.peer_id)
    BY <1>0, <2>1, RefineQuiet DEF PeerConnected, tables
  <2>2. CASE e.type = "PeerDisconnected" /\ PeerDisconnected(e.peer_id)
    BY <1>0, <2>0, <2>2, RefineDisconnect DEF AbstractRelay!Next
  <2>3. CASE e.type = "Message" /\ RouteMessage(e.peer_id, e.message)
    <3> DEFINE s == e.peer_id
               m == e.message
    <3>1. s \in PeerId /\ m \in ProtocolMessage
      BY <2>0, <2>3
    <3>2. m.kind \in {"Inv", "ModifierRequest", "ModifierResponse"}
             => m \in ModifierMessage /\ m.ids \in SUBSET ModifierId
      BY <3>1 DEF ProtocolMessage, OpaqueMessage, ModifierMessage
    <3>3. RouteMessage(s, m)
      BY <2>3
    <3> HIDE DEF s, m
    <3>4. CASE RouteUnregistered(s) \/ RoutePeers(s)
      BY <1>0, <3>4, RefineQuiet DEF RouteUnregistered, RoutePeers, tables
    <3>5. CASE RouteGetPeers(s)
      BY <1>0, <3>5, RefineQuiet, SMTT(30) DEF RouteGetPeers, tables, Send
    <3>6. CASE m.kind = "Unknown" /\ RouteUnknown(s, m)
      BY <1>0, <3>6, RefineQuiet, SMTT(30) DEF RouteUnknown, tables, Send
    <3>7. CASE m.kind = "SyncInfo" /\ RouteSyncInfo(s, m)
      <4>1. \A a \in actions' : a.message.kind = "SyncInfo"
        BY <3>7, SMTT(30) DEF RouteSyncInfo, SyncFromInbound, SyncFromOutbound, Send
      <4> QED
        BY <1>0, <3>7, <4>1, RefineQuiet DEF RouteSyncInfo
    <3>8. CASE Registered(s) /\ m.kind = "Inv" /\ RouteInv(s, m)
      BY <3>1, <3>2, <3>8, RefineInv DEF AbstractRelay!Next
    <3>9. CASE Registered(s) /\ m.kind = "ModifierRequest" /\ RouteModifierRequest(s, m)
      BY <3>1, <3>2, <3>9, RefineRequest DEF AbstractRelay!Next
    <3>10. CASE m.kind = "ModifierResponse" /\ RouteModifierResponse(s, m)
      BY <3>1, <3>2, <3>10, RefineResponse DEF AbstractRelay!Next
    <3> QED
      BY <3>3, <3>4, <3>5, <3>6, <3>7, <3>8, <3>9, <3>10 DEF RouteMessage
  <2> QED
    BY <1>3, <2>1, <2>2, <2>3 DEF HandleEvent
<1> QED
  BY <1>1, <1>2, <1>3 DEF RouterNext

\* The router implements the relay specification: handle_event and register_peer do
\* with modifiers what Relay allows, and nothing else.
THEOREM RouterImplementsRelay == RouterSpec => ImplementsRelay
  BY RefineInit, RefineNext, RouterInvariant, PTL
  DEF RouterSpec, ImplementsRelay, AbstractRelay!Spec

=============================================================================
