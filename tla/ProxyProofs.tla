----------------------------- MODULE ProxyProofs ----------------------------
(***************************************************************************)
(* Proofs about Proxy.tla, for any number of connections, any messages and *)
(* channels of any capacity.  The calls of the router are covered by the   *)
(* lemmas of RouterProofs; here are the tasks and the channel around it.   *)
(***************************************************************************)
EXTENDS Proxy, RouterProofs

\* First-order reasoning is enough for most leaves; the ones that need arithmetic, or
\* what the backend knows of functions and sequences, cite SMT.
USE ZenonT(30)

Started == {"connected", "reading", "closing", "removed", "gone"}

Published == {"reading", "closing", "removed", "gone"}

\* A queued event tells how far the task that sent it has come.
EventsFollowTasks ==
    \A i \in 1..Len(events) :
        /\ task[events[i].peer_id] \in Started
        /\ events[i].type = "Message" => task[events[i].peer_id] \in Published
        /\ events[i].type = "PeerDisconnected" => task[events[i].peer_id] = "gone"

\* The peers the modifier tables name, which are those that have sent a message.
TablesAfterSetup ==
    \A id \in ModifierId :
        /\ inv_table[id] # None => task[inv_table[id]] \in Published
        /\ request_tracker[id] # None => task[request_tracker[id]] \in Published

\* What relates the tasks, the channel and the router.
TasksInv ==
    /\ EventsFollowTasks
    /\ EventsOfRegistered
    /\ RegistryFollowsTasks
    /\ DisconnectionIsLast
    /\ TablesAfterSetup
    /\ ModifierTrafficAfterSetup

ProxyInv == ProxyTypeOK /\ RouterInv /\ TasksInv

----------------------------------------------------------------------------
(* The channel *)

\* An event that is sent becomes the last of the channel.
LEMMA Appended ==
    ASSUME events \in Seq(ProtocolEvent), NEW e \in ProtocolEvent,
           events' = Append(events, e)
    PROVE  /\ events' \in Seq(ProtocolEvent)
           /\ Len(events) \in Nat
           /\ Len(events') = Len(events) + 1
           /\ \A i \in 1..Len(events) : events'[i] = events[i]
           /\ events'[Len(events) + 1] = e
           /\ QueuedEvents' = QueuedEvents \cup {e}
<1>1. /\ events' \in Seq(ProtocolEvent)
      /\ Len(events) \in Nat
      /\ Len(events') = Len(events) + 1
      /\ \A i \in 1..Len(events) : events'[i] = events[i]
      /\ events'[Len(events) + 1] = e
  BY SMTT(30)
<1>2. QueuedEvents' = QueuedEvents \cup {e}
  BY <1>1, SMTT(30) DEF QueuedEvents
<1> QED
  BY <1>1, <1>2

\* Receiving takes the first event, and the others move up.
LEMMA Received ==
    ASSUME events \in Seq(ProtocolEvent), events # <<>>, events' = Tail(events)
    PROVE  /\ events' \in Seq(ProtocolEvent)
           /\ Len(events) \in Nat \ {0}
           /\ Len(events') = Len(events) - 1
           /\ \A i \in 1..Len(events') : events'[i] = events[i + 1]
           /\ Head(events) = events[1]
           /\ Head(events) \in ProtocolEvent
           /\ QueuedEvents = QueuedEvents' \cup {Head(events)}
<1>1. /\ events' \in Seq(ProtocolEvent)
      /\ Len(events) \in Nat \ {0}
      /\ Len(events') = Len(events) - 1
      /\ \A i \in 1..Len(events') : events'[i] = events[i + 1]
      /\ Head(events) = events[1]
      /\ Head(events) \in ProtocolEvent
  BY SMTT(30)
<1>2. \A i \in 1..Len(events) : i = 1 \/ (i - 1 \in 1..Len(events') /\ events'[i - 1] = events[i])
  BY <1>1, SMTT(30)
<1>3. QueuedEvents \subseteq QueuedEvents' \cup {Head(events)}
  <2>1. ASSUME NEW i \in 1..Len(events) PROVE events[i] \in QueuedEvents' \cup {Head(events)}
    <3>1. CASE i = 1
      BY <1>1, <3>1
    <3>2. CASE i # 1
      BY <1>2, <3>2 DEF QueuedEvents
    <3> QED
      BY <3>1, <3>2
  <2> QED
    BY <2>1 DEF QueuedEvents
<1>4. QueuedEvents' \cup {Head(events)} \subseteq QueuedEvents
  BY <1>1, SMTT(30) DEF QueuedEvents
<1> QED
  BY <1>1, <1>3, <1>4

----------------------------------------------------------------------------
(* The calls of the router *)

\* A call of the router, or none, keeps what is proved of the router by itself; so does
\* the main loop when it takes an action off the list (main.rs:179).
LEMMA RouterStep ==
    ASSUME ProxyInv, [ProxyNext]_proxyVars
    PROVE  RouterInv'
<1> USE DEF ProxyInv
<1>1. CASE UNCHANGED routerVars
  BY <1>1, NextInv
<1>2. ASSUME NEW p \in PeerId, Register(p) PROVE RouterInv'
  BY <1>2, ProxyAssumption, RegisterInv DEF Register, PeerEntry
<1>3. CASE MainReceives
  <2>1. Head(events) \in ProtocolEvent /\ Head(events) \in QueuedEvents
    BY <1>3, Received DEF MainReceives, ProxyTypeOK
  <2>2. Head(events).peer_id \in PeerId
    BY <2>1 DEF ProtocolEvent
  <2>3. Head(events).peer_id \in issued
    BY <2>1, <2>2 DEF TasksInv, EventsOfRegistered, RouterInv, RegistryInv
  <2> QED
    BY <1>3, <2>1, <2>3, NextInv DEF MainReceives, RouterNext
<1>4. ASSUME NEW action \in actions, MainSends(action) PROVE RouterInv'
  <2>1. UNCHANGED <<peers, tables, issued>> /\ actions' \subseteq actions
    BY <1>4 DEF MainSends
  <2>2. /\ TypeOK' /\ RegistryInv' /\ ActionsInv' /\ LightPeersNeverSync'
        /\ NonSyncActionsTargetRegistered'
    BY <2>1 DEF RouterInv, TypeOK, RegistryInv, ActionsInv, LightPeersNeverSync,
                NonSyncActionsTargetRegistered, Registered, IsPeer, tables
  <2>3. /\ TablesMentionRegistered' /\ PartnersAgree'
        /\ OutboundPartners' /\ RequesterIsNotTarget'
    BY <2>1 DEF RouterInv, TablesMentionRegistered, PartnersAgree, OutboundPartners,
                RequesterIsNotTarget, Registered, IsPeer, tables
  <2> QED
    BY <2>2, <2>3 DEF RouterInv
<1>5. ASSUME NEW p \in PeerId, PeerStep(p) PROVE RouterInv'
  BY <1>1, <1>2, <1>5 DEF PeerStep, Spawn, HandshakeFails, SendConnected, InsertSender,
     ReadMessage, ReadFails, RemoveSender, SendDisconnected, WriterTakes, WriterWrites,
     WriterFails, RemoteStalls
<1>6. CASE MainStep
  BY <1>1, <1>3, <1>4, <1>6 DEF MainStep, MainLocks, MainUnlocks
<1>7. CASE KeepaliveStep
  BY <1>1, <1>7 DEF KeepaliveStep, KeepaliveTicks, KeepaliveLocks, KeepaliveSends,
     KeepaliveUnlocks
<1>8. CASE UNCHANGED proxyVars
  BY <1>1, <1>8 DEF proxyVars
<1> QED
  BY <1>5, <1>6, <1>7, <1>8 DEF ProxyNext

\* handle_event changes the registry only when a peer disconnects, and then only the
\* entry of that peer.
LEMMA RegistryEffect ==
    ASSUME NEW e \in ProtocolEvent, HandleEvent(e), TypeOK
    PROVE  /\ e.type # "PeerDisconnected" => UNCHANGED peers
           /\ e.type = "PeerDisconnected" =>
                \A p \in PeerId : peers'[p] = IF p = e.peer_id THEN None ELSE peers[p]
<1>1. CASE e.type = "PeerConnected" /\ PeerConnected(e.peer_id)
  BY <1>1 DEF PeerConnected
<1>2. CASE e.type = "PeerDisconnected" /\ PeerDisconnected(e.peer_id)
  BY <1>2 DEF PeerDisconnected, Remove, TypeOK
<1>3. CASE e.type = "Message" /\ RouteMessage(e.peer_id, e.message)
  BY <1>3 DEF RouteMessage, RouteUnregistered, RouteInv, RouteModifierRequest,
     RouteModifierResponse, RouteSyncInfo, RouteGetPeers, RoutePeers, RouteUnknown
<1> QED
  BY <1>1, <1>2, <1>3 DEF HandleEvent

\* `table` becomes `next` when an event is handled, and comes to name no peer but the one
\* whose message it is.
LearnsSender(table, next, e) ==
    \A id \in ModifierId :
        \/ next[id] = None
        \/ next[id] = table[id]
        \/ e.type = "Message" /\ next[id] = e.peer_id

\* The peer p is in one of the modifier tables.
Named(p) == p # None /\ \E id \in ModifierId : p \in {inv_table[id], request_tracker[id]}

\* The modifier tables come to name no peer but the one whose message is handled, and
\* requests and responses go to peers the tables name (route_message).
LEMMA TablesEffect ==
    ASSUME NEW e \in ProtocolEvent, HandleEvent(e), TypeOK
    PROVE  /\ LearnsSender(inv_table, inv_table', e)
           /\ LearnsSender(request_tracker, request_tracker', e)
           /\ \A a \in actions' :
                a.message.kind \in {"ModifierRequest", "ModifierResponse"} => Named(a.target)
<1> USE DEF LearnsSender, Named
<1>1. CASE e.type = "PeerConnected" /\ PeerConnected(e.peer_id)
  BY <1>1 DEF PeerConnected, tables
<1>2. CASE e.type = "PeerDisconnected" /\ PeerDisconnected(e.peer_id)
  BY <1>2 DEF PeerDisconnected, InvPurge, RequestPurge, RetainNot, TypeOK
<1>3. CASE e.type = "Message" /\ RouteMessage(e.peer_id, e.message)
  <2> DEFINE source == e.peer_id
             m == e.message
  <2>0. source \in PeerId /\ m \in ProtocolMessage
    BY <1>3 DEF ProtocolEvent
  <2>1. m.kind \in {"Inv", "ModifierRequest", "ModifierResponse"} => m.ids \subseteq ModifierId
    BY <2>0 DEF ProtocolMessage, ModifierMessage, OpaqueMessage
  <2>2. CASE m.kind = "Inv" /\ RouteInv(source, m)
    <3>1. \A a \in actions' : a.message.kind = "Inv"
      BY <2>2, SMTT(30) DEF RouteInv, Send
    <3> QED
      BY <1>3, <2>2, <3>1 DEF RouteInv, InvRecord, InsertAll, TypeOK
  <2>3. CASE m.kind = "ModifierRequest" /\ RouteModifierRequest(source, m)
    <3>1. \A a \in actions' : \E id \in m.ids : a.target = inv_table[id] /\ a.target # None
      BY <2>3, SMTT(30) DEF RouteModifierRequest, SendEach, Send
    <3> QED
      BY <1>3, <2>1, <2>3, <3>1 DEF RouteModifierRequest, RequestRecord, InsertAll, TypeOK
  <2>4. CASE m.kind = "ModifierResponse" /\ RouteModifierResponse(source, m)
    <3>1. \A a \in actions' : \E id \in m.ids : a.target = request_tracker[id] /\ a.target # None
      BY <2>4, SMTT(30) DEF RouteModifierResponse, SendEach, Send
    <3> QED
      BY <1>3, <2>1, <2>4, <3>1 DEF RouteModifierResponse, RequestFulfill, RemoveAll, TypeOK
  <2>5. CASE m.kind = "SyncInfo" /\ RouteSyncInfo(source, m)
    <3>1. \A a \in actions' : a.message.kind = "SyncInfo"
      BY <2>5, SMTT(30) DEF RouteSyncInfo, SyncFromInbound, SyncFromOutbound, Send
    <3> QED
      BY <2>5, <3>1 DEF RouteSyncInfo
  <2>6. CASE RouteUnregistered(source) \/ RouteGetPeers(source) \/ RoutePeers(source)
    <3>1. \A a \in actions' : a.message.kind = "Peers"
      BY <2>6, SMTT(30) DEF RouteUnregistered, RouteGetPeers, RoutePeers, Send
    <3> QED
      BY <2>6, <3>1 DEF RouteUnregistered, RouteGetPeers, RoutePeers, tables
  <2>7. CASE m.kind = "Unknown" /\ RouteUnknown(source, m)
    <3>1. \A a \in actions' : a.message.kind = "Unknown"
      BY <2>7, SMTT(30) DEF RouteUnknown, Send
    <3> QED
      BY <2>7, <3>1 DEF RouteUnknown, tables
  <2> QED
    BY <1>3, <2>2, <2>3, <2>4, <2>5, <2>6, <2>7 DEF RouteMessage
<1> QED
  BY <1>1, <1>2, <1>3 DEF HandleEvent

----------------------------------------------------------------------------
(* The tasks *)

\* The stages of run_peer that neither call the router nor send an event.
QuietStages ==
    {<<"absent", "handshaking">>, <<"handshaking", "failed">>, <<"connected", "reading">>,
     <<"reading", "closing">>, <<"closing", "removed">>}

\* Such a stage leaves what the router and the channel say of the task true.
LEMMA QuietStage ==
    ASSUME ProxyInv, NEW p \in PeerId, NEW from, NEW to, <<from, to>> \in QuietStages,
           Advance(p, from, to), UNCHANGED <<routerVars, events>>
    PROVE  TasksInv'
<1> USE DEF ProxyInv, ProxyTypeOK, TasksInv, QuietStages, Advance
<1>0. /\ UNCHANGED <<peers, inv_table, request_tracker, actions, events>>
      /\ events \in Seq(ProtocolEvent)
      /\ \A i \in 1..Len(events) : events[i].peer_id \in PeerId
      /\ \A q \in PeerId : task'[q] = IF q = p THEN to ELSE task[q]
  BY SMTT(30) DEF routerVars, tables, ProtocolEvent
<1>1. EventsFollowTasks'
  BY <1>0, SMTT(30) DEF EventsFollowTasks, Started, Published
<1>2. EventsOfRegistered' /\ DisconnectionIsLast'
  BY <1>0, SMTT(30) DEF EventsOfRegistered, DisconnectionIsLast, QueuedEvents, Registered
<1>3. RegistryFollowsTasks'
  BY <1>0, SMTT(30) DEF RegistryFollowsTasks, Registered, QueuedEvents, Disconnection
<1>4. TablesAfterSetup'
  BY <1>0, SMTT(30) DEF TablesAfterSetup, Published, TypeOK
<1>5. ModifierTrafficAfterSetup'
  BY <1>0 DEF ModifierTrafficAfterSetup, TypeOK, Action
<1> QED
  BY <1>1, <1>2, <1>3, <1>4, <1>5

\* Steps that leave the tasks, the channel, the registry and the tables alone, and take
\* actions off the list or leave it alone.
LEMMA ElsewhereStep ==
    ASSUME TasksInv, UNCHANGED <<task, events, peers, inv_table, request_tracker>>,
           actions' \subseteq actions
    PROVE  TasksInv'
<1>1. EventsFollowTasks' /\ EventsOfRegistered' /\ DisconnectionIsLast'
  BY DEF TasksInv, EventsFollowTasks, EventsOfRegistered, DisconnectionIsLast, QueuedEvents,
     Registered
<1>2. RegistryFollowsTasks'
  BY DEF TasksInv, RegistryFollowsTasks, Registered, QueuedEvents, Disconnection
<1>3. TablesAfterSetup' /\ ModifierTrafficAfterSetup'
  BY DEF TasksInv, TablesAfterSetup, ModifierTrafficAfterSetup
<1> QED
  BY <1>1, <1>2, <1>3 DEF TasksInv

\* register_peer is the first thing run_peer does; nothing mentions the peer before.
LEMMA RegisterStage ==
    ASSUME ProxyInv, NEW p \in PeerId, Register(p)
    PROVE  TasksInv'
<1> USE DEF ProxyInv, ProxyTypeOK, TasksInv
<1> DEFINE entry == [direction |-> Profile[p].direction, mode |-> Profile[p].mode]
<1>0. /\ UNCHANGED <<inv_table, request_tracker, actions, events>>
      /\ \A i \in 1..Len(events) : events[i].peer_id \in PeerId
      /\ task[p] = "handshaking"
      /\ \A q \in PeerId : task'[q] = IF q = p THEN "registered" ELSE task[q]
      /\ \A q \in PeerId : peers'[q] = IF q = p THEN entry ELSE peers[q]
  BY SMTT(30) DEF Register, RegisterPeer, Advance, tables, TypeOK, ProtocolEvent
<1>1. entry \in PeerEntry /\ entry # None
  BY ProxyAssumption, NoneIsNoEntry, SMTT(30) DEF PeerEntry
<1> HIDE DEF entry
<1>2. EventsFollowTasks'
  BY <1>0, SMTT(30) DEF EventsFollowTasks, Started, Published
<1>3. EventsOfRegistered'
  BY <1>0, <1>1, SMTT(30) DEF EventsOfRegistered, QueuedEvents, Registered
<1>4. DisconnectionIsLast'
  BY <1>0 DEF DisconnectionIsLast
<1>5. RegistryFollowsTasks'
  BY <1>0, <1>1, SMTT(30) DEF RegistryFollowsTasks, Registered, QueuedEvents, Disconnection
<1>6. TablesAfterSetup'
  BY <1>0 DEF TablesAfterSetup, Published, TypeOK
<1>7. ModifierTrafficAfterSetup'
  BY <1>0 DEF ModifierTrafficAfterSetup, TypeOK, Action
<1> QED
  BY <1>2, <1>3, <1>4, <1>5, <1>6, <1>7

\* What a task may send in each stage, and the stage it goes on to.
Sends(p, e, to) ==
    \/ task[p] = "registered" /\ to = "connected" /\ e.type = "PeerConnected"
    \/ task[p] = "reading" /\ to = "reading" /\ e.type = "Message"
    \/ task[p] = "removed" /\ to = "gone" /\ e = Disconnection(p)

\* An event is sent while its task is registered and has sent no PeerDisconnected, and
\* so keeps its place behind the earlier ones of its peer.
LEMMA SendStage ==
    ASSUME ProxyInv, NEW p \in PeerId, NEW e \in ProtocolEvent, NEW to,
           e.peer_id = p, Sends(p, e, to),
           events' = Append(events, e), task' = [task EXCEPT ![p] = to],
           UNCHANGED routerVars
    PROVE  TasksInv'
<1> USE DEF ProxyInv, ProxyTypeOK, TasksInv, Sends, Disconnection
<1>0. /\ UNCHANGED <<peers, inv_table, request_tracker, actions>>
      /\ \A q \in PeerId : task'[q] = IF q = p THEN to ELSE task[q]
      /\ \A i \in 1..Len(events) : events[i].peer_id \in PeerId
  BY SMTT(30) DEF routerVars, tables, ProtocolEvent
<1>1. /\ events' \in Seq(ProtocolEvent)
      /\ Len(events) \in Nat
      /\ Len(events') = Len(events) + 1
      /\ \A i \in 1..Len(events) : events'[i] = events[i]
      /\ events'[Len(events) + 1] = e
      /\ QueuedEvents' = QueuedEvents \cup {e}
  BY Appended
<1>2. \A i \in 1..Len(events') : i \in 1..Len(events) \/ (i = Len(events) + 1 /\ events'[i] = e)
  BY <1>1, SMTT(30)
<1>3. EventsFollowTasks'
  <2>1. /\ to \in Started /\ task[p] # "gone"
        /\ task[p] \in Published => to \in Published
        /\ e.type = "Message" => to \in Published
        /\ e.type = "PeerDisconnected" => to = "gone"
    BY SMTT(30) DEF Started, Published
  <2> SUFFICES ASSUME NEW i \in 1..Len(events'), NEW q, q = events'[i].peer_id
               PROVE  /\ task'[q] \in Started
                      /\ events'[i].type = "Message" => task'[q] \in Published
                      /\ events'[i].type = "PeerDisconnected" => task'[q] = "gone"
    BY DEF EventsFollowTasks
  <2>2. CASE i \in 1..Len(events)
    <3>1. /\ events'[i] = events[i] /\ q \in PeerId
          /\ task[q] \in Started
          /\ events[i].type = "Message" => task[q] \in Published
          /\ events[i].type = "PeerDisconnected" => task[q] = "gone"
      BY <1>0, <1>1, <2>2 DEF EventsFollowTasks
    <3> QED  BY <1>0, <2>1, <3>1
  <2>3. CASE i = Len(events) + 1 /\ events'[i] = e
    BY <1>0, <2>1, <2>3
  <2> QED  BY <1>2, <2>2, <2>3
<1>4. EventsOfRegistered'
  BY <1>0, <1>1 DEF EventsOfRegistered, RegistryFollowsTasks, Registered
<1>5. DisconnectionIsLast'
  <2>1. \A i \in 1..Len(events) : events[i].type = "PeerDisconnected" => events[i].peer_id # p
    BY DEF EventsFollowTasks
  <2> QED
    BY <1>1, <1>2, <2>1, SMTT(30) DEF DisconnectionIsLast
<1>6. RegistryFollowsTasks'
  <2>1. \A q \in PeerId : q # p => e # Disconnection(q)
    BY SMTT(30)
  <2> QED
    BY <1>0, <1>1, <2>1 DEF RegistryFollowsTasks, Registered
<1>7. TablesAfterSetup'
  BY <1>0, SMTT(30) DEF TablesAfterSetup, Published, TypeOK
<1>8. ModifierTrafficAfterSetup'
  BY <1>0 DEF ModifierTrafficAfterSetup, TypeOK, Action
<1> QED
  BY <1>3, <1>4, <1>5, <1>6, <1>7, <1>8

\* The main loop handles the oldest event.  A PeerDisconnected unregisters its peer, and
\* no event behind it is of that peer; any other event leaves the registry alone.
LEMMA ReceiveStep ==
    ASSUME ProxyInv, MainReceives
    PROVE  TasksInv'
<1> USE DEF ProxyInv, ProxyTypeOK, TasksInv
<1> DEFINE e == Head(events)
<1>0. UNCHANGED task /\ HandleEvent(e) /\ events # <<>> /\ events' = Tail(events)
  BY DEF MainReceives, taskVars
<1>1. /\ events' \in Seq(ProtocolEvent)
      /\ Len(events) \in Nat \ {0}
      /\ Len(events') = Len(events) - 1
      /\ \A i \in 1..Len(events') : events'[i] = events[i + 1]
      /\ e = events[1]
      /\ e \in ProtocolEvent
      /\ QueuedEvents = QueuedEvents' \cup {e}
  BY <1>0, Received
<1>2. e.peer_id \in PeerId /\ \A i \in 1..Len(events) : events[i].peer_id \in PeerId
  BY <1>1, SMTT(30) DEF ProtocolEvent
<1>3. /\ e.type # "PeerDisconnected" => UNCHANGED peers
      /\ e.type = "PeerDisconnected" =>
           \A p \in PeerId : peers'[p] = IF p = e.peer_id THEN None ELSE peers[p]
  BY <1>0, <1>1, RegistryEffect
<1>4. e.type = "PeerDisconnected" =>
         \A f \in QueuedEvents' : f.peer_id \in PeerId /\ f.peer_id # e.peer_id
  <2>1. \A i \in 1..Len(events') : 1 \in 1..Len(events) /\ i + 1 \in 1..Len(events) /\ 1 < i + 1
    BY <1>1, SMTT(30)
  <2>2. ASSUME e.type = "PeerDisconnected", NEW i \in 1..Len(events')
        PROVE  events'[i].peer_id \in PeerId /\ events'[i].peer_id # e.peer_id
    <3>1. events'[i] = events[i + 1] /\ 1 \in 1..Len(events) /\ i + 1 \in 1..Len(events) /\ 1 < i + 1
      BY <1>1, <2>1
    <3>2. events[1].peer_id # events[i + 1].peer_id
      BY <1>1, <2>2, <3>1, SMTT(30) DEF DisconnectionIsLast
    <3> QED
      BY <1>1, <1>2, <3>1, <3>2
  <2> QED
    BY <2>2 DEF QueuedEvents
<1>5. /\ LearnsSender(inv_table, inv_table', e)
      /\ LearnsSender(request_tracker, request_tracker', e)
      /\ \A a \in actions' :
            a.message.kind \in {"ModifierRequest", "ModifierResponse"} => Named(a.target)
  BY <1>0, <1>1, TablesEffect
<1>6. e.type = "Message" => task[e.peer_id] \in Published
  BY <1>1, SMTT(30) DEF EventsFollowTasks
<1>7. e.type = "PeerDisconnected" => task[e.peer_id] = "gone"
  BY <1>1, SMTT(30) DEF EventsFollowTasks
<1>8. e.type = "PeerDisconnected" => e = Disconnection(e.peer_id)
  BY <1>1 DEF ProtocolEvent, Disconnection
<1> HIDE DEF e
<1>9. EventsFollowTasks'
  BY <1>0, <1>1, SMTT(30) DEF EventsFollowTasks
<1>10. EventsOfRegistered'
  <2>1. CASE e.type = "PeerDisconnected"
    BY <1>1, <1>3, <1>4, <2>1 DEF EventsOfRegistered, Registered
  <2>2. CASE e.type # "PeerDisconnected"
    BY <1>1, <1>3, <2>2 DEF EventsOfRegistered, Registered
  <2> QED
    BY <2>1, <2>2
<1>11. DisconnectionIsLast'
  <2>1. ASSUME NEW i \in 1..Len(events'), NEW j \in 1..Len(events'), i < j,
               events'[i].type = "PeerDisconnected"
        PROVE  events'[i].peer_id # events'[j].peer_id
    <3>1. i + 1 \in 1..Len(events) /\ j + 1 \in 1..Len(events) /\ i + 1 < j + 1
      BY <1>1, <2>1, SMTT(30)
    <3> QED
      BY <1>1, <2>1, <3>1, SMTT(30) DEF DisconnectionIsLast
  <2> QED
    BY <2>1 DEF DisconnectionIsLast
<1>12. RegistryFollowsTasks'
  <2>1. CASE e.type = "PeerDisconnected"
    <3>1. Disconnection(e.peer_id) \notin QueuedEvents'
      BY <1>4, <2>1 DEF Disconnection
    <3>2. \A q \in PeerId : q # e.peer_id => Disconnection(q) # e
      BY SMTT(30) DEF Disconnection
    <3> QED
      BY <1>0, <1>1, <1>2, <1>3, <1>7, <2>1, <3>1, <3>2, SMTT(30) DEF RegistryFollowsTasks, Registered
  <2>2. CASE e.type # "PeerDisconnected"
    <3>1. \A q \in PeerId : Disconnection(q) # e
      BY <2>2, SMTT(30) DEF Disconnection
    <3> QED
      BY <1>0, <1>1, <1>3, <2>2, <3>1, SMTT(30) DEF RegistryFollowsTasks, Registered
  <2> QED
    BY <2>1, <2>2
<1>13. TablesAfterSetup'
  BY <1>0, <1>5, <1>6 DEF TablesAfterSetup, LearnsSender
<1>14. ModifierTrafficAfterSetup'
  BY <1>0, <1>5 DEF ModifierTrafficAfterSetup, TablesAfterSetup, Named, Published
<1> QED
  BY <1>9, <1>10, <1>11, <1>12, <1>13, <1>14

\* Every step of main.rs keeps the relation between tasks, channel and router.
LEMMA TasksStep ==
    ASSUME ProxyInv, [ProxyNext]_proxyVars
    PROVE  TasksInv'
<1>1. CASE UNCHANGED <<routerVars, task, events>>
  BY <1>1, ElsewhereStep DEF routerVars, tables, ProxyInv
<1>2. ASSUME NEW p \in PeerId, PeerStep(p) PROVE TasksInv'
  <2>1. CASE Spawn(p) \/ HandshakeFails(p) \/ InsertSender(p) \/ ReadFails(p) \/ RemoveSender(p)
    BY <2>1, QuietStage, SMTT(30) DEF Spawn, HandshakeFails, InsertSender, ReadFails, RemoveSender,
       QuietStages
  <2>2. CASE Register(p)
    BY <2>2, RegisterStage
  <2>3. CASE SendConnected(p)
    <3>1. [type |-> "PeerConnected", peer_id |-> p] \in ProtocolEvent
      BY DEF ProtocolEvent
    <3> QED
      BY <2>3, <3>1, SendStage DEF SendConnected, SendEvent, Advance, Sends
  <2>4. ASSUME NEW message \in Incoming, ReadMessage(p, message) PROVE TasksInv'
    <3> DEFINE e == [type |-> "Message", peer_id |-> p, message |-> message]
    <3>1. e \in ProtocolEvent
      BY ProxyAssumption DEF ProtocolEvent
    <3>2. task' = [task EXCEPT ![p] = "reading"]
      BY <2>4 DEF ReadMessage, taskVars, ProxyInv, ProxyTypeOK
    <3>3. Sends(p, e, "reading") /\ events' = Append(events, e) /\ UNCHANGED routerVars
      BY <2>4 DEF ReadMessage, SendEvent, Sends
    <3>4. e.peer_id = p
      OBVIOUS
    <3> HIDE DEF e
    <3> QED
      BY <3>1, <3>2, <3>3, <3>4, SendStage
  <2>5. CASE SendDisconnected(p)
    <3>1. Disconnection(p) \in ProtocolEvent /\ Disconnection(p).peer_id = p
      BY DEF ProtocolEvent, Disconnection
    <3>2. /\ Sends(p, Disconnection(p), "gone")
          /\ events' = Append(events, Disconnection(p))
          /\ task' = [task EXCEPT ![p] = "gone"]
          /\ UNCHANGED routerVars
      BY <2>5 DEF SendDisconnected, SendEvent, Advance, Sends, Disconnection
    <3> QED
      BY <3>1, <3>2, SendStage
  <2>6. CASE WriterTakes(p) \/ WriterWrites(p) \/ WriterFails(p) \/ RemoteStalls(p)
    BY <1>1, <2>6 DEF WriterTakes, WriterWrites, WriterFails, RemoteStalls, taskVars
  <2> QED
    BY <1>2, <2>1, <2>2, <2>3, <2>4, <2>5, <2>6 DEF PeerStep
<1>3. CASE MainReceives
  BY <1>3, ReceiveStep
<1>4. ASSUME NEW action \in actions, MainSends(action) PROVE TasksInv'
  BY <1>4, ElsewhereStep DEF MainSends, ProxyInv, tables, taskVars
<1>5. CASE MainLocks \/ MainUnlocks
  BY <1>1, <1>5 DEF MainLocks, MainUnlocks, taskVars
<1>6. CASE KeepaliveStep
  BY <1>1, <1>6 DEF KeepaliveStep, KeepaliveTicks, KeepaliveLocks, KeepaliveSends,
     KeepaliveUnlocks, taskVars
<1>7. CASE UNCHANGED proxyVars
  BY <1>1, <1>7 DEF proxyVars, taskVars
<1> QED
  BY <1>2, <1>3, <1>4, <1>5, <1>6, <1>7 DEF ProxyNext, MainStep

----------------------------------------------------------------------------
(* Types *)

\* A send to a peer's write channel waits for room in it.
LEMMA DeliverType ==
    ASSUME ProxyTypeOK, NEW p \in PeerId, Deliver(p)
    PROVE  write_queue' \in [PeerId -> 0..WriteCap]
BY ProxyAssumption, SMTT(30) DEF Deliver, ProxyTypeOK

\* Every step of main.rs keeps the channels within their capacities and the tasks in
\* their stages.
LEMMA TypesStep ==
    ASSUME ProxyInv, [ProxyNext]_proxyVars
    PROVE  ProxyTypeOK'
<1>0. TypeOK' /\ ProxyTypeOK
  BY RouterStep DEF RouterInv, ProxyInv
<1>1. ASSUME NEW p \in PeerId, PeerStep(p) PROVE ProxyTypeOK'
  <2>1. CASE Spawn(p) \/ HandshakeFails(p) \/ Register(p) \/ ReadFails(p)
    BY <1>0, <2>1 DEF Spawn, HandshakeFails, Register, ReadFails, Advance, ProxyTypeOK,
       TaskState, writerVars, loopVars
  <2>2. CASE InsertSender(p) \/ RemoveSender(p)
    <3>1. write_queue' \in [PeerId -> 0..WriteCap]
      BY <1>0, <2>2, ProxyAssumption, SMTT(30) DEF InsertSender, RemoveSender, ProxyTypeOK
    <3> QED
      BY <1>0, <2>2, <3>1 DEF InsertSender, RemoveSender, Advance, ProxyTypeOK, TaskState, loopVars
  <2>3. ASSUME NEW e \in ProtocolEvent, SendEvent(e),
               task' \in [PeerId -> TaskState],
               UNCHANGED <<peer_senders, writerVars, loopVars, stalled>>
        PROVE  ProxyTypeOK'
    <3>1. events' \in Seq(ProtocolEvent) /\ Len(events) \in Nat /\ Len(events') = Len(events) + 1
      BY <1>0, <2>3, Appended DEF SendEvent, ProxyTypeOK
    <3>2. Len(events') <= EventCap
      BY <2>3, <3>1, ProxyAssumption, SMTT(30) DEF SendEvent
    <3> QED
      BY <1>0, <2>3, <3>1, <3>2 DEF ProxyTypeOK, writerVars, loopVars
  <2>4. CASE SendConnected(p)
    BY <1>0, <2>3, <2>4 DEF SendConnected, Advance, ProxyTypeOK, TaskState, ProtocolEvent
  <2>5. ASSUME NEW message \in Incoming, ReadMessage(p, message) PROVE ProxyTypeOK'
    <3>1. [type |-> "Message", peer_id |-> p, message |-> message] \in ProtocolEvent
      BY ProxyAssumption DEF ProtocolEvent
    <3>2. task' \in [PeerId -> TaskState] /\ UNCHANGED peer_senders
      BY <1>0, <2>5 DEF ReadMessage, taskVars, ProxyTypeOK
    <3> QED
      BY <2>3, <2>5, <3>1, <3>2 DEF ReadMessage
  <2>6. CASE SendDisconnected(p)
    BY <1>0, <2>3, <2>6 DEF SendDisconnected, Advance, ProxyTypeOK, TaskState, ProtocolEvent
  <2>7. CASE WriterTakes(p) \/ WriterWrites(p) \/ WriterFails(p)
    <3>1. write_queue' \in [PeerId -> 0..WriteCap]
      BY <1>0, <2>7, ProxyAssumption, SMTT(30) DEF WriterTakes, WriterWrites, WriterFails, ProxyTypeOK
    <3> QED
      BY <1>0, <2>7, <3>1 DEF WriterTakes, WriterWrites, WriterFails, ProxyTypeOK, taskVars, loopVars
  <2>8. CASE RemoteStalls(p)
    BY <1>0, <2>8 DEF RemoteStalls, ProxyTypeOK, taskVars, writerVars, loopVars
  <2> QED
    BY <1>1, <2>1, <2>2, <2>4, <2>5, <2>6, <2>7, <2>8 DEF PeerStep
<1>2. CASE MainReceives
  <2>1. events' \in Seq(ProtocolEvent) /\ Len(events') <= EventCap
    <3>1. events' \in Seq(ProtocolEvent) /\ Len(events') = Len(events) - 1 /\ Len(events) \in Nat
      BY <1>0, <1>2, Received DEF MainReceives, ProxyTypeOK
    <3> QED
      BY <1>0, <3>1, ProxyAssumption, SMTT(30) DEF ProxyTypeOK
  <2> QED
    BY <1>0, <1>2, <2>1 DEF MainReceives, ProxyTypeOK, taskVars, writerVars
<1>3. CASE MainLocks \/ MainUnlocks
  BY <1>0, <1>3 DEF MainLocks, MainUnlocks, ProxyTypeOK, taskVars, writerVars
<1>4. ASSUME NEW action \in actions, MainSends(action) PROVE ProxyTypeOK'
  <2>1. action.target \in PeerId
    BY <1>0 DEF ProxyTypeOK, TypeOK, Action
  <2>2. write_queue' \in [PeerId -> 0..WriteCap]
    BY <1>0, <1>4, <2>1, DeliverType DEF MainSends
  <2> QED
    BY <1>0, <1>4, <2>2 DEF MainSends, ProxyTypeOK, taskVars, loopVars
<1>5. CASE KeepaliveTicks \/ KeepaliveLocks \/ KeepaliveUnlocks
  BY <1>0, <1>5 DEF KeepaliveTicks, KeepaliveLocks, KeepaliveUnlocks, ProxyTypeOK, taskVars,
     writerVars, outbound_peers
<1>6. ASSUME NEW p \in keepalive_todo, KeepaliveSends(p) PROVE ProxyTypeOK'
  <2>1. write_queue' \in [PeerId -> 0..WriteCap]
    BY <1>0, <1>6, DeliverType DEF KeepaliveSends, ProxyTypeOK
  <2> QED
    BY <1>0, <1>6, <2>1 DEF KeepaliveSends, ProxyTypeOK, taskVars
<1>7. CASE UNCHANGED proxyVars
  BY <1>0, <1>7 DEF proxyVars, taskVars, writerVars, loopVars, ProxyTypeOK
<1> QED
  BY <1>1, <1>2, <1>3, <1>4, <1>5, <1>6, <1>7 DEF ProxyNext, MainStep, KeepaliveStep

----------------------------------------------------------------------------
(* The theorems *)

\* main starts with no connection and empty channels.
LEMMA ProxyInitially == ProxyInit => ProxyInv
<1> SUFFICES ASSUME ProxyInit PROVE ProxyInv
  OBVIOUS
<1>1. RouterInv
  BY InitInv DEF ProxyInit
<1>2. ProxyTypeOK
  BY <1>1, ProxyAssumption, SMTT(30) DEF ProxyInit, ProxyTypeOK, RouterInv, TaskState
<1>3. QueuedEvents = {} /\ Len(events) = 0
  BY SMTT(30) DEF ProxyInit, QueuedEvents
<1>4. EventsFollowTasks /\ EventsOfRegistered /\ DisconnectionIsLast
  BY <1>3, SMTT(30) DEF EventsFollowTasks, EventsOfRegistered, DisconnectionIsLast
<1>5. RegistryFollowsTasks
  BY <1>3 DEF ProxyInit, RouterInit, EmptyMap, RegistryFollowsTasks, Registered
<1>6. TablesAfterSetup /\ ModifierTrafficAfterSetup
  BY DEF ProxyInit, RouterInit, EmptyMap, TablesAfterSetup, ModifierTrafficAfterSetup
<1> QED
  BY <1>1, <1>2, <1>4, <1>5, <1>6 DEF ProxyInv, TasksInv

\* The inductive invariant holds in every reachable state of the proxy: all that is
\* proved of the router by itself, and what ties it to the tasks and the channel.
THEOREM ProxyInvariant == ProxySpec => []ProxyInv
<1>1. ProxyInv /\ [ProxyNext]_proxyVars => ProxyInv'
  BY RouterStep, TasksStep, TypesStep DEF ProxyInv
<1> QED
  BY <1>1, ProxyInitially, PTL DEF ProxySpec

\* No channel of main.rs ever holds more than its capacity, whatever it is.
THEOREM ProxyTypeCorrect == ProxySpec => []ProxyTypeOK
<1>1. ProxyInv => ProxyTypeOK
  BY DEF ProxyInv
<1> QED
  BY <1>1, ProxyInvariant, PTL

\* handle_event is only given events of registered peers (router.rs:5), for any number
\* of connections.
THEOREM EventsAreOfRegistered == ProxySpec => []EventsOfRegistered
<1>1. ProxyInv => EventsOfRegistered
  BY DEF ProxyInv, TasksInv
<1> QED
  BY <1>1, ProxyInvariant, PTL

\* The router knows a peer exactly from the start of its run_peer until its
\* PeerDisconnected has been handled (main.rs:365 to main.rs:418).
THEOREM RegistryIsExact == ProxySpec => []RegistryFollowsTasks
<1>1. ProxyInv => RegistryFollowsTasks
  BY DEF ProxyInv, TasksInv
<1> QED
  BY <1>1, ProxyInvariant, PTL

\* PeerDisconnected is the last event of its peer (main.rs:418).
THEOREM NothingAfterDisconnection == ProxySpec => []DisconnectionIsLast
<1>1. ProxyInv => DisconnectionIsLast
  BY DEF ProxyInv, TasksInv
<1> QED
  BY <1>1, ProxyInvariant, PTL

\* Requests and responses are only addressed to peers whose sender has been published
\* (main.rs:379).
THEOREM ModifierTrafficIsLate == ProxySpec => []ModifierTrafficAfterSetup
<1>1. ProxyInv => ModifierTrafficAfterSetup
  BY DEF ProxyInv, TasksInv
<1> QED
  BY <1>1, ProxyInvariant, PTL

----------------------------------------------------------------------------
(* The tasks follow PeerStateMachine *)

\* When a task goes from one stage to the next, the PeerState of its peer follows, and
\* that of no other (protocol/peer.rs).
LEMMA StatesMove ==
    ASSUME ProxyTypeOK, NEW p \in PeerId, NEW from, NEW to, Advance(p, from, to)
    PROVE  /\ PeerStates[p] = StateOf(from)
           /\ PeerStates' = [PeerStates EXCEPT ![p] = StateOf(to)]
<1>1. \A q \in PeerId : task'[q] = IF q = p THEN to ELSE task[q]
  BY DEF Advance, ProxyTypeOK
<1>2. /\ PeerStates = [q \in PeerId |-> StateOf(task[q])]
      /\ PeerStates' = [q \in PeerId |-> StateOf(task'[q])]
  BY DEF PeerStates, StateOf
<1>3. \A q \in PeerId : StateOf(task'[q]) = IF q = p THEN StateOf(to) ELSE StateOf(task[q])
  BY <1>1 DEF StateOf
<1> QED
  BY <1>2, <1>3 DEF Advance

\* Every step of main.rs is a transition of PeerStateMachine, the receipt of an event by
\* the router, or nothing the state machine knows of.
LEMMA LifecycleStep ==
    ASSUME ProxyInv, [ProxyNext]_proxyVars
    PROVE  [Lifecycle!Next]_(Lifecycle!lifecycleVars)
<1>0. ProxyTypeOK
  BY DEF ProxyInv
<1> USE DEF Lifecycle!Move, Lifecycle!Emit, Lifecycle!lifecycleVars
<1>1. CASE UNCHANGED <<task, events>>
  BY <1>1 DEF PeerStates
<1>2. ASSUME NEW p \in PeerId, PeerStep(p) PROVE [Lifecycle!Next]_(Lifecycle!lifecycleVars)
  <2>1. CASE Spawn(p)
    <3>1. PeerStates[p] = "Connecting" /\ PeerStates' = [PeerStates EXCEPT ![p] = "Handshaking"]
      BY <1>0, <2>1, StatesMove, SMTT(30) DEF Spawn, StateOf
    <3> QED
      BY <2>1, <3>1 DEF Spawn, Lifecycle!SetHandshaking, Lifecycle!Next
  <2>2. CASE HandshakeFails(p)
    <3>1. PeerStates[p] = "Handshaking" /\ PeerStates' = [PeerStates EXCEPT ![p] = "Failed"]
      BY <1>0, <2>2, StatesMove, SMTT(30) DEF HandshakeFails, StateOf
    <3> QED
      BY <2>2, <3>1 DEF HandshakeFails, Lifecycle!SetFailed, Lifecycle!Next
  <2>3. CASE SendConnected(p)
    <3>1. PeerStates[p] = "Handshaking" /\ PeerStates' = [PeerStates EXCEPT ![p] = "Active"]
      BY <1>0, <2>3, StatesMove, SMTT(30) DEF SendConnected, StateOf
    <3> QED
      BY <2>3, <3>1 DEF SendConnected, SendEvent, Lifecycle!SetActive, Lifecycle!Next
  <2>4. ASSUME NEW message \in Incoming, ReadMessage(p, message)
        PROVE  [Lifecycle!Next]_(Lifecycle!lifecycleVars)
    <3>1. PeerStates[p] = "Active" /\ UNCHANGED PeerStates
      BY <2>4 DEF ReadMessage, PeerStates, StateOf, taskVars
    <3> QED
      BY <2>4, <3>1 DEF ReadMessage, SendEvent, Lifecycle!MessageEvent, Lifecycle!Next
  <2>5. CASE SendDisconnected(p)
    <3>1. PeerStates[p] = "Active" /\ PeerStates' = [PeerStates EXCEPT ![p] = "Disconnected"]
      BY <1>0, <2>5, StatesMove, SMTT(30) DEF SendDisconnected, StateOf
    <3> QED
      BY <2>5, <3>1 DEF SendDisconnected, SendEvent, Lifecycle!SetDisconnected, Lifecycle!Next
  <2>6. CASE Register(p) \/ InsertSender(p) \/ ReadFails(p) \/ RemoveSender(p)
    <3>1. PeerStates' = [PeerStates EXCEPT ![p] = PeerStates[p]]
      BY <1>0, <2>6, StatesMove, SMTT(30) DEF Register, InsertSender, ReadFails, RemoveSender, StateOf
    <3>2. UNCHANGED PeerStates
      BY <3>1 DEF PeerStates
    <3> QED
      BY <2>6, <3>2 DEF Register, InsertSender, ReadFails, RemoveSender
  <2>7. CASE WriterTakes(p) \/ WriterWrites(p) \/ WriterFails(p) \/ RemoteStalls(p)
    BY <1>1, <2>7 DEF WriterTakes, WriterWrites, WriterFails, RemoteStalls, taskVars
  <2> QED
    BY <1>2, <2>1, <2>2, <2>3, <2>4, <2>5, <2>6, <2>7 DEF PeerStep
<1>3. CASE MainReceives
  <2>1. UNCHANGED PeerStates
    BY <1>3 DEF MainReceives, taskVars, PeerStates
  <2> QED
    BY <1>3, <2>1 DEF MainReceives, Lifecycle!Receive, Lifecycle!Next
<1>4. CASE MainLocks \/ MainUnlocks \/ \E action \in actions : MainSends(action)
  BY <1>1, <1>4 DEF MainLocks, MainUnlocks, MainSends, taskVars
<1>5. CASE KeepaliveStep
  BY <1>1, <1>5 DEF KeepaliveStep, KeepaliveTicks, KeepaliveLocks, KeepaliveSends,
     KeepaliveUnlocks, taskVars
<1>6. CASE UNCHANGED proxyVars
  BY <1>1, <1>6 DEF proxyVars, taskVars
<1> QED
  BY <1>2, <1>3, <1>4, <1>5, <1>6 DEF ProxyNext, MainStep

\* The tasks of main.rs take every peer through the states of PeerStateMachine and put
\* exactly its events on the channel, for any number of peers (protocol/peer.rs).
THEOREM ProxyFollowsLifecycle == ProxySpec => FollowsLifecycle
<1>1. ProxyInit => Lifecycle!Init
  BY DEF ProxyInit, Lifecycle!Init, PeerStates, StateOf
<1>2. ProxyInv /\ [ProxyNext]_proxyVars => [Lifecycle!Next]_(Lifecycle!lifecycleVars)
  BY LifecycleStep
<1> QED
  BY <1>1, <1>2, ProxyInvariant, PTL DEF ProxySpec, FollowsLifecycle, Lifecycle!Spec

=============================================================================
