-------------------------------- MODULE Proxy -------------------------------
(***************************************************************************)
(* The running proxy (main.rs): one run_peer task and one writer task for  *)
(* each connection, the main event loop and the keepalive task, around the *)
(* router of Router.tla.  They share the bounded event channel, the map    *)
(* peer_senders with its mutex, and one bounded write channel per peer.    *)
(*                                                                         *)
(* Each await that can block is a step of its own.  The router mutex is    *)
(* never held across an await, so a call of the router is one step; the    *)
(* mutex of peer_senders is held across sends and is modelled.  Taking an  *)
(* event off the channel and handling it is one step too: what other tasks *)
(* do between the two reads no more than one of them changes, and so could *)
(* as well come before or after both.                                      *)
(***************************************************************************)
EXTENDS Router, Sequences, Naturals

CONSTANTS
    Profile,      \* the direction and mode with which each peer connects
    Incoming,     \* the messages remote peers send
    EventCap,     \* capacity of the event channel (256)
    WriteCap,     \* capacity of a write channel (64)
    Stallable     \* remote peers that may stop reading from their socket

ASSUME ProxyAssumption ==
    /\ Profile \in [PeerId -> {e \in PeerEntry : e.direction = "Outbound" => e.mode = "Full"}]
    /\ Incoming \subseteq ProtocolMessage
    /\ EventCap \in Nat \ {0}
    /\ WriteCap \in Nat \ {0}
    /\ Stallable \subseteq PeerId

VARIABLES
    task,            \* how far the task of each connection has come
    events,          \* the event channel
    peer_senders,    \* the peers with an entry in peer_senders
    senders_lock,    \* who holds the peer_senders mutex across an await
    write_queue,     \* number of frames in each write channel
    writer,          \* the writer task of each connection
    main,            \* where the main loop is
    keepalive,       \* where the keepalive task is
    keepalive_todo,  \* the outbound peers it still has to send to
    stalled          \* remote peers that have stopped reading

taskVars == <<task, peer_senders>>
writerVars == <<writer, write_queue>>
loopVars == <<main, keepalive, keepalive_todo, senders_lock>>
proxyVars == <<routerVars, taskVars, writerVars, loopVars, events, stalled>>

\* absent, then the handshake, then the stages of run_peer: registered, connected
\* (PeerConnected sent), reading, closing (reader loop left), removed (sender
\* removed, writer aborted), gone (PeerDisconnected sent).
TaskState == {"absent", "handshaking", "failed", "registered", "connected",
              "reading", "closing", "removed", "gone"}

\* The tasks, channels and locks of main.rs have their types; no channel ever holds
\* more than its capacity.
ProxyTypeOK ==
    /\ TypeOK
    /\ task \in [PeerId -> TaskState]
    /\ events \in Seq(ProtocolEvent)
    /\ Len(events) <= EventCap
    /\ peer_senders \subseteq PeerId
    /\ senders_lock \in {"free", "main", "keepalive"}
    /\ write_queue \in [PeerId -> 0..WriteCap]
    /\ writer \in [PeerId -> {"none", "recv", "writing", "stopped"}]
    /\ main \in {"recv", "lock", "send"}
    /\ keepalive \in {"tick", "lock", "send"}
    /\ keepalive_todo \subseteq PeerId
    /\ stalled \subseteq Stallable

ProxyInit ==
    /\ RouterInit
    /\ task = [p \in PeerId |-> "absent"]
    /\ events = <<>>
    /\ peer_senders = {}
    /\ senders_lock = "free"
    /\ write_queue = [p \in PeerId |-> 0]
    /\ writer = [p \in PeerId |-> "none"]
    /\ main = "recv"
    /\ keepalive = "tick"
    /\ keepalive_todo = {}
    /\ stalled = {}

----------------------------------------------------------------------------
(* The task of a connection *)

Advance(p, from, to) ==
    /\ task[p] = from
    /\ task' = [task EXCEPT ![p] = to]

\* Mutant: the event channel is unbounded.
SendEventUnbounded(event) == events' = Append(events, event)

\* event_tx.send(event).await
SendEvent(event) ==
    /\ Len(events) < EventCap
    /\ events' = Append(events, event)

\* accept_loop or outbound_manager has a TCP connection and spawns the task.
Spawn(p) ==
    /\ Advance(p, "absent", "handshaking")
    /\ UNCHANGED <<routerVars, peer_senders, writerVars, loopVars, events, stalled>>

HandshakeFails(p) ==
    /\ Advance(p, "handshaking", "failed")
    /\ UNCHANGED <<routerVars, peer_senders, writerVars, loopVars, events, stalled>>

\* run_peer starts by registering the peer.
Register(p) ==
    /\ Advance(p, "handshaking", "registered")
    /\ RegisterPeer(p, Profile[p].direction, Profile[p].mode)
    /\ UNCHANGED <<peer_senders, writerVars, loopVars, events, stalled>>

SendConnected(p) ==
    /\ Advance(p, "registered", "connected")
    /\ SendEvent([type |-> "PeerConnected", peer_id |-> p])
    /\ UNCHANGED <<routerVars, peer_senders, writerVars, loopVars, stalled>>

\* The write channel is made, its sender published, and the writer spawned.
InsertSender(p) ==
    /\ senders_lock = "free"
    /\ Advance(p, "connected", "reading")
    /\ peer_senders' = peer_senders \cup {p}
    /\ writer' = [writer EXCEPT ![p] = "recv"]
    /\ UNCHANGED <<routerVars, write_queue, loopVars, events, stalled>>

\* Mutant: the reader outlives the cleanup of its peer.
ReadMessageDetached(p, message) ==
    /\ task[p] \in {"reading", "closing", "removed", "gone"}
    /\ SendEvent([type |-> "Message", peer_id |-> p, message |-> message])
    /\ UNCHANGED <<routerVars, taskVars, writerVars, loopVars, stalled>>

\* Mutant: the reader starts before the sender is published.
ReadMessageEarly(p, message) ==
    /\ task[p] \in {"connected", "reading"}
    /\ SendEvent([type |-> "Message", peer_id |-> p, message |-> message])
    /\ UNCHANGED <<routerVars, taskVars, writerVars, loopVars, stalled>>

\* A frame that parses becomes an event; one that does not is skipped.
ReadMessage(p, message) ==
    /\ task[p] = "reading"
    /\ SendEvent([type |-> "Message", peer_id |-> p, message |-> message])
    /\ UNCHANGED <<routerVars, taskVars, writerVars, loopVars, stalled>>

\* read_frame fails: end of stream, reset, or a frame that does not decode.
ReadFails(p) ==
    /\ Advance(p, "reading", "closing")
    /\ UNCHANGED <<routerVars, peer_senders, writerVars, loopVars, events, stalled>>

\* Cleanup: the sender is removed and the writer aborted.
RemoveSender(p) ==
    /\ senders_lock = "free"
    /\ Advance(p, "closing", "removed")
    /\ peer_senders' = peer_senders \ {p}
    /\ writer' = [writer EXCEPT ![p] = "stopped"]
    /\ write_queue' = [write_queue EXCEPT ![p] = 0]
    /\ UNCHANGED <<routerVars, loopVars, events, stalled>>

\* Mutant: the event is given up when the channel is full (try_send).
SendDisconnectedTry(p) ==
    /\ Advance(p, "removed", "gone")
    /\ IF Len(events) < EventCap
       THEN SendEvent([type |-> "PeerDisconnected", peer_id |-> p])
       ELSE UNCHANGED events
    /\ UNCHANGED <<routerVars, peer_senders, writerVars, loopVars, stalled>>

SendDisconnected(p) ==
    /\ Advance(p, "removed", "gone")
    /\ SendEvent([type |-> "PeerDisconnected", peer_id |-> p])
    /\ UNCHANGED <<routerVars, peer_senders, writerVars, loopVars, stalled>>

----------------------------------------------------------------------------
(* The writer task of a connection *)

WriterTakes(p) ==
    /\ writer[p] = "recv"
    /\ write_queue[p] > 0
    /\ writer' = [writer EXCEPT ![p] = "writing"]
    /\ write_queue' = [write_queue EXCEPT ![p] = @ - 1]
    /\ UNCHANGED <<routerVars, taskVars, loopVars, events, stalled>>

\* The socket takes the frame, which it does only as long as the remote peer reads.
WriterWrites(p) ==
    /\ writer[p] = "writing"
    /\ p \notin stalled
    /\ writer' = [writer EXCEPT ![p] = "recv"]
    /\ UNCHANGED <<routerVars, taskVars, write_queue, loopVars, events, stalled>>

\* write_frame fails: the writer ends and drops the receiving end.
WriterFails(p) ==
    /\ writer[p] = "writing"
    /\ writer' = [writer EXCEPT ![p] = "stopped"]
    /\ write_queue' = [write_queue EXCEPT ![p] = 0]
    /\ UNCHANGED <<routerVars, taskVars, loopVars, events, stalled>>

RemoteStalls(p) ==
    /\ p \in Stallable \ stalled
    /\ stalled' = stalled \cup {p}
    /\ UNCHANGED <<routerVars, taskVars, writerVars, loopVars, events>>

----------------------------------------------------------------------------
(* tx.send(frame).await for the peers of the map *)

\* Nothing happens without a sender, or when the receiving end is gone; a full
\* channel blocks.
Deliver(target) ==
    \/ /\ target \notin peer_senders \/ writer[target] = "stopped"
       /\ UNCHANGED write_queue
    \/ /\ target \in peer_senders
       /\ writer[target] # "stopped"
       /\ write_queue[target] < WriteCap
       /\ write_queue' = [write_queue EXCEPT ![target] = @ + 1]

----------------------------------------------------------------------------
(* The main event loop *)

MainReceives ==
    /\ main = "recv"
    /\ events # <<>>
    /\ HandleEvent(Head(events))
    /\ events' = Tail(events)
    /\ main' = "lock"
    /\ UNCHANGED <<taskVars, writerVars, keepalive, keepalive_todo, senders_lock, stalled>>

MainLocks ==
    /\ main = "lock"
    /\ senders_lock = "free"
    /\ senders_lock' = "main"
    /\ main' = "send"
    /\ UNCHANGED <<routerVars, taskVars, writerVars, keepalive, keepalive_todo, events, stalled>>

MainSends(action) ==
    /\ main = "send"
    /\ Deliver(action.target)
    /\ actions' = actions \ {action}
    /\ UNCHANGED <<peers, tables, issued, taskVars, writer, loopVars, events, stalled>>

\* Mutant: the guard of peer_senders outlives the iteration.
MainUnlocksLate ==
    /\ main = "send"
    /\ actions = {}
    /\ main' = "recv"
    /\ UNCHANGED <<routerVars, taskVars, writerVars, keepalive, keepalive_todo,
                   senders_lock, events, stalled>>

MainUnlocks ==
    /\ main = "send"
    /\ actions = {}
    /\ senders_lock' = "free"
    /\ main' = "recv"
    /\ UNCHANGED <<routerVars, taskVars, writerVars, keepalive, keepalive_todo, events, stalled>>

----------------------------------------------------------------------------
(* The keepalive task *)

KeepaliveTicks ==
    /\ keepalive = "tick"
    /\ keepalive' = "lock"
    /\ keepalive_todo' = outbound_peers
    /\ UNCHANGED <<routerVars, taskVars, writerVars, main, senders_lock, events, stalled>>

KeepaliveLocks ==
    /\ keepalive = "lock"
    /\ senders_lock = "free"
    /\ senders_lock' = "keepalive"
    /\ keepalive' = "send"
    /\ UNCHANGED <<routerVars, taskVars, writerVars, main, keepalive_todo, events, stalled>>

KeepaliveSends(p) ==
    /\ keepalive = "send"
    /\ Deliver(p)
    /\ keepalive_todo' = keepalive_todo \ {p}
    /\ UNCHANGED <<routerVars, taskVars, writer, main, keepalive, senders_lock, events, stalled>>

KeepaliveUnlocks ==
    /\ keepalive = "send"
    /\ keepalive_todo = {}
    /\ senders_lock' = "free"
    /\ keepalive' = "tick"
    /\ UNCHANGED <<routerVars, taskVars, writerVars, main, keepalive_todo, events, stalled>>

----------------------------------------------------------------------------

PeerStep(p) ==
    \/ Spawn(p)
    \/ HandshakeFails(p)
    \/ Register(p)
    \/ SendConnected(p)
    \/ InsertSender(p)
    \/ \E message \in Incoming : ReadMessage(p, message)
    \/ ReadFails(p)
    \/ RemoveSender(p)
    \/ SendDisconnected(p)
    \/ WriterTakes(p)
    \/ WriterWrites(p)
    \/ WriterFails(p)
    \/ RemoteStalls(p)

MainStep ==
    \/ MainReceives
    \/ MainLocks
    \/ \E action \in actions : MainSends(action)
    \/ MainUnlocks

KeepaliveStep ==
    \/ KeepaliveTicks
    \/ KeepaliveLocks
    \/ \E p \in keepalive_todo : KeepaliveSends(p)
    \/ KeepaliveUnlocks

ProxyNext ==
    \/ \E p \in PeerId : PeerStep(p)
    \/ MainStep
    \/ KeepaliveStep

ProxySpec == ProxyInit /\ [][ProxyNext]_proxyVars

----------------------------------------------------------------------------
(* Fairness *)

\* A task that can go on does.  Strong fairness where it waits for a mutex or for
\* room in a channel that others also use: tokio grants both in the order of
\* arrival.  Nothing is assumed of remote peers, of new connections or of errors,
\* except that a socket whose peer reads takes the frame.
\* The run_peer tasks need none before they hold a lock or a channel slot, and the
\* keepalive task none before it holds the mutex.
ProxyFairness ==
    /\ WF_proxyVars(MainReceives)
    /\ SF_proxyVars(MainLocks)
    /\ WF_proxyVars(\E action \in actions : MainSends(action))
    /\ WF_proxyVars(MainUnlocks)
    /\ WF_proxyVars(\E p \in keepalive_todo : KeepaliveSends(p))
    /\ WF_proxyVars(KeepaliveUnlocks)
    /\ \A p \in PeerId :
          /\ SF_proxyVars(RemoveSender(p))
          /\ SF_proxyVars(SendDisconnected(p))
          /\ WF_proxyVars(WriterTakes(p))
          /\ WF_proxyVars(WriterWrites(p))

FairProxySpec == ProxySpec /\ ProxyFairness

----------------------------------------------------------------------------
(* Properties *)

Disconnection(p) == [type |-> "PeerDisconnected", peer_id |-> p]

QueuedEvents == {events[i] : i \in 1..Len(events)}

\* handle_event is only ever given events of registered peers, the precondition of
\* its contract (router.rs:5), although the peer's task, the channel and the
\* main loop are not synchronised.
EventsOfRegistered == \A e \in QueuedEvents : Registered(e.peer_id)

\* No peer leaks and none is forgotten early: the router knows a peer from the
\* start of its run_peer until the main loop has handled the PeerDisconnected its
\* cleanup sends.
RegistryFollowsTasks ==
    \A p \in PeerId :
        Registered(p) <=>
            \/ task[p] \in {"registered", "connected", "reading", "closing", "removed"}
            \/ task[p] = "gone" /\ Disconnection(p) \in QueuedEvents

\* PeerDisconnected is the last event of its peer: no message of a peer is routed
\* after its tables have been purged.
DisconnectionIsLast ==
    \A i, j \in 1..Len(events) :
        i < j /\ events[i].type = "PeerDisconnected"
            => events[i].peer_id # events[j].peer_id

\* Modifier requests and responses are never lost to the gap between register_peer
\* (main.rs:365) and the insertion of the sender (main.rs:379): by the time a peer
\* can be asked or served, its sender has been published.
ModifierTrafficAfterSetup ==
    \A a \in actions :
        a.message.kind \in {"ModifierRequest", "ModifierResponse"}
            => task[a.target] \in {"reading", "closing", "removed", "gone"}

\* A peer's PeerState read off the progress of its task.
StateOf(stage) ==
    CASE stage = "absent" -> "Connecting"
      [] stage \in {"handshaking", "registered"} -> "Handshaking"
      [] stage = "failed" -> "Failed"
      [] stage = "gone" -> "Disconnected"
      [] OTHER -> "Active"

PeerStates == [p \in PeerId |-> StateOf(task[p])]

Lifecycle == INSTANCE PeerLifecycle WITH
    Message <- Incoming,
    queue <- events,
    state <- PeerStates

\* The tasks of main.rs take every peer through the states of PeerStateMachine
\* (protocol/peer.rs) in order, and put exactly the events on the channel that its
\* transitions produce.
FollowsLifecycle == Lifecycle!Spec

\* "Connection errors: mark peer as disconnected, trigger Inv table and request
\* tracker cleanup" (design, line 330): once its read side has failed, a peer is
\* eventually unregistered, whatever the peers in Stallable do.
LostPeerIsUnregistered ==
    \A p \in PeerId \ Stallable : task[p] = "closing" ~> ~Registered(p)

\* The main loop keeps coming back for the next event.
MainLoopReturns == []<>(main = "recv")

=============================================================================
