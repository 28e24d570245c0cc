--------------------------- MODULE PeerLifecycle ----------------------------
(***************************************************************************)
(* The life of a peer as PeerStateMachine (protocol/peer.rs) lays it down, *)
(* and the events its transitions put on the channel to the router.  The   *)
(* preconditions are the debug_assert of each method.  main.rs does not    *)
(* drive this state machine: its tasks do the same steps in line, and      *)
(* Proxy.tla is shown to follow it.                                        *)
(***************************************************************************)
EXTENDS Sequences

CONSTANTS PeerId, Message

VARIABLES
    state,    \* the PeerState of each peer
    queue     \* the events on their way to the router

lifecycleVars == <<state, queue>>

PeerState == {"Connecting", "Handshaking", "Active", "Disconnected", "Failed"}

Init ==
    /\ state = [p \in PeerId |-> "Connecting"]
    /\ queue = <<>>

Move(p, from, to) ==
    /\ state[p] = from
    /\ state' = [state EXCEPT ![p] = to]

Emit(event) == queue' = Append(queue, event)

SetHandshaking(p) ==
    /\ Move(p, "Connecting", "Handshaking")
    /\ UNCHANGED queue

SetActive(p) ==
    /\ Move(p, "Handshaking", "Active")
    /\ Emit([type |-> "PeerConnected", peer_id |-> p])

SetDisconnected(p) ==
    /\ Move(p, "Active", "Disconnected")
    /\ Emit([type |-> "PeerDisconnected", peer_id |-> p])

SetFailed(p) ==
    /\ Move(p, "Handshaking", "Failed")
    /\ UNCHANGED queue

MessageEvent(p, message) ==
    /\ state[p] = "Active"
    /\ Emit([type |-> "Message", peer_id |-> p, message |-> message])
    /\ UNCHANGED state

\* The router takes the oldest event.
Receive ==
    /\ queue # <<>>
    /\ queue' = Tail(queue)
    /\ UNCHANGED state

Next ==
    \/ \E p \in PeerId :
          \/ SetHandshaking(p)
          \/ SetActive(p)
          \/ SetDisconnected(p)
          \/ SetFailed(p)
          \/ \E message \in Message : MessageEvent(p, message)
    \/ Receive

Spec == Init /\ [][Next]_lifecycleVars

=============================================================================
