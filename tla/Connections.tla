---------------------------- MODULE Connections -----------------------------
(***************************************************************************)
(* How connections come to be (main.rs): one accept_loop per listener and  *)
(* the outbound_manager, which both decide on the number of REGISTERED     *)
(* peers, while a connection is registered only when its handshake, up to  *)
(* 30 seconds later, has succeeded.                                        *)
(*                                                                         *)
(* What a connection does once it is registered is Proxy.tla; here it only *)
(* ends.  Time is left out: a sleep or a timeout ends some time.           *)
(***************************************************************************)
EXTENDS Naturals, FiniteSets

CONSTANTS
    Slot,           \* bound: at most this many connections at a time
    Listener,       \* the configured listeners
    MaxInbound,     \* max_inbound of each listener
    MinPeers,       \* min_peers
    MaxPeers,       \* max_peers: checked by Config::load and not used after it
    SeedCount,      \* number of seed_peers
    None

\* Config::load refuses to start without a listener or a seed, or with min_peers above
\* max_peers.
LoadAccepts ==
    /\ Listener # {}
    /\ SeedCount # 0
    /\ MinPeers <= MaxPeers

ASSUME ConfigAssumption ==
    /\ MaxInbound \in [Listener -> Nat]
    /\ MinPeers \in Nat /\ MaxPeers \in Nat /\ SeedCount \in Nat
    /\ LoadAccepts

InitialBackoff == 5

MaxBackoff == 300

VARIABLES
    connection,    \* each slot: None, or a connection's direction and stage
    manager,       \* where outbound_manager is
    seed,          \* the seed it is at
    backoff        \* its delay before the next round, in seconds

connectionVars == <<connection, manager, seed, backoff>>

Connection == [direction : {"Inbound", "Outbound"}, stage : {"handshaking", "registered"}]

\* The slots and the manager's position have their types; the loop over the seeds
\* never runs past its end (main.rs:286), and the delay stays between its first value
\* and its ceiling (main.rs:281 and 341).
ConnectionsTypeOK ==
    /\ connection \in [Slot -> Connection \cup {None}]
    /\ manager \in {"check", "seeds", "connecting", "sleep"}
    /\ seed \in 1..SeedCount + 1
    /\ backoff \in InitialBackoff..MaxBackoff

\* Router::inbound_peers and Router::outbound_peers.
RegisteredPeers(direction) ==
    {c \in Slot : connection[c] = [direction |-> direction, stage |-> "registered"]}

Init ==
    /\ connection = [c \in Slot |-> None]
    /\ manager = "check"
    /\ seed = 1
    /\ backoff = InitialBackoff

----------------------------------------------------------------------------
(* One connection *)

Open(c, direction) ==
    /\ connection[c] = None
    /\ connection' = [connection EXCEPT
                        ![c] = [direction |-> direction, stage |-> "handshaking"]]

\* The handshake succeeds and run_peer registers the peer.
HandshakeSucceeds(c) ==
    /\ connection[c] # None
    /\ connection[c].stage = "handshaking"
    /\ connection' = [connection EXCEPT ![c].stage = "registered"]
    /\ UNCHANGED <<manager, seed, backoff>>

\* The handshake fails or times out, or an outbound peer turns out to be a proxy.
HandshakeEnds(c) ==
    /\ connection[c] # None
    /\ connection[c].stage = "handshaking"
    /\ connection' = [connection EXCEPT ![c] = None]
    /\ UNCHANGED <<manager, seed, backoff>>

\* The connection is lost and the router has handled PeerDisconnected.
Drops(c) ==
    /\ connection[c] # None
    /\ connection[c].stage = "registered"
    /\ connection' = [connection EXCEPT ![c] = None]
    /\ UNCHANGED <<manager, seed, backoff>>

----------------------------------------------------------------------------
(* accept_loop *)

\* An incoming connection is taken while there are fewer registered inbound peers
\* than the listener's limit; otherwise it is closed and nothing changes.
Accept(listener, c) ==
    /\ Cardinality(RegisteredPeers("Inbound")) < MaxInbound[listener]
    /\ Open(c, "Inbound")
    /\ UNCHANGED <<manager, seed, backoff>>

----------------------------------------------------------------------------
(* outbound_manager *)

Enough == Cardinality(RegisteredPeers("Outbound")) >= MinPeers

\* Mutant: one peer too few counts as enough.
ManagerChecksOffByOne ==
    /\ manager = "check"
    /\ manager' = IF Cardinality(RegisteredPeers("Outbound")) + 1 >= MinPeers
                  THEN "sleep" ELSE "seeds"
    /\ seed' = 1
    /\ UNCHANGED <<connection, backoff>>

\* The head of the loop.
ManagerChecks ==
    /\ manager = "check"
    /\ manager' = IF Enough THEN "sleep" ELSE "seeds"
    /\ seed' = 1
    /\ UNCHANGED <<connection, backoff>>

\* The head of the loop over the seeds: it ends with the seeds or with enough peers.
ManagerPicksSeed ==
    /\ manager = "seeds"
    /\ manager' = IF seed > SeedCount \/ Enough THEN "sleep" ELSE "connecting"
    /\ UNCHANGED <<connection, seed, backoff>>

\* TCP connects: the handshake is left to a task of its own.
ConnectSucceeds(c) ==
    /\ manager = "connecting"
    /\ Open(c, "Outbound")
    /\ manager' = "seeds"
    /\ seed' = seed + 1
    /\ backoff' = InitialBackoff

\* TCP is refused or times out.
ConnectFails ==
    /\ manager = "connecting"
    /\ manager' = "seeds"
    /\ seed' = seed + 1
    /\ UNCHANGED <<connection, backoff>>

\* Mutant: the delay doubles without a ceiling.
ManagerSleepsUncapped ==
    /\ manager = "sleep"
    /\ manager' = "check"
    /\ backoff' = IF backoff > 2 * MaxBackoff THEN backoff ELSE backoff * 2
    /\ UNCHANGED <<connection, seed>>

\* The sleep ends; the delay of the next one is doubled.
ManagerSleeps ==
    /\ manager = "sleep"
    /\ manager' = "check"
    /\ backoff' = IF backoff * 2 < MaxBackoff THEN backoff * 2 ELSE MaxBackoff
    /\ UNCHANGED <<connection, seed>>

----------------------------------------------------------------------------

Next ==
    \/ \E c \in Slot :
          \/ HandshakeSucceeds(c)
          \/ HandshakeEnds(c)
          \/ Drops(c)
          \/ \E listener \in Listener : Accept(listener, c)
          \/ ConnectSucceeds(c)
    \/ ManagerChecks
    \/ ManagerPicksSeed
    \/ ConnectFails
    \/ ManagerSleeps

\* The manager's own steps are taken; a connection attempt ends one way or the
\* other, because it has a timeout of 10 seconds.
Fairness ==
    /\ WF_connectionVars(ManagerChecks)
    /\ WF_connectionVars(ManagerPicksSeed)
    /\ WF_connectionVars(ConnectFails \/ \E c \in Slot : ConnectSucceeds(c))
    /\ WF_connectionVars(ManagerSleeps)

Spec == Init /\ [][Next]_connectionVars /\ Fairness

----------------------------------------------------------------------------
(* Properties *)

\* "schedule reconnect if outbound" (design, line 330): as long as there are too few
\* outbound peers the manager dials every seed again and again, however connection
\* attempts, pending handshakes and dropped peers fall; no seed is starved by the
\* ones before it.
EverySeedDialled ==
    \A s \in 1..SeedCount : []<>(Enough \/ (manager = "connecting" /\ seed = s))

\* "Reconnect on drop with exponential backoff (30s, 60s, 120s, 240s, max 300s)"
\* (design, line 251): while outbound peers are missing, the manager waits one of
\* these delays before it dials again.  The code does not keep it (main.rs:281, 328):
\* it starts at 5 s, and starts over whenever a TCP connection is made, even one whose
\* handshake fails.
DesignBackoff ==
    manager = "sleep" /\ ~Enough => backoff \in {30, 60, 120, 240, 300}

=============================================================================
