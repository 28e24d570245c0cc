------------------------- MODULE ConnectionsProofs --------------------------
(* The invariants of Connections.tla, for any limits, seeds and slots. *)
EXTENDS Connections, TLAPS

\* What every step preserves.  The manager is at a seed when it dials.
ConnectionsInv ==
    /\ ConnectionsTypeOK
    /\ manager = "connecting" => seed <= SeedCount

\* outbound_manager starts at its first seed with the initial delay (main.rs:281).
LEMMA ConnectionsInitially == Init => ConnectionsInv
BY ConfigAssumption
   DEF Init, ConnectionsInv, ConnectionsTypeOK, LoadAccepts, InitialBackoff, MaxBackoff

\* Every step of the listeners, of the connections and of outbound_manager keeps the
\* inductive invariant (main.rs:218-343).
LEMMA ConnectionsStep == ConnectionsInv /\ [Next]_connectionVars => ConnectionsInv'
<1> SUFFICES ASSUME ConnectionsInv, [Next]_connectionVars PROVE ConnectionsInv'
    OBVIOUS
<1> USE ConfigAssumption DEF ConnectionsInv, ConnectionsTypeOK, LoadAccepts
<1>1. ASSUME NEW c \in Slot, HandshakeSucceeds(c) PROVE ConnectionsInv'
    BY <1>1 DEF HandshakeSucceeds, Connection
<1>2. ASSUME NEW c \in Slot, HandshakeEnds(c) PROVE ConnectionsInv'
    BY <1>2 DEF HandshakeEnds
<1>3. ASSUME NEW c \in Slot, Drops(c) PROVE ConnectionsInv'
    BY <1>3 DEF Drops
<1>4. ASSUME NEW c \in Slot, NEW listener \in Listener, Accept(listener, c)
      PROVE ConnectionsInv'
    BY <1>4 DEF Accept, Open, Connection
<1>5. ASSUME NEW c \in Slot, ConnectSucceeds(c) PROVE ConnectionsInv'
    BY <1>5 DEF ConnectSucceeds, Open, Connection, InitialBackoff, MaxBackoff
<1>6. CASE ManagerChecks
    BY <1>6 DEF ManagerChecks
<1>7. CASE ManagerPicksSeed
    BY <1>7 DEF ManagerPicksSeed
<1>8. CASE ConnectFails
    BY <1>8 DEF ConnectFails
<1>9. CASE ManagerSleeps
    BY <1>9 DEF ManagerSleeps, InitialBackoff, MaxBackoff
<1>10. CASE UNCHANGED connectionVars
    BY <1>10 DEF connectionVars
<1> QED
    BY <1>1, <1>2, <1>3, <1>4, <1>5, <1>6, <1>7, <1>8, <1>9, <1>10 DEF Next

\* The inductive invariant holds in every reachable state of the listeners and the
\* outbound manager (main.rs:218-343).
THEOREM ConnectionsInvariant == Spec => []ConnectionsInv
BY ConnectionsInitially, ConnectionsStep, PTL DEF Spec

\* The loop over the seeds never runs past its end, for any number of seeds
\* (main.rs:286), and the delay never leaves its range, however dials fail and succeed
\* (main.rs:328 and 341).
THEOREM ConnectionsTypeCorrect == Spec => []ConnectionsTypeOK
<1>1. ConnectionsInv => ConnectionsTypeOK
    BY DEF ConnectionsInv
<1> QED
    BY ConnectionsInvariant, <1>1, PTL

=============================================================================
