------------------------------ MODULE Exchange ------------------------------
(***************************************************************************)
(* One TCP connection (transport/connection.rs): the two handshakes, then  *)
(* frames in both directions.  Each of the two ends is a proxy, which runs *)
(* this code (Connection::outbound or Connection::inbound, and the skip of *)
(* proxies in outbound_manager), or another node, of which only what it    *)
(* writes is modelled: its handshake at any time or never, frames after    *)
(* it, and that it may hang up.                                            *)
(*                                                                         *)
(* TCP delivers what was written in order and in segments of any size, and *)
(* when an end closes, any tail of what it wrote may be lost.              *)
(***************************************************************************)
EXTENDS Handshake, Frame

CONSTANTS
    Initiators,   \* the ends that may open the connection
    Responders,   \* the ends that may accept it
    Frames,       \* the frames that are sent
    MaxFrames,    \* bound: frames sent by an end
    BufSize       \* capacity of the BufReader: 8192

\* A proxy has a config, the time and a random number; a node has what it describes.
WellFormed(peer) ==
    /\ peer.now \in Word
    /\ IF peer.kind = "proxy"
       THEN ConfigValid(peer.config) /\ peer.random \in SignedWord
       ELSE peer.magic \in Unit /\ Expressible(peer.spec)

ASSUME ExchangeAssumption ==
    /\ MaxFrames \in Nat /\ BufSize \in Nat
    /\ \A peer \in Initiators \cup Responders : WellFormed(peer)
    /\ Frames \subseteq [code : Unit, body : Seq(Unit)]

Ends == {"initiator", "responder"}

Other(e) == IF e = "initiator" THEN "responder" ELSE "initiator"

VARIABLES
    end,     \* who is at the two ends
    pc,      \* where each end is in the exchange
    wire,    \* for each end, what was written to it and it has not consumed
    spec,    \* Connection.peer_spec of each end, once there is a Connection
    sent,    \* history: the frames each end wrote
    got      \* history: the frames each end read

exchangeVars == <<end, pc, wire, spec, sent, got>>

Proxy(e) == end[e].kind = "proxy"

Gone == {"malformed", "rejected", "skipped", "timeout", "closed"}

Open(e) == pc[e] \notin Gone

\* What an end says of itself, and the bytes it says it with.
Hello(e) == IF Proxy(e) THEN OwnSpec(end[e].config, end[e].random) ELSE end[e].spec

HelloBytes(e) ==
    IF Proxy(e) THEN Build(end[e].config, end[e].now, end[e].random)
    ELSE Serialize(end[e].now, end[e].spec)

\* The magic of an end's network; a Connection keeps the one of its config.
MagicOf(e) == IF Proxy(e) THEN end[e].config.magic ELSE end[e].magic

ExchangeInit ==
    /\ end \in [initiator : Initiators, responder : Responders]
    /\ \E e \in Ends : Proxy(e)
    /\ pc = [e \in Ends |->
               IF e = "responder" /\ Proxy(e) THEN "reading" ELSE "writing"]
    /\ wire = [e \in Ends |-> <<>>]
    /\ spec = [e \in Ends |-> None]
    /\ sent = [e \in Ends |-> <<>>]
    /\ got = [e \in Ends |-> <<>>]

----------------------------------------------------------------------------
(* The handshake *)

\* The initiator writes first, the responder after it has validated the other.  To a
\* node nothing need be delivered: its reading is not modelled.
WriteTo(e, bytes) == wire' = IF Proxy(e) THEN [wire EXCEPT ![e] = @ \o bytes] ELSE wire

WriteHandshake(e) ==
    /\ pc[e] = "writing"
    /\ WriteTo(Other(e), HelloBytes(e))
    /\ pc' = [pc EXCEPT ![e] = IF Proxy(e) /\ e = "initiator" THEN "reading" ELSE "active"]
    /\ UNCHANGED <<end, spec, sent, got>>

\* Where an end that has accepted the handshake of s goes on: outbound_manager drops
\* a connection to a proxy, an inbound connection has yet to answer.
AfterReading(e, s) ==
    IF e = "responder" THEN "writing" ELSE IF IsProxy(s) THEN "skipped" ELSE "active"

\* Mutant: the whole buffer is consumed.
ReadHandshakeAll(e) ==
    /\ pc[e] = "reading"
    /\ \E n \in 1..Len(wire[e]) :
       \E parsed \in {Parse(SubSeq(wire[e], 1, n))}, size \in {MeasureSize(SubSeq(wire[e], 1, n))} :
          LET valid == ValidatePeer(parsed.value, MagicOf(e))
          IN  /\ n <= BufSize
              /\ pc' = [pc EXCEPT ![e] = IF ~parsed.ok \/ ~size.ok THEN "malformed"
                                         ELSE IF ~valid THEN "rejected"
                                         ELSE AfterReading(e, parsed.value)]
              /\ spec' = [spec EXCEPT ![e] = IF parsed.ok /\ size.ok /\ valid
                                             THEN Some(parsed.value) ELSE @]
              /\ wire' = [wire EXCEPT ![e] = SubSeq(@, n + 1, Len(@))]
    /\ UNCHANGED <<end, sent, got>>

\* read_handshake and validate_peer: fill_buf returns what has arrived, one byte or
\* more, and it is parsed as it is.  Only the bytes of the handshake are consumed.
ReadHandshake(e) ==
    /\ pc[e] = "reading"
    /\ \E n \in 1..Len(wire[e]) :
       \E parsed \in {Parse(SubSeq(wire[e], 1, n))}, size \in {MeasureSize(SubSeq(wire[e], 1, n))} :
          LET valid == ValidatePeer(parsed.value, MagicOf(e))
          IN  /\ n <= BufSize
              /\ pc' = [pc EXCEPT ![e] = IF ~parsed.ok \/ ~size.ok THEN "malformed"
                                         ELSE IF ~valid THEN "rejected"
                                         ELSE AfterReading(e, parsed.value)]
              /\ spec' = [spec EXCEPT ![e] = IF parsed.ok /\ size.ok /\ valid
                                             THEN Some(parsed.value) ELSE @]
              /\ wire' = [wire EXCEPT ![e] = IF parsed.ok /\ size.ok
                                             THEN SubSeq(@, size.value + 1, Len(@)) ELSE @]
    /\ UNCHANGED <<end, sent, got>>

\* fill_buf returns nothing when the other end has closed ("Empty handshake").
ReadEmpty(e) ==
    /\ pc[e] = "reading"
    /\ wire[e] = <<>>
    /\ ~Open(Other(e))
    /\ pc' = [pc EXCEPT ![e] = "closed"]
    /\ UNCHANGED <<end, wire, spec, sent, got>>

\* Mutant: only the initiator gives up.
TimeoutOutbound(e) ==
    /\ e = "initiator"
    /\ pc[e] = "reading"
    /\ pc' = [pc EXCEPT ![e] = "timeout"]
    /\ UNCHANGED <<end, wire, spec, sent, got>>

\* HANDSHAKE_TIMEOUT.
Timeout(e) ==
    /\ pc[e] = "reading"
    /\ pc' = [pc EXCEPT ![e] = "timeout"]
    /\ UNCHANGED <<end, wire, spec, sent, got>>

----------------------------------------------------------------------------
(* Frames *)

WriteFrame(e, frame) ==
    /\ pc[e] = "active"
    /\ Len(sent[e]) < MaxFrames
    /\ WriteTo(Other(e), Encode(MagicOf(e), frame))
    /\ sent' = [sent EXCEPT ![e] = Append(@, frame)]
    /\ UNCHANGED <<end, pc, spec, got>>

\* The reader loop of run_peer: an error ends the connection, and so does the end of
\* the stream inside a frame or before it.
ReceiveFrame(e) ==
    LET read == ReadFrame(MagicOf(e), wire[e])
    IN  /\ pc[e] = "active"
        /\ Proxy(e)
        /\ \/ /\ read.outcome = "frame"
              /\ got' = [got EXCEPT ![e] = Append(@, read.frame)]
              /\ wire' = [wire EXCEPT ![e] = read.rest]
              /\ UNCHANGED pc
           \/ /\ \/ read.outcome = "error"
                 \/ read.outcome = "incomplete" /\ ~Open(Other(e))
              /\ pc' = [pc EXCEPT ![e] = "closed"]
              /\ UNCHANGED <<wire, got>>
        /\ UNCHANGED <<end, spec, sent>>

\* An end closes: a node when it likes, a proxy that runs run_peer when it ends for a
\* reason of its own, a writing proxy when the connection is lost.
HangUp(e) ==
    /\ Open(e)
    /\ ~Proxy(e) \/ pc[e] = "active" \/ (pc[e] = "writing" /\ ~Open(Other(e)))
    /\ pc' = [pc EXCEPT ![e] = "closed"]
    /\ UNCHANGED <<end, wire, spec, sent, got>>

\* What a closed end had written need not all arrive.
LoseTail(e) ==
    /\ ~Open(Other(e))
    /\ Open(e)
    /\ \E n \in 0..Len(wire[e]) - 1 : wire' = [wire EXCEPT ![e] = SubSeq(@, 1, n)]
    /\ UNCHANGED <<end, pc, spec, sent, got>>

ExchangeNext ==
    \E e \in Ends :
        \/ WriteHandshake(e)
        \/ ReadHandshake(e)
        \/ ReadEmpty(e)
        \/ Timeout(e)
        \/ \E frame \in Frames : WriteFrame(e, frame)
        \/ ReceiveFrame(e)
        \/ HangUp(e)
        \/ LoseTail(e)

\* A proxy's task goes on when it can, and its timer fires; nothing is assumed of a
\* node.
ExchangeFairness ==
    \A e \in Ends :
        /\ WF_exchangeVars(Proxy(e) /\ WriteHandshake(e))
        /\ WF_exchangeVars(ReadHandshake(e) \/ ReadEmpty(e))
        /\ WF_exchangeVars(Timeout(e))
        /\ WF_exchangeVars(ReceiveFrame(e))

ExchangeSpec == ExchangeInit /\ [][ExchangeNext]_exchangeVars /\ ExchangeFairness

----------------------------------------------------------------------------
(* Properties *)

\* s is the start of t.
IsPrefix(s, t) == Len(s) <= Len(t) /\ \A i \in 1..Len(s) : s[i] = t[i]

EncodeAll(magic, frames) == Flatten([i \in DOMAIN frames |-> Encode(magic, frames[i])])

\* The frames written to e that it has not read, as bytes.
Unread(e) ==
    LET o == Other(e)
    IN  EncodeAll(MagicOf(o), SubSeq(sent[o], Len(got[e]) + 1, Len(sent[o])))

\* "no bytes are lost between handshake and first frame" (connection.rs:15): once the
\* handshake is consumed, what is left is exactly the frames the other end wrote,
\* however many of them came in one segment with the handshake; they are read in
\* order, and only a closing end can cut them off.
StreamIntact ==
    \A e \in Ends : spec[e] # None =>
        /\ IsPrefix(got[e], sent[Other(e)])
        /\ IsPrefix(wire[e], Unread(e))
        /\ Open(Other(e)) => wire[e] = Unread(e)

\* "Postcondition: all fields populated" (handshake.rs:9): a PeerSpec that a
\* Connection holds is the one the other end described, for every segmentation,
\* although parse_features accepts features that are cut off.
AcceptedIsComplete == \A e \in Ends : spec[e] # None => spec[e] = Some(Hello(Other(e)))

\* Frames never cross from one network into the other, although validate_peer accepts
\* a peer that sends no Session feature (handshake.rs:269).
NetworksNeverMix ==
    \A e \in Ends : got[e] # <<>> => MagicOf(e) = MagicOf(Other(e))

\* No task waits for a handshake for ever, whatever the other end does
\* (connection.rs:56 and 79).
HandshakeEnds == \A e \in Ends : pc[e] = "reading" ~> pc[e] # "reading"

\* "Other proxies detect this and avoid treating each other as outbound content
\* sources" (handshake.rs:21): a connection between two proxies does not last, and the
\* end that accepted it notices.
ProxiesPart ==
    (Proxy("initiator") /\ Proxy("responder"))
        ~> [](~Open("initiator") /\ ~Open("responder"))

\* "Fill the internal buffer without consuming — this ensures we have enough data for
\* the handshake" (connection.rs:119): no end takes a handshake for malformed while
\* the end that writes it is there.
WholeHandshakeRead ==
    \A e \in Ends : pc[e] = "malformed" => ~Open(Other(e))

=============================================================================
