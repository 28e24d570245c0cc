------------------------------ MODULE Messages ------------------------------
(***************************************************************************)
(* Typed messages and their bodies (protocol/messages.rs), and what a      *)
(* message becomes on its way through the proxy: read_frame, from_frame,   *)
(* the router's answer, to_frame, write_frame.  The machine follows one    *)
(* frame from the remote peer that wrote it through a row of proxies.      *)
(***************************************************************************)
EXTENDS Frame

CONSTANTS
    Magic,       \* the magic of the network
    FromRemote   \* the frames a remote peer may write

ASSUME MessagesAssumption ==
    /\ Magic \in Unit
    /\ FromRemote \subseteq [code : Unit, body : Seq(Unit)]

MessageCode ==
    [GetPeers |-> 1, Peers |-> 2, ModifierRequest |-> 22, ModifierResponse |-> 33,
     Inv |-> 55, SyncInfo |-> 65]

----------------------------------------------------------------------------
(* Bodies *)

\* parse_inv_body
ParseInvBody(body) ==
    LET modifierType == ReadUnit(Start(body))
        count        == ReadVlqLength(modifierType)
        ids          == IF count.ok THEN ReadExact(count, count.value) ELSE Failed
    IN  IF ids.ok
        THEN Cursor([modifier_type |-> modifierType.value, ids |-> ids.value], ids.rest)
        ELSE Failed

\* Mutant: the count is that of the id after the last.
EncodeInvBodyOffByOne(modifierType, ids) ==
    <<modifierType>> \o WriteVlq[Len(ids) + 1] \o ids

\* encode_inv_body
EncodeInvBody(modifierType, ids) == <<modifierType>> \o WriteVlq[Len(ids)] \o ids

\* parse_modifier_response_body
ParseModifierResponseBody(body) ==
    LET modifierType == ReadUnit(Start(body))
        count        == ReadVlqLength(modifierType)
        modifiers    == ReadBlocks[count.value][count.rest]
    IN  IF count.ok /\ modifiers.missing = 0
        THEN Cursor([modifier_type |-> modifierType.value, modifiers |-> modifiers.blocks],
                    modifiers.rest)
        ELSE Failed

\* encode_modifier_response_body
EncodeModifierResponseBody(modifierType, modifiers) ==
    <<modifierType>> \o WriteVlq[Len(modifiers)] \o WriteBlocks(modifiers)

----------------------------------------------------------------------------
(* Messages *)

\* from_frame.  Units after the end of a body are ignored, and so is the body of
\* GetPeers.
FromFrame(frame) ==
    LET code    == frame.code
        as(kind, body) ==
            IF body.ok THEN Cursor([kind |-> kind, content |-> body.value], <<>>) ELSE Failed
        opaque  == Cursor(frame.body, <<>>)
    IN  CASE code = MessageCode.GetPeers -> as("GetPeers", Cursor(<<>>, <<>>))
          [] code = MessageCode.Peers -> as("Peers", opaque)
          [] code = MessageCode.Inv -> as("Inv", ParseInvBody(frame.body))
          [] code = MessageCode.ModifierRequest -> as("ModifierRequest", ParseInvBody(frame.body))
          [] code = MessageCode.ModifierResponse ->
                as("ModifierResponse", ParseModifierResponseBody(frame.body))
          [] code = MessageCode.SyncInfo -> as("SyncInfo", opaque)
          [] OTHER -> Cursor([kind |-> "Unknown", code |-> code, content |-> frame.body], <<>>)

\* Mutant: requests are written with the code of announcements.
ToFrameWrongCode(m) ==
    LET c == m.content
    IN  [code |-> CASE m.kind = "Unknown" -> m.code
                    [] m.kind = "ModifierRequest" -> MessageCode.Inv
                    [] OTHER -> MessageCode[m.kind],
         body |-> CASE m.kind = "GetPeers" -> <<>>
                    [] m.kind \in {"Inv", "ModifierRequest"} ->
                          EncodeInvBody(c.modifier_type, c.ids)
                    [] m.kind = "ModifierResponse" ->
                          EncodeModifierResponseBody(c.modifier_type, c.modifiers)
                    [] OTHER -> c]

\* to_frame
ToFrame(m) ==
    LET c == m.content
    IN  [code |-> IF m.kind = "Unknown" THEN m.code ELSE MessageCode[m.kind],
         body |-> CASE m.kind = "GetPeers" -> <<>>
                    [] m.kind \in {"Inv", "ModifierRequest"} ->
                          EncodeInvBody(c.modifier_type, c.ids)
                    [] m.kind = "ModifierResponse" ->
                          EncodeModifierResponseBody(c.modifier_type, c.modifiers)
                    [] OTHER -> c]

\* The messages the router may send on account of a message: requests and responses
\* are forwarded one id at a time, GetPeers is answered with an empty list, Peers goes
\* no further (Router.tla says to whom).
Forwarded(m) ==
    LET c == m.content
    IN  CASE m.kind = "ModifierRequest" ->
               {[m EXCEPT !.content.ids = <<c.ids[i]>>] : i \in DOMAIN c.ids}
          [] m.kind = "ModifierResponse" ->
               {[m EXCEPT !.content.modifiers = <<c.modifiers[i]>>] : i \in DOMAIN c.modifiers}
          [] m.kind = "GetPeers" -> {[kind |-> "Peers", content |-> <<>>]}
          [] m.kind = "Peers" -> {}
          [] OTHER -> {m}

----------------------------------------------------------------------------
(* A frame on its way *)

VARIABLES
    wire,      \* the encoded frame
    writer,    \* who wrote it: "remote" or "proxy"
    number     \* a signed word that a peer has encoded

messageVars == <<wire, writer, number>>

\* The message a proxy makes of the frame on the wire.
Message ==
    LET read == ReadFrame(Magic, wire)
    IN  IF read.outcome = "frame" THEN FromFrame(read.frame) ELSE Failed

\* The frame and the number have nothing to do with each other, so the numbers vary
\* with one frame only, the keepalive of main.rs.
Init ==
    /\ writer = "remote"
    /\ \/ /\ wire \in {Encode(Magic, frame) : frame \in FromRemote}
          /\ number = 0
       \/ /\ wire = Encode(Magic, ToFrame([kind |-> "GetPeers", content |-> <<>>]))
          /\ number \in SignedWord

\* The reader loop of run_peer and the sends of the main loop: a message that does not
\* parse is skipped.
Hop ==
    /\ Message.ok
    /\ \E m \in Forwarded(Message.value) : wire' = Encode(Magic, ToFrame(m))
    /\ writer' = "proxy"
    /\ UNCHANGED number

Spec == Init /\ [][Hop]_messageVars

----------------------------------------------------------------------------
(* Properties *)

\* "decode(magic, encode(magic, frame)) == Ok(frame) for any valid frame"
\* (frame.rs:9), and every frame the proxy writes is a valid one: whatever a remote
\* peer wrote, what is sent on is complete, within the size limit that is checked
\* only when reading (frame.rs:58), and parses.
WrittenIsReadable ==
    writer = "proxy" =>
        /\ Message.ok
        /\ ReadFrame(Magic, wire).rest = <<>>
        /\ Decode(Magic, wire).value = ReadFrame(Magic, wire).frame

\* "from_frame(&msg.to_frame()) is msg" (messages.rs:9), over a hop: the next reader
\* gets exactly one of the messages the router meant to send, however the remote peer
\* had spelled its lengths and whatever it had put after the body.
MeaningKept ==
    [][\E m \in Forwarded(Message.value) : Message' = Cursor(m, <<>>)]_messageVars

\* "read_vlq: inverse of write_vlq. Errors on overflow (>63 useful bits)" (vlq.rs:5).
\* write_vlq takes words of 64 bits, so the two sentences cannot both hold; the code
\* keeps the first, for all words, the last group of which is cut by the width.
\* Together with zigzag: a signed word is read back.
NumberReadBack ==
    LET read == ReadVlq(Start(WriteVlq[ZigzagEncode(number)]))
    IN  read.ok /\ read.rest = <<>> /\ ZigzagDecode(read.value) = number

=============================================================================
