----------------------------- MODULE Handshake ------------------------------
(***************************************************************************)
(* Handshakes (transport/handshake.rs), over the stream of Vlq.tla.  The   *)
(* three bytes of a version are one unit, the number they stand for; the   *)
(* four bytes of a magic are one unit as well.                             *)
(***************************************************************************)
EXTENDS Vlq

CONSTANTS
    Eip37Min,    \* Version::EIP37_MIN
    PortBits     \* bits of a u16

\* The features of a proxy are within MAX_VLQ_LENGTH.
ASSUME HandshakeAssumption ==
    /\ Eip37Min \in Unit
    /\ PortBits \in 0..WordBits
    /\ 5 <= MaxVlqLength /\ 1 + MaxGroups <= MaxVlqLength

FeatureMode == 16
FeatureSession == 3
FeatureProxy == 64

\* An Option is a sequence of at most one element.
None == <<>>

Some(x) == <<x>>

\* What the length byte of an address counts besides the ip.
AddressOverhead == 4

\* A string whose length fits into the byte before it (vlq.rs:100).
Short(string) == string \in Seq(Unit) /\ Len(string) < 2 * Continuation

\* A SocketAddr.
Addressable(a) ==
    /\ a \in [ip : Seq(Unit), port : 0..Pow2[PortBits] - 1]
    /\ Len(a.ip) \in {4, 16}

OptionalAddress(address) ==
    address = None \/ (Len(address) = 1 /\ address = Some(address[1]) /\ Addressable(address[1]))

\* A PeerSpec that the layout of a handshake can express.
Expressible(spec) ==
    /\ spec = [agent |-> spec.agent, version |-> spec.version, name |-> spec.name,
               address |-> spec.address, features |-> spec.features]
    /\ Short(spec.agent) /\ spec.version \in Unit /\ Short(spec.name)
    /\ OptionalAddress(spec.address)
    /\ spec.features \in Seq(Block)
    /\ \A i \in DOMAIN spec.features : Len(spec.features[i].body) <= MaxVlqLength

\* A HandshakeConfig whose strings are short.
ConfigValid(config) ==
    /\ Short(config.agent_name) /\ Short(config.peer_name) /\ config.version \in Unit
    /\ config.magic \in Unit /\ config.mode \in {"Full", "Light"}
    /\ OptionalAddress(config.declared_address)

----------------------------------------------------------------------------
(* Building *)

\* make_handshake_config of main.rs: a proxy declares no address.
MakeHandshakeConfig(agentName, peerName, version, magic, mode) ==
    [agent_name |-> agentName, peer_name |-> peerName, version |-> version,
     magic |-> magic, mode |-> mode, declared_address |-> None]

BuildModeBody(mode) == IF mode = "Full" THEN <<0, 1, 0, 1>> ELSE <<0, 1, 1, 2, 1>>

\* build_session_body, for the random number drawn by rand_u64.
BuildSessionBody(magic, random) == <<magic>> \o WriteVlq[ZigzagEncode(random)]

\* What `build` puts into the handshake of a proxy, as the PeerSpec it stands for.
OwnSpec(config, random) ==
    [agent |-> config.agent_name, version |-> config.version, name |-> config.peer_name,
     address |-> config.declared_address,
     features |-> <<[id |-> FeatureMode, body |-> BuildModeBody(config.mode)],
                    [id |-> FeatureSession, body |-> BuildSessionBody(config.magic, random)],
                    [id |-> FeatureProxy, body |-> <<1>>]>>]

WriteAddress(address) ==
    IF address = None THEN <<0>>
    ELSE LET a == Head(address)
         IN  <<1, Len(a.ip) + AddressOverhead>> \o a.ip \o WriteVlq[a.port]

\* The layout of a handshake, the same for all peers of the network.
Serialize(now, spec) ==
    WriteVlq[now] \o WriteShortString(spec.agent) \o <<spec.version>>
      \o WriteShortString(spec.name) \o WriteAddress(spec.address)
      \o <<Len(spec.features)>> \o WriteBlocks(spec.features)

\* build
Build(config, now, random) == Serialize(now, OwnSpec(config, random))

----------------------------------------------------------------------------
(* Parsing *)

\* parse_address: only an ip of 4 or of 16 bytes makes an address; the port is cut
\* to 16 bits.
ParseAddress(c) ==
    LET length == ReadUnit(c)
        ip     == IF length.ok /\ length.value > AddressOverhead
                  THEN ReadExact(length, length.value - AddressOverhead)
                  ELSE ReadExact(length, 0)
        port   == ReadVlq(ip)
    IN  IF ~port.ok THEN Failed
        ELSE Cursor(IF Len(ip.value) \in {4, 16}
                    THEN Some([ip |-> ip.value, port |-> port.value % Pow2[PortBits]])
                    ELSE None,
                    port.rest)

\* parse_features: what the input ends in the middle of is left out, without an error.
ParseFeatures(c) ==
    LET count == ReadUnit(c)
    IN  IF count.ok THEN ReadBlocks[count.value][count.rest].blocks ELSE <<>>

\* The address, if the flag before it says that there is one.
AddressAt ==
    [s \in Seq(Unit) |->
        LET flag == ReadUnit(Start(s))
        IN  IF flag.ok /\ flag.value = 0 THEN Cursor(None, flag.rest) ELSE ParseAddress(flag)]

\* The fields of a PeerSpec before the features.
ReadIdentity(c) ==
    LET agent   == ReadShortString(c)
        version == ReadUnit(agent)
        name    == ReadShortString(version)
        address == Then(name, AddressAt)
    IN  IF address.ok
        THEN Cursor([agent |-> agent.value, version |-> version.value, name |-> name.value,
                     address |-> address.value, features |-> <<>>], address.rest)
        ELSE Failed

\* parse_peer_entry; all parsing functions leave the cursor to the caller.
ParsePeerEntry(c) ==
    LET identity == ReadIdentity(c)
    IN  IF identity.ok
        THEN Cursor([identity.value EXCEPT !.features = ParseFeatures(identity)], <<>>)
        ELSE Failed

\* parse
Parse(data) == ParsePeerEntry(ReadVlq(Start(data)))

\* Mutant: the size of a handshake whose features are cut off, as `parse` reads it.
MeasureSizeTolerant(data) ==
    LET count    == ReadUnit(ReadIdentity(ReadVlq(Start(data))))
        features == ReadBlocks[count.value][count.rest]
    IN  IF count.ok THEN Cursor(Len(data) - Len(features.rest), features.rest) ELSE Failed

\* measure_size: here every field must be complete.
MeasureSize(data) ==
    LET count    == ReadUnit(ReadIdentity(ReadVlq(Start(data))))
        features == ReadBlocks[count.value][count.rest]
    IN  IF count.ok /\ features.missing = 0
        THEN Cursor(Len(data) - Len(features.rest), features.rest)
        ELSE Failed

----------------------------------------------------------------------------
(* Judging a peer *)

\* validate_peer: the first Session feature is compared, if there is one and it is
\* long enough to hold a magic.
ValidatePeer(spec, magic) ==
    LET sessions == SelectSeq(spec.features, LAMBDA f : f.id = FeatureSession)
    IN  /\ spec.version >= Eip37Min
        /\ (sessions # <<>> /\ Head(sessions).body # <<>>)
              => Head(Head(sessions).body) = magic

\* Mutant: only the first feature is looked at.
IsProxyFirst(spec) == spec.features # <<>> /\ Head(spec.features).id = FeatureProxy

\* is_proxy
IsProxy(spec) == \E i \in DOMAIN spec.features : spec.features[i].id = FeatureProxy

=============================================================================
