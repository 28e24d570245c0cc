----------------------------- MODULE MCExchange -----------------------------
(* Proxies, and nodes that differ in what the code looks at. *)
EXTENDS Exchange

CONSTANTS
    Random,      \* what rand_u64 returned
    Now          \* the timestamp of all handshakes

MCFrames == {[code |-> 1, body |-> <<>>], [code |-> 65, body |-> <<3>>]}

AProxy(magic, mode) ==
    [kind |-> "proxy", now |-> Now, random |-> Random,
     config |-> MakeHandshakeConfig(<<6>>, <<2, 3>>, Eip37Min, magic, mode)]

ANode(magic, version, address, features) ==
    [kind |-> "node", now |-> Now, magic |-> magic,
     spec |-> [agent |-> <<1, 2>>, version |-> version, name |-> <<>>, address |-> address,
               features |-> features]]

Session(magic) == [id |-> FeatureSession, body |-> BuildSessionBody(magic, 0)]

Address == Some([ip |-> <<1, 0, 7, 2>>, port |-> 9])

\* Of both networks, with and without Session, too old, with an address.
Nodes ==
    {ANode(m, Eip37Min + 1, None, <<>>) : m \in {1, 2}}
      \cup {ANode(m, Eip37Min, Address, <<Session(m)>>) : m \in {1, 2}}
      \cup {ANode(1, Eip37Min - 1, None, <<Session(1)>>)}

MCInitiators ==
    {AProxy(m, "Full") : m \in {1, 2}} \cup Nodes

MCResponders ==
    {AProxy(1, mode) : mode \in {"Full", "Light"}} \cup Nodes

=============================================================================
