--------------------------- MODULE MCConnections ----------------------------
(* Connection management with one listener and a few slots. *)
EXTENDS Connections

CONSTANT InboundMax    \* max_inbound, the same for every listener

MCMaxInbound == [listener \in Listener |-> InboundMax]

=============================================================================
