------------------------------ MODULE MCProxy -------------------------------
(* The proxy with a few connections. *)
EXTENDS Proxy

CONSTANT OutboundId    \* the peers the proxy connects to; the others connect to it

MCProfile ==
    [p \in PeerId |-> [direction |-> IF p \in OutboundId THEN "Outbound" ELSE "Inbound",
                       mode |-> "Full"]]

\* A broadcast message, for the questions about tasks and channels.
Broadcast == {[kind |-> "Unknown"]}

\* The messages that use the router's tables.
ModifierExchange ==
    [kind : {"Inv", "ModifierRequest", "ModifierResponse"},
     modifier_type : ModifierType, ids : {ModifierId}]

=============================================================================
