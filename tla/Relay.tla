------------------------------- MODULE Relay --------------------------------
(***************************************************************************)
(* What the routing layer promises about modifiers (blocks, headers,       *)
(* transactions), whatever tables it keeps: who may be asked for a         *)
(* modifier, who is owed one, and where requests and responses may go.     *)
(* Router.tla is shown to implement this specification.                    *)
(***************************************************************************)
CONSTANTS PeerId, ModifierId

VARIABLES
    members,      \* the registered peers
    offers,       \* pairs <<id, p>>: p is known to have modifier id
    wants,        \* pairs <<id, p>>: p is owed a response for id
    open,         \* pairs <<id, p>>: p has been asked for id, and no response came
    asks,         \* requests sent by the last step: <<id, peer asked>>
    deliveries    \* responses sent by the last step: <<id, peer served>>

relayVars == <<members, offers, wants, open, asks, deliveries>>

Init ==
    /\ members = {}
    /\ offers = {}
    /\ wants = {}
    /\ open = {}
    /\ asks = {}
    /\ deliveries = {}

\* A peer is registered.  What the last event sent out is not touched.
Join(p) ==
    /\ p \notin members
    /\ members' = members \cup {p}
    /\ UNCHANGED <<offers, wants, open, asks, deliveries>>

\* A peer leaves: everything it offered, was owed and was asked for goes with
\* it.  The claims of others on what it was asked for may go too, since the
\* response they wait for will not come from it; no other claim may.
Leave(p) ==
    /\ p \in members
    /\ members' = members \ {p}
    /\ offers' = {x \in offers : x[2] # p}
    /\ open' = {x \in open : x[2] # p}
    /\ wants' \subseteq {x \in wants : x[2] # p}
    /\ {x \in wants : x[2] # p /\ <<x[1], p>> \notin open} \subseteq wants'
    /\ asks' = {}
    /\ deliveries' = {}

\* A member announces `ids`.  Earlier offers of those ids may be forgotten,
\* offers of other ids may not.
Announce(p, ids) ==
    /\ p \in members
    /\ offers' \subseteq offers \cup (ids \X {p})
    /\ ids \X {p} \subseteq offers'
    /\ {x \in offers : x[1] \notin ids} \subseteq offers'
    /\ asks' = {}
    /\ deliveries' = {}
    /\ UNCHANGED <<members, wants, open>>

\* A member asks for modifiers.  Each request goes to a peer that offered the
\* modifier and is not the asker, who is owed a response from then on.  Another
\* peer's claim on the same modifier, or an earlier request for it, may be
\* displaced; those on other modifiers may not.
Ask(p, sent) ==
    LET ids == {x[1] : x \in sent}
    IN  /\ p \in members
        /\ \A x \in sent : x[2] # p
        /\ asks' = sent
        /\ deliveries' = {}
        /\ wants' \subseteq wants \cup (ids \X {p})
        /\ ids \X {p} \subseteq wants'
        /\ {x \in wants : x[1] \notin ids} \subseteq wants'
        /\ open' \subseteq open \cup sent
        /\ sent \subseteq open'
        /\ {x \in open : x[1] \notin ids} \subseteq open'
        /\ UNCHANGED <<members, offers>>

\* Modifiers arrive: they go to every peer that is owed one of them and to no
\* other, and both the claims and the requests for them are settled, so nobody
\* is served twice.
Answer(ids) ==
    /\ asks' = {}
    /\ deliveries' = {x \in wants : x[1] \in ids}
    /\ wants' = {x \in wants : x[1] \notin ids}
    /\ open' = {x \in open : x[1] \notin ids}
    /\ UNCHANGED <<members, offers>>

Next ==
    \/ \E p \in PeerId : Join(p) \/ Leave(p)
    \/ \E p \in members : \E ids \in SUBSET ModifierId : Announce(p, ids)
    \/ \E p \in members : \E sent \in SUBSET offers : Ask(p, sent)
    \/ \E ids \in SUBSET ModifierId : Answer(ids)

Spec == Init /\ [][Next]_relayVars

=============================================================================
