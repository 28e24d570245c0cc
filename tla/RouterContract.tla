--------------------------- MODULE RouterContract ---------------------------
(***************************************************************************)
(* Statements of the router's contract, comments and design that the code  *)
(* does not keep.  Each is checked on its own and TLC reports a behaviour  *)
(* of the code that breaks it.  What does hold in its place is in          *)
(* Router.tla.                                                             *)
(***************************************************************************)
EXTENDS Router

\* "actions target only registered, non-disconnected peers" (router.rs:6).  SyncInfo of
\* an outbound peer is sent to its stale partner: a second pair() of an inbound peer
\* leaves the entry of its first partner behind, and that entry survives the purge of
\* the inbound peer.
ActionsTargetRegistered == \A a \in actions : Registered(a.target)

\* "Inbound full peer -> Forward to an outbound full node" (design, line 236): SyncInfo
\* of an inbound peer whose partner is connected is forwarded.  The router looks
\* for a partner that is still free and never at the existing one.
PairedSyncForwarded ==
    [][\A p \in PeerId :
          sync_tracker.inbound_to_outbound[p] # None
              /\ RouteMessage(p, [kind |-> "SyncInfo"])
              => actions' # {}]_routerVars

=============================================================================
