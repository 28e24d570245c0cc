------------------------------ MODULE MCRouter ------------------------------
(* The router on small sets of peers and modifiers. *)
EXTENDS RouterContract, TLC

\* Peers and modifiers are interchangeable.
Symmetry == Permutations(PeerId) \cup Permutations(ModifierId)

=============================================================================
