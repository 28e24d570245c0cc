----------------------------- MODULE MCLatency ------------------------------
(* The latency tracker beside a small router. *)
EXTENDS Latency, TLC

\* Peers and modifiers are interchangeable.
Symmetry == Permutations(PeerId) \cup Permutations(ModifierId)

=============================================================================
