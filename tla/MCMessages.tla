----------------------------- MODULE MCMessages -----------------------------
(* Every small body for the messages whose bodies are parsed, responses with two        *)
(* modifiers, a few of the other kinds, and one body that is too large. *)
EXTENDS Messages, SequencesExt

CONSTANTS
    BodyUnits,   \* bound: units of a body
    BodyUnit     \* the units that occur in it

Frames(codes, bodies) == [code : codes, body : bodies]

MCFromRemote ==
    Frames({33, 55}, BoundedSeq(BodyUnit, BodyUnits))
      \cup Frames({33}, {<<1, 2>> \o modifiers : modifiers \in BoundedSeq({0, 1, 5}, BodyUnits)})
      \cup Frames({22}, BoundedSeq(BodyUnit, 3))
      \cup Frames({1, 2, 65, 99}, BoundedSeq({0, 1}, 2))
      \cup Frames({65}, {[i \in 1..MaxBodySize + 1 |-> 0]})

=============================================================================
