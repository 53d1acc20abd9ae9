------------------------------ MODULE MCRouter ------------------------------
(* Instances of Router for TLC: names a, b and a.b, skills s and b.s, so   *)
(* that a.b.s is a skill id of two upstreams, and b.s both a skill of one  *)
(* and the id on the composite card of another.                            *)
EXTENDS Router, TLC

MCNames == {<<"a">>, <<"b">>, <<"a", "b">>}

MCSkills == {<<"s">>, <<"b", "s">>}

MCCards == {{<<"s">>}, MCSkills}

Symmetry == Permutations(Ids)

=============================================================================
