--------------------------- MODULE MCMaterialization ---------------------------
(* Model-checking instances of Materialization. *)
EXTENDS Materialization, TLC

CONSTANTS v1, v2

MCOneView == {<<v1>>}
MCTwoViews == {<<v1>>, <<v1, v2>>}

MCCalls == [file |-> 2, sql |-> 3]
MCThreeCalls == [b \in Backends |-> 3]

\* EventuallyReleased promises nothing after a race: no need to go on from there.
NoRace == ~raced

Symmetry == Permutations(Workers)
================================================================================
