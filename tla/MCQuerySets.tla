------------------------------ MODULE MCQuerySets ------------------------------
(* QuerySets on small instances: ids and handlers are interchangeable. *)
EXTENDS QuerySets, TLC

CONSTANTS q1, q2, q3, h1, h2

ThreeIds == {q1, q2, q3}
TwoHandlers == {h1, h2}
IdSymmetry == Permutations(ThreeIds) \cup Permutations(TwoHandlers)
=============================================================================
