------------------------------- MODULE MCReplay -------------------------------
(* Replay on small instances. *)
EXTENDS Replay

CONSTANTS c1, c2, s1, s2

OneClient == {c1}
TwoClients == {c1, c2}
OneSet == {s1}
TwoSets == {s1, s2}
=============================================================================
