------------------------------ MODULE MCTestRuns ------------------------------
(* TestRuns on small instances. *)
EXTENDS TestRuns

CONSTANTS c1, c2

OneClient == {c1}
TwoClients == {c1, c2}

\* What can go wrong while the notifications are answered promptly.
LocalFaults == {"restore", "docker", "snapshot", "baseline"}
\* What can happen to the notifications under way and to their senders.
NetworkFaults == {"timeout", "crash", "plane"}
=============================================================================
