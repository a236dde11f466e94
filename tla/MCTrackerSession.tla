-------------------------- MODULE MCTrackerSession --------------------------
(* Small instances of TrackerSession for TLC. *)
EXTENDS TrackerSession

CONSTANTS n1, n2, n3, alice, bob, home, cafe

\* n1 and n2 are alice's, in two places.
Ids == [n \in Node |-> IF n = n3 THEN bob ELSE alice]
Addresses == [n \in Node |-> IF n = n2 THEN cafe ELSE home]
=============================================================================
