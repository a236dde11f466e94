--------------------------- MODULE MCOnionCircuit ---------------------------
(* Small instances of OnionCircuit for TLC. *)
EXTENDS OnionCircuit, TLC

CONSTANTS a, b, x, m1, m2

Symmetric == Permutations(Node) \cup Permutations(Msg)
=============================================================================
