---------------------------- MODULE MCNodeSession ----------------------------
(* A small instance of NodeSession for TLC. *)
EXTENDS NodeSession

CONSTANTS p, q, none
=============================================================================
