----------------------------- MODULE MCCachePeers -----------------------------
(* A small instance of CachePeers for TLC. *)
EXTENDS CachePeers

CONSTANTS p
=============================================================================
