------------------------------ MODULE MCPeers -------------------------------
(***************************************************************************)
(* What a node has to do with its neighbours: its connections (PeerTable,  *)
(* two peers), what it lets a neighbour do (Conduct), and the hints and    *)
(* cells it is sent (HintRouter, OnionRelay).  They share no state: each   *)
(* behaviour moves one of them, `part`, and leaves the others as they      *)
(* began.                                                                  *)
(***************************************************************************)
EXTENDS MCPeerTable, Conduct, HintRouter, OnionRelay

CONSTANTS q1, q2, h1, h2, k1, k2

VARIABLE part

\* The circuits a cell may be made for; one is too long.
Circuits == {<<Me>>, <<q2>>, <<Me, q2>>, <<Me, Me>>, <<Me, q1, q2>>}
KeyedApart == [h \in {h1, h2} |-> IF h = h1 THEN k1 ELSE k2]

Moves(x) ==
  /\ part = x /\ UNCHANGED part
  /\ x # "table"   => UNCHANGED vars
  /\ x # "conduct" => UNCHANGED conduct
  /\ x # "hints"   => UNCHANGED hint_vars
  /\ x # "cells"   => UNCHANGED onion_relay

PeersInit == /\ part \in {"table", "conduct", "hints", "cells"}
             /\ Init /\ ConductInit /\ HintInit /\ RelayInit
PeersNext == \/ Moves("table") /\ Next
             \/ Moves("conduct") /\ ConductNext
             \/ Moves("hints") /\ HintNext
             \/ Moves("cells") /\ RelayNext
PeersSpec == PeersInit /\ [][PeersNext]_<<part, vars, conduct, hint_vars, onion_relay>>
=============================================================================
