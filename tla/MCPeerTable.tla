----------------------------- MODULE MCPeerTable -----------------------------
(* Small instances of PeerTable for TLC. *)
EXTENDS PeerTable

CONSTANTS p1, p2, p3, p4

TwoPeers   == {p1, p2}
ThreePeers == {p1, p2, p3}
FourPeers  == {p1, p2, p3, p4}

\* p1 is the nearest on the ring.
DistOf(S) == [p \in S |-> CASE p = p1 -> 1 [] p = p2 -> 2 [] p = p3 -> 3 [] OTHER -> 4]
DistTwo   == DistOf(TwoPeers)
DistThree == DistOf(ThreePeers)
DistFour  == DistOf(FourPeers)

AllFar    == FarEnd
Answering == {"self", "other"}
SelfOnly  == {"self"}

TwoGroups == {"unknown", "v4"}
OneGroup  == {"unknown"}
=============================================================================
