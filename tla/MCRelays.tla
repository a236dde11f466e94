------------------------------ MODULE MCRelays ------------------------------
(***************************************************************************)
(* What passes things on: a few web nodes that flood a packet (Gossip),    *)
(* the cache node (CacheRelay, CachePeers), and the choice of the          *)
(* neighbours a node keeps (PeerTable, three peers).  They share no state: *)
(* each behaviour moves one of them, `part`, and leaves the others as they *)
(* began.                                                                  *)
(***************************************************************************)
EXTENDS Gossip, CacheRelay, CachePeers

CONSTANTS n1, n2, p1, p2, p3,
          Peer, MaxPending, MaxDegree, LocalLinks, OutTarget, MaxSignals, MaxSenders,
          Dist, Group, Far, MaxInst

VARIABLES part, conn, born, closing, signed, resolving, seenGroups, coolDown, banned,
          senders, sigCount, rebalancing, newcomer, stopped

Table == INSTANCE PeerTable
table_vars == <<conn, born, closing, signed, resolving, seenGroups, coolDown, banned,
                senders, sigCount, rebalancing, newcomer, stopped>>

Pair == {{n1, n2}}
AnySub == [Node -> SUBSET Packet]
Distances == [p \in Peer |-> CASE p = p1 -> 1 [] p = p2 -> 2 [] OTHER -> 3]
AtZero == [g \in CachePacket |-> 1]

Moves(x) ==
  /\ part = x /\ UNCHANGED part
  /\ x # "gossip" => UNCHANGED vars
  /\ x # "cacheRelay" => UNCHANGED cache_relay
  /\ x # "cachePeers" => UNCHANGED cache_peers
  /\ x # "table" => UNCHANGED table_vars

RelaysInit == /\ part \in {"gossip", "cacheRelay", "cachePeers", "table"}
              /\ Init /\ (part # "gossip" => sub = [n \in Node |-> {}])
              /\ CacheRelayInit /\ CachePeersInit /\ Table!Init
RelaysNext == \/ Moves("gossip") /\ Next
              \/ Moves("cacheRelay") /\ CacheRelayNext
              \/ Moves("cachePeers") /\ CachePeersNext
              \/ Moves("table") /\ Table!Next
RelaysSpec == RelaysInit /\ [][RelaysNext]_<<part, vars, cache_relay, cache_peers, table_vars>>

\* A local neighbour is never evicted, an outbound one only when all inbound ones are
\* local, and who is evicted is not let in again at once (PeerManager.rebalance).
EvictionOrder == Table!EvictionOrder
=============================================================================
