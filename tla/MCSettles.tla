------------------------------ MODULE MCSettles ------------------------------
(***************************************************************************)
(* What must come to rest between nodes: handshakes and rebalancing        *)
(* (PeerTable, two peers), a flood (Gossip) and the queue of the mailbox   *)
(* (MailboxStorage), each under the fairness of its module.  They share no *)
(* state: each behaviour moves one of them, `part`, and leaves the others  *)
(* as they began.                                                          *)
(***************************************************************************)
EXTENDS MCPeerTable

CONSTANTS n1, n2, n3,
          Node, Packet, Link0, TTL, Drift, MaxSize, Ahead, Behind, Attempts, Resends, Sub0,
          Resubs, Downs, Writer, LastWrite, Horizon, Count,
          Self, Topic, Item, MaxPerTopic, MaxTopics, MaxTotal, MaxPerHour, Seal, Arrivals,
          Failures, Hours, Prunes, Restarts

VARIABLES part,
          now, cleaned, stamp, author, tries, flooded, delivered, link, net, sub, used,
          heard, relayed,
          store, old, usage, quota, lapsed, queue, pc, loc, prune, told, blind, spent

Mesh == INSTANCE Gossip
mesh_vars == <<now, cleaned, stamp, author, tries, flooded, delivered, link, net, sub,
               used, heard, relayed>>

Box == INSTANCE MailboxStorage WITH Entry <- Item, Peer <- Peer \cup {Self}, used <- spent
box_vars == <<store, old, usage, quota, lapsed, queue, pc, loc, prune, told, blind, spent>>

Triangle == {{n1, n2}, {n2, n3}, {n1, n3}}
NoSub    == {[n \in Node |-> {}]}

Only(x) ==
  /\ part = x /\ UNCHANGED part
  /\ x # "table" => UNCHANGED vars
  /\ x # "mesh"  => UNCHANGED mesh_vars
  /\ x # "box"   => UNCHANGED box_vars

SettlesInit == part \in {"table", "mesh", "box"} /\ Init /\ Mesh!Init /\ Box!Init
SettlesNext == \/ Only("table") /\ Next
               \/ Only("mesh") /\ Mesh!Next
               \/ Only("box") /\ Box!Next

\* The fairness of Gossip for the behaviours that move the mesh, which has something to
\* do from the start.
SettlesFairness ==
  /\ Fairness /\ Box!Fairness
  /\ WF_mesh_vars(part = "mesh" /\ \E m \in net : Mesh!HandleGossip(m))
  /\ \A n \in Node : WF_mesh_vars(part = "mesh" /\ Mesh!CleanupTimer(n))
  /\ WF_mesh_vars(part = "mesh" /\ Mesh!Tick)

SettlesSpec == SettlesInit /\ [][SettlesNext]_<<part, vars, mesh_vars, box_vars>>
                 /\ SettlesFairness

\* What happens between peers ends: every connection is verified or leaves the table, an
\* excess of verified peers is worked off, a flood reaches everybody and dies out although
\* packets evict each other from caches that are too small, and a job of the mailbox that
\* fails neither stops those behind it nor exceeds a limit (startHandshakeTimer,
\* rebalance, flood, acceptForStorage).
ComesToRest ==
  /\ HandshakeSettles /\ ExcessHeals
  /\ Mesh!Quiet /\ []Mesh!ReachAll
  /\ Box!QueueDrains /\ []Box!WellStored
=============================================================================
