----------------------------- MODULE MCDelivers -----------------------------
(***************************************************************************)
(* How data gets to where it is wanted: looking for a body (MailboxFetch), *)
(* spreading copies and hints (Replication), and the messages of one       *)
(* channel (Channel), each under the fairness of its module.  They share   *)
(* no state: each behaviour moves one of them, `part`, and leaves the      *)
(* others as they began.                                                   *)
(***************************************************************************)
EXTENDS MailboxFetch, Replication, Channel

CONSTANTS me, p1, p2, p3, n1, n2, n3, m1, m2, m3

VARIABLE part

\* All neighbours are nearer to the slot than the node: with K = 2 and all of them
\* linked one is not asked and the node is not responsible.
Distances == [p \in Peer |-> CASE p = p1 -> 1 [] p = p2 -> 2 [] p = p3 -> 3 [] OTHER -> 4]
Rings     == [x \in Slot |-> [n \in Neighbour |-> CASE n = n1 -> 1 [] n = n2 -> 2 [] OTHER -> 3]]
Lengths   == [m \in Message |-> CASE m = m1 -> 1 [] m = m2 -> 2 [] OTHER -> 3]

MovesOnly(x) ==
  /\ part = x /\ UNCHANGED part
  /\ x # "fetch"       => UNCHANGED vars
  /\ x # "replication" => UNCHANGED replication_vars
  /\ x # "channel"     => UNCHANGED channel_vars

DeliversInit ==
  /\ part \in {"fetch", "replication", "channel"}
  /\ Init /\ ReplicationInit /\ ChannelInit
  /\ part # "fetch" => linked = {}
  /\ part # "channel" => from = "web" /\ to = "web"

DeliversNext ==
  \/ MovesOnly("fetch") /\ Next
  \/ MovesOnly("replication") /\ ReplicationNext
  \/ MovesOnly("channel") /\ ChannelNext

\* ReplicationFairness for the behaviours that move the replication, which has something
\* to do from the start.
DeliversFairness ==
  /\ Fairness /\ ChannelFairness
  /\ WF_replication_vars(part = "replication" /\ Periodic)
  /\ WF_replication_vars(part = "replication" /\ Waits)
  /\ WF_replication_vars(part = "replication" /\ Rebalance)
  /\ WF_replication_vars(part = "replication" /\ Replicates)
  /\ \A x \in Slot : /\ WF_replication_vars(part = "replication" /\ Chooses(x))
                     /\ WF_replication_vars(part = "replication" /\ Reflood(x))

DeliversSpec ==
  DeliversInit /\ [][DeliversNext]_<<part, vars, replication_vars, channel_vars>>
    /\ DeliversFairness
=============================================================================
