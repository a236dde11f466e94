-------------------------- MODULE MCMailboxStorage --------------------------
(* Small instances of MailboxStorage for TLC. *)
EXTENDS MailboxStorage, TLC

CONSTANTS t1, t2, t3, e1, e2, e3, me, peer

Symmetric == Permutations(Topic) \cup Permutations(Entry)

\* A restart clears the quotas and pruning does not touch them, so behaviours in which
\* they are renewed need neither.
Apart      == used'.hours = 0 \/ used'.restarts + used'.prunes = 0
LimitsSpec == Init /\ [][Next /\ Apart]_vars
=============================================================================
