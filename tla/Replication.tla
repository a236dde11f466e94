----------------------------- MODULE Replication -----------------------------
(***************************************************************************)
(* How copies and hints of stored slots spread: ReplicationManager.ts, the *)
(* sending side of PUT in DHTMailbox.ts (storeSlotAsExit, putToKNearest,   *)
(* replicate), and the backlog and reflood of SchrodingerMailbox.ts, seen  *)
(* from one node whose neighbours come and go.                             *)
(*                                                                         *)
(* A slot has one entry per Part.  Neighbours keep what they are sent      *)
(* (MailboxStorage has their limits) and lose it when they leave; a        *)
(* message to a neighbour that has left is lost.                           *)
(***************************************************************************)
EXTENDS Integers, FiniteSets

CONSTANTS
    Neighbour,
    Slot,
    Parts,          \* entries of a slot
    PerMessage,     \* MAX_ENTRIES_PER_MESSAGE
    Far,            \* Far[x][n]: how far neighbour n is from slot x on the ring
    Near,           \* K_REPLICATION, K_NEAREST
    Debounce,       \* the ten seconds of planRebalance
    Churn           \* bound: neighbours that connect or disconnect

ASSUME ReplicationAssumption ==
    /\ Far \in [Slot -> [Neighbour -> Nat]]
    /\ {Parts, PerMessage, Near, Debounce} \subseteq Nat \ {0} /\ Churn \in Nat

VARIABLES
    peers,      \* verified neighbours
    stored,     \* slots in the node's own store
    copies,     \* copies[n]: entries n has
    hints,      \* slots whose hint n was sent, for every neighbour n
    timer,      \* rebalanceTimer: what is left, 0 when it is not set
    job,        \* slots a rebalanceOnce still has to send
    chosen,     \* the neighbours it chose before it read the slot
    stopped,    \* destroyed
    churn

replication_vars == <<peers, stored, copies, hints, timer, job, chosen, stopped, churn>>

Entries(x) == {x} \X (1..Parts)

\* findKNearestExcludingMe()
NearestTo(x) == {n \in peers : Cardinality({m \in peers : Far[x][m] < Far[x][n]}) < Near}

\* Mutant: what does not fit into the first message is left out.
ChunksFirst(x) == {x} \X {i \in 1..Parts : i <= PerMessage}

\* replicate(): as many messages as the limit asks for.
Chunks(x) ==
    UNION {{x} \X {i \in 1..Parts : m * PerMessage < i /\ i <= (m + 1) * PerMessage} :
             m \in 0..Parts}

Sent(x, them) == [n \in Neighbour |-> IF n \in them \cap peers THEN copies[n] \cup Chunks(x)
                                    ELSE copies[n]]

Planned == IF stopped THEN timer ELSE Debounce

-----------------------------------------------------------------------------
(* Neighbours *)

\* Who connects is sent the backlog of hints, and a rebalancing is planned.
Connect(n) ==
    /\ n \notin peers /\ churn < Churn /\ churn' = churn + 1
    /\ peers' = peers \cup {n}
    /\ hints' = IF stopped THEN hints ELSE [hints EXCEPT ![n] = stored]
    /\ timer' = Planned
    /\ UNCHANGED <<stored, copies, job, chosen, stopped>>

Disconnect(n) ==
    /\ n \in peers /\ churn < Churn /\ churn' = churn + 1
    /\ peers' = peers \ {n}
    /\ copies' = [copies EXCEPT ![n] = {}] /\ hints' = [hints EXCEPT ![n] = {}]
    /\ timer' = Planned
    /\ UNCHANGED <<stored, job, chosen, stopped>>

-----------------------------------------------------------------------------
(* Rebalancing *)

\* The check of every five minutes starts the debounce again, too.
Periodic ==
    /\ ~stopped /\ timer = 0
    /\ timer' = Debounce
    /\ UNCHANGED <<peers, stored, copies, hints, job, chosen, stopped, churn>>

Waits ==
    /\ timer > 1 /\ timer' = timer - 1
    /\ UNCHANGED <<peers, stored, copies, hints, job, chosen, stopped, churn>>

\* executeRebalance(): nothing to do alone.
Rebalance ==
    /\ timer = 1 /\ timer' = 0
    /\ job' = IF stopped \/ peers = {} THEN job ELSE stored
    /\ UNCHANGED <<peers, stored, copies, hints, chosen, stopped, churn>>

\* The neighbours are chosen before the await that reads the slot ...
Chooses(x) ==
    /\ x \in job /\ chosen = [slot |-> "none", to |-> {}] /\ ~stopped
    /\ chosen' = [slot |-> x, to |-> NearestTo(x)]
    /\ UNCHANGED <<peers, stored, copies, hints, timer, job, stopped, churn>>

\* ... and sent to after it.
Replicates ==
    /\ chosen.slot # "none"
    /\ copies' = Sent(chosen.slot, chosen.to)
    /\ job' = IF stopped THEN {} ELSE job \ {chosen.slot}
    /\ chosen' = [slot |-> "none", to |-> {}]
    /\ UNCHANGED <<peers, stored, hints, timer, stopped, churn>>

-----------------------------------------------------------------------------
(* Slots and hints *)

\* storeSlotAsExit: the entry goes to the nearest, and into the own store if the node is
\* one of them; a slot that another exit placed arrives by PUT.
StoreAsExit(x, mine) ==
    /\ ~stopped /\ x \notin stored /\ copies = [n \in Neighbour |-> copies[n] \ Entries(x)]
    /\ stored' = IF mine THEN stored \cup {x} ELSE stored
    /\ copies' = Sent(x, NearestTo(x))
    /\ UNCHANGED <<peers, hints, timer, job, chosen, stopped, churn>>

PutArrives(x) ==
    /\ ~stopped /\ x \notin stored /\ stored' = stored \cup {x}
    /\ UNCHANGED <<peers, copies, hints, timer, job, chosen, stopped, churn>>

\* refloodDue: in its window the hint of a slot goes to everybody.
Reflood(x) ==
    /\ ~stopped /\ x \in stored
    /\ \E n \in peers : x \notin hints[n]
    /\ hints' = [n \in Neighbour |-> IF n \in peers THEN hints[n] \cup {x} ELSE hints[n]]
    /\ UNCHANGED <<peers, stored, copies, timer, job, chosen, stopped, churn>>

\* destroy(): the timers go, a job under way ends at its next await.
Destroy ==
    /\ ~stopped /\ stopped' = TRUE
    /\ timer' = 0
    /\ UNCHANGED <<peers, stored, copies, hints, job, chosen, churn>>

-----------------------------------------------------------------------------
ReplicationInit ==
    /\ peers = {} /\ stored = {} /\ copies = [n \in Neighbour |-> {}]
    /\ hints = [n \in Neighbour |-> {}]
    /\ timer = 0 /\ job = {} /\ chosen = [slot |-> "none", to |-> {}]
    /\ stopped = FALSE /\ churn = 0

ReplicationNext ==
    \/ \E n \in Neighbour : Connect(n) \/ Disconnect(n)
    \/ Periodic \/ Waits \/ Rebalance \/ Replicates \/ Destroy
    \/ \E x \in Slot : \/ Chooses(x) \/ PutArrives(x) \/ Reflood(x)
                       \/ \E mine \in BOOLEAN : StoreAsExit(x, mine)

\* Timers fire and the database answers.
ReplicationFairness ==
    /\ WF_replication_vars(Periodic) /\ WF_replication_vars(Waits)
    /\ WF_replication_vars(Rebalance) /\ WF_replication_vars(Replicates)
    /\ \A x \in Slot : WF_replication_vars(Chooses(x)) /\ WF_replication_vars(Reflood(x))

ReplicationSpec == ReplicationInit /\ [][ReplicationNext]_replication_vars /\ ReplicationFairness

-----------------------------------------------------------------------------
(* Properties *)

\* Once neighbours have stopped coming and going, every slot the node keeps is, whole,
\* with each of the nearest neighbours, and every neighbour was sent its hint,
\* so that a late comer finds what was written before (rebalanceOnce, sendBacklogTo,
\* refloodDue).
Spread ==
    []<>(stopped \/ \A x \in stored :
                      /\ \A n \in NearestTo(x) : Entries(x) \subseteq copies[n]
                      /\ \A n \in peers : x \in hints[n])
=============================================================================
