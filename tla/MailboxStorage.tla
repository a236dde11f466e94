--------------------------- MODULE MailboxStorage ---------------------------
(***************************************************************************)
(* What a node keeps for others: the storage half of DHTMailbox.ts         *)
(* (handlePut, acceptForStorage and its queue, the usage counter, the      *)
(* hourly quotas, pruneExpired) over the mailbox table of                  *)
(* IndexedDBStore.ts.                                                      *)
(*                                                                         *)
(* The code between two awaits is one step, so a job of the queue is       *)
(* followed from one access to the database to the next, and pruning runs  *)
(* in between.  An entry has size 1; a record costs Seal more on disk than *)
(* its entries (DataVault.seal).                                           *)
(***************************************************************************)
EXTENDS Integers, Sequences, FiniteSets

CONSTANTS
    Topic, Entry,
    Peer,           \* the senders, the node itself among them
    Self,
    MaxPerTopic,    \* MAX_ENTRIES_PER_TOPIC
    MaxTopics,      \* MAX_TOPICS
    MaxTotal,       \* MAX_TOTAL_BYTES
    MaxPerHour,     \* MAX_BYTES_PER_PEER_PER_HOUR
    Seal,           \* what a record costs on disk beyond its entries
    Arrivals,       \* bound: PUTs that arrive
    Failures,       \* bound: accesses to the database that fail
    Hours,          \* bound: hours that pass
    Prunes,         \* bound: prunings
    Restarts        \* bound: restarts of the node

ASSUME MailboxStorageAssumption ==
    /\ IsFiniteSet(Topic) /\ IsFiniteSet(Entry)
    /\ Self \in Peer
    /\ {MaxPerTopic, MaxTopics, MaxTotal, MaxPerHour} \subseteq Nat \ {0}
    /\ {Seal, Arrivals, Failures, Hours, Prunes, Restarts} \subseteq Nat

VARIABLES
    store,      \* store[t]: the entries of the record of t, {} without one
    old,        \* topics last written before the retention period
    usage,      \* usageBytes, Unknown for null
    quota,      \* quota[p]: bytes charged to p in its window
    lapsed,     \* senders whose window began more than an hour ago
    queue,      \* storageQueue: the jobs not finished, the running one first
    pc,         \* where the running job awaits
    loc,        \* its local variables
    prune,      \* "idle", or what the running pruneExpired has found
    told,       \* history: how often slotListeners heard of an entry stored now
    blind,      \* history: the size on disk could not be read once
    used        \* how much of the bounds is used

vars == <<store, old, usage, quota, lapsed, queue, pc, loc, prune, told, blind, used>>

Unknown == -1

Slot    == Topic \X Entry
Job     == [topic : Topic, entries : SUBSET Entry, from : Peer]
Stored  == {s \in Slot : s[2] \in store[s[1]]}
Records == {t \in Topic : store[t] # {}}

\* mailboxUsageBytes(): the size on disk.
DiskUsage == Cardinality(Stored) + Seal * Cardinality(Records)

NoLocals == [existing |-> {}, cand |-> {}, rec |-> {}, total |-> 0]

job == Head(queue)

-----------------------------------------------------------------------------
(* The queue *)

\* handlePut, handleRes and storeSlotAsExit have checked the entries and that
\* the node is responsible for the topic; the job joins the queue.
PutArrives(j) ==
    /\ used.arrivals < Arrivals
    /\ j.entries # {}
    /\ used' = [used EXCEPT !.arrivals = @ + 1]
    /\ queue' = Append(queue, j)
    /\ pc' = IF queue = <<>> THEN "get" ELSE pc
    /\ UNCHANGED <<store, old, usage, quota, lapsed, loc, prune, told, blind>>

\* The running job is over; the next one starts.
Leave ==
    /\ queue' = Tail(queue)
    /\ pc' = IF Len(queue) = 1 THEN "none" ELSE "get"
    /\ loc' = NoLocals

Goto(where, l) ==
    /\ pc' = where
    /\ loc' = l
    /\ queue' = queue

Smaller(m, n) == IF m < n THEN m ELSE n

\* The new entries, as many as there is room for, first come first.
Take(existing) ==
    LET fresh == job.entries \ existing
        room  == MaxPerTopic - Cardinality(existing)
    IN  IF fresh = {} THEN Leave
        ELSE \E cand \in SUBSET fresh :
               /\ Cardinality(cand) = Smaller(room, Cardinality(fresh))
               /\ Goto("usage", [existing |-> existing, cand |-> cand, rec |-> {},
                                 total |-> 0])

\* await store.get(topicHash)
AcceptGet ==
    /\ pc = "get"
    /\ LET existing == store[job.topic]
       IN  IF Cardinality(existing) >= MaxPerTopic THEN Leave
           ELSE IF existing = {} THEN Goto("count", NoLocals)
           ELSE Take(existing)
    /\ UNCHANGED <<store, old, usage, quota, lapsed, prune, told, used, blind>>

\* await store.getAllTopicHashes(), for a topic without a record
AcceptCount ==
    /\ pc = "count"
    /\ IF Cardinality(Records) >= MaxTopics THEN Leave ELSE Take({})
    /\ UNCHANGED <<store, old, usage, quota, lapsed, prune, told, used, blind>>

\* await currentUsage(): the counter, or the size on disk when it is unknown.
AcceptUsage ==
    /\ pc = "usage"
    /\ \/ /\ usage # Unknown
          /\ Goto("charge", [loc EXCEPT !.total = usage])
          /\ UNCHANGED <<used, blind>>
       \/ /\ usage = Unknown
          /\ Goto("learn", [loc EXCEPT !.total = DiskUsage])
          /\ UNCHANGED <<used, blind>>
       \/ /\ usage = Unknown /\ used.failures < Failures
          /\ Goto("learn", [loc EXCEPT !.total = 0])
          /\ used' = [used EXCEPT !.failures = @ + 1]
          /\ blind' = TRUE
    /\ UNCHANGED <<store, old, usage, quota, lapsed, prune, told>>

AcceptLearn ==
    /\ pc = "learn"
    /\ usage' = loc.total
    /\ Goto("charge", loc)
    /\ UNCHANGED <<store, old, quota, lapsed, prune, told, used, blind>>

Fits(bytes) == loc.total + bytes <= MaxTotal

\* What p has been charged in the window that is open now.
Charged(p) == IF p \in lapsed THEN 0 ELSE quota[p]

WithinQuota(p, bytes) == Charged(p) + bytes <= MaxPerHour

\* The limit on the total, then chargePeerQuota for anyone but the node itself:
\* it opens a new window if the old one has passed, even when it refuses.
AcceptCharge ==
    LET bytes == Cardinality(loc.cand)
        p     == job.from
        ok    == Fits(bytes) /\ (p # Self => WithinQuota(p, bytes))
    IN  /\ pc = "charge"
        /\ IF ok THEN Goto("read", loc) ELSE Leave
        /\ IF Fits(bytes) /\ p # Self
           THEN /\ lapsed' = lapsed \ {p}
                /\ quota' = [quota EXCEPT ![p] = Charged(p) + (IF ok THEN bytes ELSE 0)]
           ELSE UNCHANGED <<quota, lapsed>>
        /\ UNCHANGED <<store, old, usage, prune, told, used, blind>>

\* store.put() reads the record ...
PutRead ==
    /\ pc = "read"
    /\ LET rec == store[job.topic]
       IN  Goto(IF rec # {} /\ loc.cand \subseteq rec THEN "settle" ELSE "write",
                [loc EXCEPT !.rec = rec])
    /\ UNCHANGED <<store, old, usage, quota, lapsed, prune, told, used, blind>>

\* ... and writes it back with the new entries.
PutWrite ==
    /\ pc = "write"
    /\ store' = [store EXCEPT ![job.topic] = loc.rec \cup loc.cand]
    /\ old' = old \ {job.topic}
    /\ Goto("settle", loc)
    /\ UNCHANGED <<usage, quota, lapsed, prune, told, used, blind>>

\* Mutant: the counter keeps the total without the new bytes.
AcceptSettleUncounted ==
    /\ pc = "settle"
    /\ usage' = loc.total
    /\ told' = IF job.from = Self THEN told
               ELSE [s \in Slot |->
                       IF s[1] = job.topic /\ s[2] \in loc.cand
                       THEN Smaller(told[s] + 1, 2) ELSE told[s]]
    /\ Leave
    /\ UNCHANGED <<store, old, quota, lapsed, prune, used, blind>>

\* The counter is written from the value read earlier; the listeners are told
\* of what was stored for others.
AcceptSettle ==
    /\ pc = "settle"
    /\ usage' = loc.total + Cardinality(loc.cand)
    /\ told' = IF job.from = Self THEN told
               ELSE [s \in Slot |->
                       IF s[1] = job.topic /\ s[2] \in loc.cand
                       THEN Smaller(told[s] + 1, 2) ELSE told[s]]
    /\ Leave
    /\ UNCHANGED <<store, old, quota, lapsed, prune, used, blind>>

\* The database throws: the job is rejected and the queue goes on.
StoreFails ==
    /\ pc \in {"get", "count", "read", "write"}
    /\ used.failures < Failures
    /\ used' = [used EXCEPT !.failures = @ + 1]
    /\ Leave
    /\ UNCHANGED <<store, old, usage, quota, lapsed, prune, told, blind>>

-----------------------------------------------------------------------------
(* Pruning *)

\* pruneMailbox() deletes the records past retention in one transaction, or fails.
PruneStore ==
    /\ prune = "idle" /\ used.prunes < Prunes
    /\ \/ /\ store' = [t \in Topic |-> IF t \in old THEN {} ELSE store[t]]
          /\ told' = [s \in Slot |-> IF s[1] \in old THEN 0 ELSE told[s]]
          /\ old' = {}
          /\ prune' = IF old \cap Records = {} THEN "nothing" ELSE "deleted"
          /\ used' = [used EXCEPT !.prunes = @ + 1]
       \/ /\ used.failures < Failures
          /\ prune' = "nothing"
          /\ used' = [used EXCEPT !.prunes = @ + 1, !.failures = @ + 1]
          /\ UNCHANGED <<store, told, old>>
    /\ UNCHANGED <<usage, quota, lapsed, queue, pc, loc, blind>>

\* The rest of pruneExpired(): the counter is forgotten when records went.
PruneReset ==
    /\ prune # "idle"
    /\ usage' = IF prune = "deleted" THEN Unknown ELSE usage
    /\ quota' = [p \in Peer |-> IF p \in lapsed THEN 0 ELSE quota[p]]
    /\ lapsed' = {}
    /\ prune' = "idle"
    /\ UNCHANGED <<store, old, queue, pc, loc, told, used, blind>>

-----------------------------------------------------------------------------
(* Time and restarts *)

\* Retention passes for t, which takes longer than any job: not for a record that
\* the running job has just written.
Ages(t) ==
    /\ t \in Records \ old
    /\ pc = "settle" => t # job.topic
    /\ old' = old \cup {t}
    /\ UNCHANGED <<store, usage, quota, lapsed, queue, pc, loc, prune, told, used, blind>>

HourPasses ==
    /\ used.hours < Hours
    /\ used' = [used EXCEPT !.hours = @ + 1]
    /\ lapsed' = {p \in Peer : quota[p] > 0}
    /\ UNCHANGED <<store, old, usage, quota, queue, pc, loc, prune, told, blind>>

\* The process ends at any point; only the database survives.
Restart ==
    /\ used.restarts < Restarts
    /\ used' = [used EXCEPT !.restarts = @ + 1]
    /\ usage' = Unknown
    /\ quota' = [p \in Peer |-> 0] /\ lapsed' = {}
    /\ queue' = <<>> /\ pc' = "none" /\ loc' = NoLocals /\ prune' = "idle"
    /\ UNCHANGED <<store, old, told, blind>>

-----------------------------------------------------------------------------
Init ==
    /\ store = [t \in Topic |-> {}] /\ old = {}
    /\ usage = Unknown
    /\ quota = [p \in Peer |-> 0] /\ lapsed = {}
    /\ queue = <<>> /\ pc = "none" /\ loc = NoLocals
    /\ prune = "idle"
    /\ told = [s \in Slot |-> 0] /\ blind = FALSE
    /\ used = [arrivals |-> 0, failures |-> 0, hours |-> 0, prunes |-> 0, restarts |-> 0]

Accept ==
    \/ AcceptGet \/ AcceptCount \/ AcceptUsage \/ AcceptLearn \/ AcceptCharge
    \/ PutRead \/ PutWrite \/ AcceptSettle

Next ==
    \/ \E j \in Job : PutArrives(j)
    \/ Accept \/ StoreFails
    \/ PruneStore \/ PruneReset
    \/ \E t \in Topic : Ages(t)
    \/ HourPasses \/ Restart

\* The database answers, with a result or an error, and promises resolve.
Fairness == WF_vars(Accept)

Spec     == Init /\ [][Next]_vars
LiveSpec == Spec /\ Fairness

-----------------------------------------------------------------------------
(* Properties *)

TopicBound == \A t \in Topic : Cardinality(store[t]) <= MaxPerTopic

TopicsBound == Cardinality(Records) <= MaxTopics

TotalBound == ~blind => Cardinality(Stored) <= MaxTotal

QuotaBound == \A p \in Peer : quota[p] <= MaxPerHour

ToldOnce == \A s \in Slot : told[s] <= 1

\* However PUTs, failures, crashes and pruning interleave, the limits hold, although
\* acceptForStorageNow writes several awaits after it looked: of entries in a topic; of
\* topics, checked only for one that had no record when the job began; of bytes,
\* counted from a value read before the write that pruning forgets in between, unless
\* the size on disk could not be read and counted as 0; of what a peer may send in an
\* hour, across the renewal of its window.  And listeners hear of an entry once as long
\* as it stays stored.
WellStored == TopicBound /\ TopicsBound /\ TotalBound /\ QuotaBound /\ ToldOnce

\* A failed job does not wedge the queue: every job that arrives is over at some
\* time (acceptForStorage chains the next job on both outcomes).
QueueDrains == <>[](queue = <<>>)
=============================================================================
