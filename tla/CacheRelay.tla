------------------------------ MODULE CacheRelay ------------------------------
(***************************************************************************)
(* What the cache node (aether-cache) does with the messages of its peers: *)
(* GossipActor::handle_message (gossip/router.rs) with its three           *)
(* SeenCaches, the token buckets of rate_limiter.rs, and the MailboxActor  *)
(* behind it (mailbox/mailbox.rs) with its table of entries                *)
(* (storage/sqlite_store.rs).                                              *)
(*                                                                         *)
(* Hashes and proofs of work are right or wrong; hop_count and sizes are   *)
(* part of that.  The budget is that of gossip and PUT; HELLO, PING, PEX,  *)
(* GET and relayed signals are answered without changing anything here but *)
(* a budget.  Time passes in minutes.                                      *)
(***************************************************************************)
EXTENDS Integers, Sequences, SequencesExt, FiniteSetsExt

CONSTANTS
    Sender,
    CachePacket,
    Stamp,          \* Stamp[g]: the minute in the timestamp of packet g
    Mark,           \* hints
    Key,            \* topics of PUT and GET: any hash, the id of a packet too
    Good,           \* entries that checkEntry accepts
    Batch,          \* what the messages PUT carry: sets of entries, good or not
    Burst,          \* of the token buckets
    MaxSeen,        \* capacity of a SeenCache, 50 000
    SeenTtl,        \* its time to live, 15 minutes
    Offset,          \* MAX_TIME_DRIFT
    PerTopic,       \* MAX_ENTRIES_PER_TOPIC
    MaxKeys,        \* MAX_TOPICS
    Keep,           \* 24 hours
    Queue,          \* bound: messages that wait in mailbox_tx
    Disk,           \* bound: rows, and messages that wait
    Minutes         \* bound: minutes that pass

ASSUME CacheRelayAssumption ==
    /\ Stamp \in [CachePacket -> Nat]
    /\ {Burst, MaxSeen, SeenTtl, PerTopic, MaxKeys, Keep} \subseteq Nat \ {0}
    /\ {Offset, Minutes, Queue, Disk} \subseteq Nat
    /\ IsFiniteSet(Good)

VARIABLES
    minute,
    known,          \* verified
    tokens,         \* tokens[s]: budget of sender s
    seen,           \* seen[c]: cache c
    mailbox,        \* mailbox_tx
    entries,        \* mailbox_entries: set of rows; `by` is a history of each: that it came
                    \* by gossip, or the limits that were read before a PUT stored it
    row_id,         \* the last id that AUTOINCREMENT gave
    rebroadcast,    \* history: packets and hints broadcast
    swept,          \* history: packets whose rows cleanup() deleted
    unkept          \* history: packets whose put() failed, or that are too large for it

stored == <<entries, row_id>>
past == <<swept, unkept>>
cache_relay == <<minute, known, tokens, seen, mailbox, stored, rebroadcast, past>>

-----------------------------------------------------------------------------
(* SeenCache: at[x] is when x was added; the order is not touched when an   *)
(* entry expires, so it may hold an id twice.                               *)

NoSeen == [at |-> <<>>, order |-> <<>>]
Drops(f, X) == [x \in DOMAIN f \ X |-> f[x]]

HasSeen(c, x) == x \in DOMAIN seen[c].at /\ minute - seen[c].at[x] < SeenTtl

Added(k, x) ==
    LET order == Append(k.order, x)
        at    == [y \in DOMAIN k.at \cup {x} |-> IF y = x THEN minute ELSE k.at[y]]
    IN  IF Len(order) > MaxSeen
        THEN [at |-> Drops(at, {Head(order)}), order |-> Tail(order)]
        ELSE [at |-> at, order |-> order]

\* has() and, when it is not there, add().
Noted(c, x) ==
    IF HasSeen(c, x) THEN seen[c]
    ELSE Added([seen[c] EXCEPT !.at = Drops(@, {x})], x)

\* add() alone leaves an entry that is there as it is, expired or not.
Put(c, x) == IF x \in DOMAIN seen[c].at THEN seen[c] ELSE Added(seen[c], x)

-----------------------------------------------------------------------------
(* handle_message() *)

\* allow(), then the handshake gate: what comes before JOIN is answered only if it is
\* HELLO or JOIN.
Allowed(s) == tokens[s] > 0
Spent(s) == tokens' = [tokens EXCEPT ![s] = @ - 1]
Passes(s) == Allowed(s) /\ s \in known /\ Spent(s)

\* check_packet() of a sound packet: not from the future, and not stale.
Timely(g) == Stamp[g] <= minute + Offset /\ minute - Stamp[g] <= Offset

HasRoom == Len(mailbox) < Queue /\ Len(mailbox) + Cardinality(entries) < Disk

\* deliver_to_mailbox(): once, whatever was relayed.
Delivers(g) ==
    mailbox' = IF HasSeen("delivered", g) THEN mailbox
               ELSE Append(mailbox, [is |-> "packet", key |-> g, put |-> {g}])

Gossip(s, g) ==
    /\ Passes(s) /\ Timely(g) /\ HasRoom /\ Delivers(g)
    /\ rebroadcast' = IF HasSeen("flooded", g) THEN rebroadcast ELSE rebroadcast \cup {<<"packet", g>>}
    /\ seen' = [seen EXCEPT !.delivered = Noted("delivered", g), !.flooded = Noted("flooded", g)]
    /\ UNCHANGED <<minute, known, stored, past>>

\* Mutant: a stem that goes on counts as handed over.
StemForwardNoted(s, g) ==
    /\ Passes(s) /\ Timely(g) /\ known # {s}
    /\ seen' = [seen EXCEPT !.delivered = Noted("delivered", g)]
    /\ UNCHANGED <<minute, known, mailbox, stored, rebroadcast, past>>

\* A stem goes on to another verified peer, noted nowhere, ...
StemForward(s, g) ==
    /\ Passes(s) /\ Timely(g) /\ known # {s}
    /\ UNCHANGED <<minute, known, seen, mailbox, stored, rebroadcast, past>>

\* ... or turns into gossip, also when there is nobody else.
StemFluff(s, g) == Gossip(s, g)

\* A hint is rebroadcast once, while it has hops left.
HintRelay(s, h, ttl) ==
    /\ Passes(s)
    /\ seen' = [seen EXCEPT !.hint = Noted("hint", h)]
    /\ rebroadcast' = IF ttl = 0 \/ HasSeen("hint", h) THEN rebroadcast ELSE rebroadcast \cup {<<"hint", h>>}
    /\ UNCHANGED <<minute, known, mailbox, stored, past>>

\* A stem of a hint that turns into a hint goes to everybody, known or not.
HintFluff(s, h) ==
    /\ Passes(s)
    /\ seen' = [seen EXCEPT !.hint = Put("hint", h)]
    /\ rebroadcast' = rebroadcast \cup {<<"hint", h>>}
    /\ UNCHANGED <<minute, known, mailbox, stored, past>>

\* PUT goes to the mailbox; stems of hints and of PUT that go on, HELLO, PING, PEX and
\* signals, and whatever the gate or a check turns away, cost budget only.
PutArrivesAtCache(s, k, E) ==
    /\ Passes(s) /\ HasRoom
    /\ mailbox' = Append(mailbox, [is |-> "put", key |-> k, put |-> E])
    /\ UNCHANGED <<minute, known, seen, stored, rebroadcast, past>>

CostsOnly(s) ==
    /\ Allowed(s) /\ Spent(s)
    /\ UNCHANGED <<minute, known, seen, mailbox, stored, rebroadcast, past>>

\* A JOIN that holds; its budget is another one.
Joins(s) ==
    /\ s \notin known /\ known' = known \cup {s}
    /\ UNCHANGED <<minute, tokens, seen, mailbox, stored, rebroadcast, past>>

\* forget_peer(): disconnected, reset, or a JOIN that does not hold.
Forgotten(s) ==
    /\ known' = known \ {s} /\ tokens' = [tokens EXCEPT ![s] = Burst]
    /\ UNCHANGED <<minute, seen, mailbox, stored, rebroadcast, past>>

-----------------------------------------------------------------------------
(* MailboxActor *)

Rows(k) == {r \in entries : r.key = k}
Topics == {r.key : r \in entries}

\* put(): one row after the other.
Inserts(k, E, by) ==
    LET row(i) == [id |-> row_id + i, key |-> k, entry |-> SetToSeq(E)[i], at |-> minute, by |-> by]
    IN  /\ entries' = entries \cup {row(i) : i \in 1..Cardinality(E)}
        /\ row_id' = row_id + Cardinality(E)

\* Mutant: a message is cut to the limit, whatever is stored.
RoomForAll(existing) == PerTopic
RoomBeside(existing) == PerTopic - Cardinality(existing)

\* The entries of a PUT that are valid, as many as the topic has room for, and none when
\* there are too many topics.  Nothing compares them with those that are stored.  A topic
\* that cannot be read counts as empty, topics that cannot be counted as none, and a row
\* that cannot be inserted ends it: those before it stay.
Stores(m) ==
    \E reads, counts \in BOOLEAN :
      LET existing == IF reads THEN Rows(m.key) ELSE {}
          topics   == IF counts THEN Cardinality(Topics) ELSE 0
          room     == RoomBeside(existing)
          checked  == {x \in {"room", "topics"} : IF x = "room" THEN reads
                                                  ELSE existing = {} /\ counts}
      IN  IF room <= 0 \/ (existing = {} /\ topics >= MaxKeys)
          THEN UNCHANGED stored
          ELSE \E E \in SUBSET (m.put \cap Good) :
                 Cardinality(E) <= room /\ Inserts(m.key, E, checked)

\* A packet from gossip is stored under its own id, without a limit, in the table of the
\* PUTs; that it could not be, nobody learns.
HandleDht ==
    LET m == Head(mailbox)
    IN  /\ mailbox # <<>> /\ mailbox' = Tail(mailbox)
        /\ \/ m.is = "put" /\ Stores(m) /\ UNCHANGED unkept
           \/ m.is = "packet" /\ Inserts(m.key, m.put, {"gossip"}) /\ UNCHANGED unkept
           \/ m.is = "packet" /\ unkept' = unkept \cup {m.key} /\ UNCHANGED stored
        /\ UNCHANGED <<minute, known, tokens, seen, rebroadcast, swept>>

\* cleanup(): tried when nothing arrived for five minutes.
CleanUp ==
    LET old == {r \in entries : minute - r.at > Keep}
    IN  /\ mailbox = <<>> /\ old # {}
        /\ entries' = entries \ old
        /\ swept' = swept \cup {r.key : r \in {q \in old : "gossip" \in q.by}}
        /\ UNCHANGED <<minute, known, tokens, seen, mailbox, row_id, rebroadcast, unkept>>

\* Budgets fill up, entries of the caches and rows age.
MinutePasses ==
    /\ minute < Minutes /\ minute' = minute + 1
    /\ tokens' = [s \in Sender |-> Burst]
    /\ UNCHANGED <<known, seen, mailbox, stored, rebroadcast, past>>

-----------------------------------------------------------------------------
CacheRelayInit ==
    /\ minute = 0 /\ known = {} /\ tokens = [s \in Sender |-> Burst]
    /\ seen = [c \in {"flooded", "delivered", "hint"} |-> NoSeen]
    /\ mailbox = <<>> /\ entries = {} /\ row_id = 0
    /\ rebroadcast = {} /\ swept = {} /\ unkept = {}

CacheRelayNext ==
    \/ \E s \in Sender :
         \/ \E g \in CachePacket : Gossip(s, g) \/ StemForward(s, g) \/ StemFluff(s, g)
         \/ \E h \in Mark : HintFluff(s, h) \/ \E ttl \in {0, 1} : HintRelay(s, h, ttl)
         \/ \E k \in Key, E \in Batch : PutArrivesAtCache(s, k, E)
         \/ CostsOnly(s) \/ Joins(s) \/ Forgotten(s)
    \/ HandleDht \/ CleanUp \/ MinutePasses

CacheRelaySpec == CacheRelayInit /\ [][CacheRelayNext]_cache_relay

-----------------------------------------------------------------------------
(* Properties *)

Archive(g) == {r \in Rows(g) : "gossip" \in r.by}

\* Every packet the node broadcast was handed to the mailbox and is stored until its day
\* is over, so that a packet it first only passed on as a stem is not missing; but for
\* those that could not be stored, once.
Archived ==
    \A g \in CachePacket :
      <<"packet", g>> \in rebroadcast =>
        \/ g \in swept \cup unkept
        \/ Archive(g) # {}
        \/ \E m \in ToSet(mailbox) : m.is = "packet" /\ m.key = g

Upto(r) == {q \in entries : q.id <= r.id}

\* Every id a cache remembers can still be evicted, so it never grows past its size.  A
\* PUT that could read its topic made it no fuller than the limit, whatever gossip had put
\* there, and one that could count the topics opened none too many.
Limited ==
    /\ \A c \in DOMAIN seen : /\ Len(seen[c].order) <= MaxSeen
                              /\ DOMAIN seen[c].at \subseteq ToSet(seen[c].order)
    /\ \A r \in entries :
         /\ "room" \in r.by => Cardinality({q \in Upto(r) : q.key = r.key}) <= PerTopic
         /\ "topics" \in r.by => Cardinality({q.key : q \in Upto(r)}) <= MaxKeys

\* Stems, gossip, PUTs under any topic and repetitions in any order, whatever expired and
\* came again and whichever queries fail: the cache node archives what it passed on if it
\* can and stays within its limits as far as it can read them (deliver_to_mailbox,
\* SeenCache.has and add, handle_dht_message).
CacheHolds == Archived /\ Limited
=============================================================================
