------------------------------- MODULE Gossip -------------------------------
(***************************************************************************)
(* Flooding of packets through the mesh: ZoneGossipRouter.ts with its two  *)
(* SeenCache instances (flooded, delivered) and the time window of         *)
(* PacketValidator.ts, on several nodes.                                   *)
(*                                                                         *)
(* A packet is the id its author derived from its header, of which only    *)
(* the timestamp matters here; a copy of it carries the id and a timestamp *)
(* that may have been changed on the way.  The onion circuit that carries  *)
(* a packet from its author to an exit is a lossy message (OnionCircuit.ts *)
(* has its own module).  Time is counted in cleanup periods (5 minutes in  *)
(* the code).                                                              *)
(***************************************************************************)
EXTENDS Integers, Sequences, FiniteSets

CONSTANTS
    Node,
    Packet,
    Link0,      \* the possible links: sets of two nodes
    TTL,        \* SeenCache.TTL_MS, in cleanup periods
    Drift,      \* POW_POLICY.MAX_TIME_DRIFT, in cleanup periods
    MaxSize,    \* SeenCache.MAX_SIZE
    Ahead,      \* bound: how far an author's clock may run ahead
    Behind,     \* bound: how far it may run behind
    Attempts,   \* ONION MAX_ATTEMPTS: cells the circuit emits for a packet
    Resends,    \* bound: copies that neighbours send again
    Sub0,       \* the subscriptions nodes may start with
    Resubs,     \* bound: changes of subscriptions
    Downs,      \* bound: links that go down
    Writer,     \* bound: the nodes whose users write
    LastWrite,  \* bound: the last period in which a packet is written
    Horizon,    \* bound: the last period
    Count       \* bound: how far the histories count

ASSUME GossipAssumption ==
    /\ {TTL, Drift, Ahead, Behind, Attempts, Resends, Resubs, Downs, LastWrite,
        Horizon} \subseteq Nat
    /\ {MaxSize, Count} \subseteq Nat \ {0}
    /\ Writer \subseteq Node
    /\ Sub0 \subseteq [Node -> SUBSET Packet]
    /\ \A l \in Link0 : \E a, b \in Node : a # b /\ l = {a, b}

VARIABLES
    now,        \* Date.now(), the same on every node but authors' offsets
    cleaned,    \* nodes whose cleanup timer has fired in this period
    stamp,      \* stamp[p]: the timestamp of p, NoStamp before it exists
    author,     \* author[p]: a set with the author of p once it exists
    tries,      \* tries[p]: cells emitted for p so far
    flooded,    \* flooded[n]: the SeenCache of relayed ids, oldest first
    delivered,  \* delivered[n]: the SeenCache of ids shown to the user
    link,       \* the open verified connections
    net,        \* messages in flight
    sub,        \* sub[n]: packets whose zone n is subscribed to
    used,       \* how much of Resends, Resubs and Downs is used
    heard,      \* history: how often n's listeners were called with p
    relayed     \* history: how often n flooded p

vars == <<now, cleaned, stamp, author, tries, flooded, delivered, link, net, sub,
          used, heard, relayed>>

NoStamp == -1

Again(k) == IF k = Count THEN k ELSE k + 1

Neighbours(n) == {m \in Node : {n, m} \in link}

-----------------------------------------------------------------------------
(* SeenCache: a sequence of [id, at], in insertion order *)

Has(c, p) == \E i \in DOMAIN c : c[i].id = p

\* Inserting beyond MaxSize drops the oldest.
Add(c, p) ==
    IF Has(c, p) THEN c
    ELSE LET d == Append(c, [id |-> p, at |-> now])
         IN  IF Len(d) > MaxSize THEN Tail(d) ELSE d

Expired(e) == now - e.at > TTL

\* The loop stops at the first entry that is not expired.
Cleanup(c) ==
    LET k == CHOOSE i \in 0..Len(c) :
               /\ \A j \in 1..i : Expired(c[j])
               /\ i < Len(c) => ~Expired(c[i + 1])
    IN  SubSeq(c, k + 1, Len(c))

-----------------------------------------------------------------------------
(* ZoneGossipRouter *)

\* The bytes a packet commits to, as a copy has them.  hop_count is not among them:
\* relays change it.
PowPreimage(m) == [timestamp |-> m.at, payload |-> m.pkt]

\* The bytes the author of p committed to and searched the proof of work for.
Original(p) == [timestamp |-> stamp[p], payload |-> p]

\* The hash of the bytes: the id of the one packet that has them, or of none.
DerivePacketId(bytes) == {p \in Packet : Original(p) = bytes}

\* Work is done for the bytes an author wrote and for no others.
VerifyPow(bytes) == \E p \in Packet : Original(p) = bytes

\* Neither too far in the future nor too old.
InWindow(t) == t - now <= Drift /\ now - t <= Drift

\* Mutant: old packets pass.
ValidFutureOnly(m) ==
    /\ m.at - now <= Drift
    /\ DerivePacketId(PowPreimage(m)) = {m.pkt} /\ VerifyPow(PowPreimage(m))

\* PacketValidator.check(): the time window, then the id, then the proof of work.
Valid(m) ==
    /\ InWindow(m.at)
    /\ DerivePacketId(PowPreimage(m)) = {m.pkt}
    /\ VerifyPow(PowPreimage(m))

\* flood(): the cache afterwards and what is sent.
Flood(n, m) ==
    IF Has(flooded[n], m.pkt)
    THEN [cache |-> flooded[n], out |-> {}]
    ELSE [cache |-> Add(flooded[n], m.pkt),
          out |-> {[kind |-> "gossip", from |-> n, to |-> o, pkt |-> m.pkt, at |-> m.at] :
                     o \in Neighbours(n) \ {m.from}}]

\* Mutant: one cache decides on relaying and on showing.
ShowsUnrelayed(n, p) ==
    ~Has(delivered[n], p) /\ ~Has(flooded[n], p) /\ p \in sub[n]

\* deliverLocal(): is p shown to the user of n?
Shows(n, p) == ~Has(delivered[n], p) /\ p \in sub[n]

Show(n, p) ==
    /\ delivered' = [delivered EXCEPT ![n] = Add(@, p)]
    /\ heard' = [heard EXCEPT ![n][p] = Again(@)]

\* broadcast(): the author sees the packet at once, then hands it to the circuit.
Broadcast(n, p) ==
    /\ stamp[p] = NoStamp
    /\ n \in Writer /\ now <= LastWrite
    /\ \E skew \in -Behind..Ahead :
         /\ now + skew >= 0
         /\ stamp' = [stamp EXCEPT ![p] = now + skew]
    /\ author' = [author EXCEPT ![p] = {n}]
    /\ Show(n, p)
    /\ UNCHANGED <<now, cleaned, tries, flooded, link, net, sub, used,
                   relayed>>

\* A cell for p leaves towards the exit e.  It is lost if it is never handled.
CircuitEmits(p, e) ==
    /\ stamp[p] # NoStamp /\ e \notin author[p]
    /\ tries[p] < Attempts
    /\ tries' = [tries EXCEPT ![p] = @ + 1]
    /\ net' = net \cup {[kind |-> "exit", from |-> e, to |-> e, pkt |-> p, at |-> stamp[p]]}
    /\ UNCHANGED <<now, cleaned, stamp, author, flooded, delivered, link, sub,
                   used, heard, relayed>>

\* Validate, deliver locally, flood on to all but the peer it came from.
Handle(m) ==
    LET n == m.to
        p == m.pkt
        fl == Flood(n, m)
    IN  /\ m \in net
        /\ IF Valid(m)
           THEN /\ IF Shows(n, p) THEN Show(n, p) ELSE UNCHANGED <<delivered, heard>>
                /\ flooded' = [flooded EXCEPT ![n] = fl.cache]
                /\ net' = (net \ {m}) \cup fl.out
                /\ relayed' = IF Has(flooded[n], p) THEN relayed
                              ELSE [relayed EXCEPT ![n][p] = Again(@)]
           ELSE /\ net' = net \ {m}
                /\ UNCHANGED <<delivered, heard, flooded, relayed>>
        /\ UNCHANGED <<now, cleaned, stamp, author, tries, link, sub, used>>

\* A copy from a neighbour.
HandleGossip(m) == m.kind = "gossip" /\ Handle(m)

\* The packet inside a cell that this node is the exit of: it came from nobody.
HandleExitFluff(m) == m.kind = "exit" /\ Handle(m)

-----------------------------------------------------------------------------
(* The environment *)

\* A neighbour sends a packet that n has relayed before once more, as it was or with
\* the time it is now.
Resend(s, n, p) ==
    /\ used.resends < Resends
    /\ s \in Neighbours(n) /\ relayed[n][p] > 0
    /\ used' = [used EXCEPT !.resends = @ + 1]
    /\ \E at \in {stamp[p], now} :
         net' = net \cup {[kind |-> "gossip", from |-> s, to |-> n, pkt |-> p, at |-> at]}
    /\ UNCHANGED <<now, cleaned, stamp, author, tries, flooded, delivered, link, sub,
                   heard, relayed>>

\* A connection closes; what was under way on it is lost.
LinkDown(l) ==
    /\ used.downs < Downs /\ l \in link
    /\ used' = [used EXCEPT !.downs = @ + 1]
    /\ link' = link \ {l}
    /\ net' = {m \in net : {m.from, m.to} # l}
    /\ UNCHANGED <<now, cleaned, stamp, author, tries, flooded, delivered, sub,
                   heard, relayed>>

LinkUp(l) ==
    /\ l \in Link0 \ link
    /\ link' = link \cup {l}
    /\ UNCHANGED <<now, cleaned, stamp, author, tries, flooded, delivered, net, sub,
                   used, heard, relayed>>

\* The user opens or leaves the zone of p.
Resubscribe(n, p) ==
    /\ used.resubs < Resubs
    /\ used' = [used EXCEPT !.resubs = @ + 1]
    /\ sub' = [sub EXCEPT ![n] = IF p \in @ THEN @ \ {p} ELSE @ \cup {p}]
    /\ UNCHANGED <<now, cleaned, stamp, author, tries, flooded, delivered, link, net,
                   heard, relayed>>

\* The cleanup interval of n: once in every period, at any moment of it.
CleanupTimer(n) ==
    /\ n \notin cleaned
    /\ cleaned' = cleaned \cup {n}
    /\ flooded' = [flooded EXCEPT ![n] = Cleanup(@)]
    /\ delivered' = [delivered EXCEPT ![n] = Cleanup(@)]
    /\ UNCHANGED <<now, stamp, author, tries, link, net, sub, used, heard,
                   relayed>>

Tick ==
    /\ cleaned = Node
    /\ now < Horizon
    /\ now' = now + 1
    /\ cleaned' = {}
    /\ UNCHANGED <<stamp, author, tries, flooded, delivered, link, net, sub, used,
                   heard, relayed>>

-----------------------------------------------------------------------------
Init ==
    /\ now = 0 /\ cleaned = {}
    /\ stamp = [p \in Packet |-> NoStamp]
    /\ author = [p \in Packet |-> {}]
    /\ tries = [p \in Packet |-> 0]
    /\ flooded = [n \in Node |-> <<>>] /\ delivered = [n \in Node |-> <<>>]
    /\ link = Link0 /\ net = {}
    /\ sub \in Sub0
    /\ used = [resends |-> 0, resubs |-> 0, downs |-> 0]
    /\ heard = [n \in Node |-> [p \in Packet |-> 0]]
    /\ relayed = [n \in Node |-> [p \in Packet |-> 0]]

Next ==
    \/ \E n \in Node, p \in Packet :
         \/ Broadcast(n, p)
         \/ CircuitEmits(p, n)
         \/ \E s \in Node : Resend(s, n, p)
         \/ Resubscribe(n, p)
    \/ \E m \in net : HandleGossip(m) \/ HandleExitFluff(m)
    \/ \E l \in Link0 : LinkDown(l) \/ LinkUp(l)
    \/ \E n \in Node : CleanupTimer(n)
    \/ Tick

\* Channels deliver and timers fire.  Cells may all be lost and users need not
\* write, so nothing is assumed of them.
Fairness ==
    /\ WF_vars(\E m \in net : HandleGossip(m))
    /\ \A n \in Node : WF_vars(CleanupTimer(n))
    /\ WF_vars(Tick)

Spec     == Init /\ [][Next]_vars
LiveSpec == Spec /\ Fairness

-----------------------------------------------------------------------------
(* Properties *)

\* A packet whose author's clock does not run ahead is relayed and shown at most
\* once by each node, although neighbours, retries of the circuit and late
\* copies bring it again after its cache entry has expired: by then the time
\* window refuses it, and with a new date its id and its proof of work are wrong
\* (flood, deliverLocal, PacketValidator.check).
OnlyOnce ==
    \A n \in Node, p \in Packet : heard[n][p] <= 1 /\ relayed[n][p] <= 1

\* A flood that comes to rest within its time window has reached everybody, the
\* nodes that do not read the zone too, if no link failed (handleGossip, flood).
ReachAll ==
    \A p \in Packet :
      /\ InWindow(stamp[p]) /\ used.downs = 0
      /\ \A m \in net : m.kind = "exit" \/ m.pkt # p
      /\ \E n \in Node : relayed[n][p] > 0
      => \A n \in Node : relayed[n][p] > 0

\* The flood dies out: even when the caches are too small for the packets that
\* circulate and nodes relay them again and again, the time window ends it (the
\* comment of flood names both as what makes it stop).
Quiet == <>[](\A m \in net : m.kind = "exit")

\* A valid copy that arrives while the node is subscribed has been shown once it
\* is handled, even when the node relayed an earlier copy before it subscribed:
\* relaying and showing keep separate caches (flooded, delivered).
Shown ==
    [][\A m \in net :
         /\ m.kind = "gossip" /\ m \notin net' /\ link' = link
         /\ Valid(m) /\ m.pkt \in sub[m.to]
         => heard'[m.to][m.pkt] > 0]_vars
=============================================================================
