------------------------------ MODULE CachePeers ------------------------------
(***************************************************************************)
(* The connections of the cache node (aether-cache): one actor per         *)
(* connection (webrtc_peer.rs), the PeerManager that owns the table of     *)
(* them (peer_manager.rs) and the GossipActor that shakes hands            *)
(* (gossip/router.rs), talking through unbounded queues.                   *)
(*                                                                         *)
(* Connections to one peer are told apart by their session, which only     *)
(* some messages carry.  What main.rs forwards from the tracker is handled *)
(* when it is taken out of the queue of controls.  The challenge kept in   *)
(* PeerMetadata is never read and left out; HELLO and other messages of a  *)
(* peer are in CacheRelay.                                                 *)
(***************************************************************************)
EXTENDS Integers, Sequences, SequencesExt

CONSTANTS
    Remote,     \* peers
    Sessions    \* bound: connections

ASSUME CachePeersAssumption == Sessions \in Nat \ {0}

VARIABLES
    table,      \* table[p]: session of the connection with p, 0 without one
    marked,     \* sessions whose PeerMetadata is verified
    actor,      \* actor[s]: the connection
    inbox,      \* inbox[s]: commands for it
    waiting,    \* waiting[s]: pending_sends
    replies,    \* replies[s]: challenges the peer has yet to answer on it
    events,     \* event_tx
    control,    \* pm_ctrl_tx
    orders,     \* pm_cmd_tx
    challenge,  \* challenge[p]: the last one sent, 0 for none
    verified,   \* the GossipActor's
    joined,     \* history: sessions whose own JOIN was accepted
    spent        \* sessions and challenges spent so far

cache_peers == <<table, marked, actor, inbox, waiting, replies, events, control, orders,
                 challenge, verified, joined, spent>>

Session == 1..Sessions
NoActor == [peer |-> CHOOSE p \in Remote : TRUE, is |-> "none", initiator |-> FALSE]
Lives(s) == actor[s].is \in {"deaf", "starting", "open"}

-----------------------------------------------------------------------------
(* PeerManager *)

\* WebRTCPeer::spawn under the next session.
Spawn(p, is, initiator) ==
    LET s == spent.session + 1
    IN  /\ s \in Session
        /\ spent' = [spent EXCEPT !.session = s]
        /\ actor' = [actor EXCEPT ![s] = [peer |-> p, is |-> is, initiator |-> initiator]]
        /\ table' = [table EXCEPT ![p] = s]

InitiateConnection(p) ==
    /\ table[p] = 0 /\ Spawn(p, "starting", TRUE)
    /\ UNCHANGED <<marked, inbox, waiting, replies, events, control, orders, challenge,
                   verified, joined>>

\* An offer replaces the connection there is; the GossipActor is told.
HandleOffer(p) ==
    /\ Spawn(p, "starting", FALSE)
    /\ IF table[p] # 0
       THEN /\ inbox' = [inbox EXCEPT ![table[p]] = Append(@, [do |-> "close", c |-> 0])]
            /\ events' = Append(events, [is |-> "reset", peer |-> p])
       ELSE UNCHANGED <<inbox, events>>
    /\ UNCHANGED <<marked, waiting, replies, control, orders, challenge, verified, joined>>

\* A candidate that comes before its offer makes a connection that cannot open.
HandleCandidate(p) ==
    /\ table[p] = 0 /\ Spawn(p, "deaf", FALSE)
    /\ UNCHANGED <<marked, inbox, waiting, replies, events, control, orders, challenge,
                   verified, joined>>

\* SendMessage reaches the connection of the moment.
TakeOrder ==
    LET o == Head(orders)
        s == table[o.peer]
    IN  /\ orders # <<>> /\ orders' = Tail(orders)
        /\ inbox' = IF s = 0 THEN inbox
                    ELSE [inbox EXCEPT ![s] = Append(@, [do |-> "hello", c |-> o.c])]
        /\ UNCHANGED <<table, marked, actor, waiting, replies, events, control, challenge,
                       verified, joined, spent>>

DropPeer(p) ==
    /\ table' = [table EXCEPT ![p] = 0]
    /\ inbox' = IF table[p] = 0 THEN inbox
                ELSE [inbox EXCEPT ![table[p]] = Append(@, [do |-> "close", c |-> 0])]
    /\ marked' = marked

MarkVerified(p) ==
    /\ marked' = marked \cup ({table[p]} \ {0})
    /\ UNCHANGED <<table, inbox>>

\* Mutant: a disconnection removes the connection whatever its session.
DisconnectedAnySession(p, s) ==
    /\ table' = [table EXCEPT ![p] = 0]
    /\ UNCHANGED <<inbox, marked>>

\* A disconnection removes the connection it is about only.
Disconnected(p, s) ==
    /\ table' = IF table[p] = s THEN [table EXCEPT ![p] = 0] ELSE table
    /\ UNCHANGED <<inbox, marked>>

TakeControl ==
    LET k == Head(control)
    IN  /\ control # <<>> /\ control' = Tail(control)
        /\ \/ k.is = "drop" /\ DropPeer(k.peer)
           \/ k.is = "mark" /\ MarkVerified(k.peer)
           \/ k.is = "gone" /\ Disconnected(k.peer, k.session)
        /\ UNCHANGED <<actor, waiting, replies, events, orders, challenge, verified, joined,
                       spent>>

-----------------------------------------------------------------------------
(* The actor of a connection *)

\* The channel opens: announced once, and what waited is sent.
ChannelOpens(s) ==
    /\ actor[s].is = "starting"
    /\ actor' = [actor EXCEPT ![s].is = "open"]
    /\ events' = Append(events, [is |-> "connected", peer |-> actor[s].peer])
    /\ replies' = [replies EXCEPT ![s] = @ \o waiting[s]]
    /\ waiting' = [waiting EXCEPT ![s] = <<>>]
    /\ UNCHANGED <<table, marked, inbox, control, orders, challenge, verified, joined, spent>>

\* The connection is lost: announced, and the actor ends.
Lost(s) ==
    /\ Lives(s)
    /\ actor' = [actor EXCEPT ![s].is = "ended"]
    /\ events' = Append(events, [is |-> "disconnected", peer |-> actor[s].peer, session |-> s])
    /\ UNCHANGED <<table, marked, inbox, waiting, replies, control, orders, challenge,
                   verified, joined, spent>>

\* A command: close, or a message, which waits for the channel of an answerer and fails on
\* the channel of an initiator that is not open yet.
Obeys(s) ==
    LET m == Head(inbox[s])
    IN  /\ Lives(s) /\ inbox[s] # <<>>
        /\ inbox' = [inbox EXCEPT ![s] = Tail(@)]
        /\ IF m.do = "close"
           THEN actor' = [actor EXCEPT ![s].is = "ended"] /\ UNCHANGED <<waiting, replies>>
           ELSE /\ actor' = actor
                /\ IF actor[s].is = "open"
                   THEN replies' = [replies EXCEPT ![s] = Append(@, m.c)] /\ waiting' = waiting
                   ELSE /\ waiting' = IF actor[s].initiator THEN waiting
                                      ELSE [waiting EXCEPT ![s] = Append(@, m.c)]
                        /\ replies' = replies
        /\ UNCHANGED <<table, marked, events, control, orders, challenge, verified, joined,
                       spent>>

\* The peer answers a challenge, with a claim that holds or does not.
Answers(s, good) ==
    /\ actor[s].is = "open" /\ replies[s] # <<>>
    /\ replies' = [replies EXCEPT ![s] = Tail(@)]
    /\ events' = Append(events, [is |-> "join", peer |-> actor[s].peer, session |-> s,
                                 c |-> Head(replies[s]), good |-> good])
    /\ UNCHANGED <<table, marked, actor, inbox, waiting, control, orders, challenge, verified,
                   joined, spent>>

-----------------------------------------------------------------------------
(* GossipActor *)

\* forget_peer()
Forget(p) == /\ challenge' = [challenge EXCEPT ![p] = 0]
             /\ verified' = verified \ {p}

\* begin_handshake()
BeginHandshake(p) ==
    LET c == spent.challenge + 1
    IN  /\ spent' = [spent EXCEPT !.challenge = c]
        /\ challenge' = [challenge EXCEPT ![p] = c]
        /\ orders' = Append(orders, [peer |-> p, c |-> c])
        /\ UNCHANGED <<control, verified, joined>>

GossipDisconnected(p, s) ==
    /\ Forget(p)
    /\ control' = Append(control, [is |-> "gone", peer |-> p, session |-> s])
    /\ UNCHANGED <<orders, joined, spent>>

\* handle_join(): once per handshake, after a challenge, and for that challenge.
HandleJoin(p, e) ==
    /\ UNCHANGED <<orders, spent>>
    /\ IF p \in verified \/ challenge[p] = 0
       THEN UNCHANGED <<challenge, verified, control, joined>>
       ELSE IF e.good /\ e.c = challenge[p]
       THEN /\ verified' = verified \cup {p} /\ joined' = joined \cup {e.session}
            /\ control' = Append(control, [is |-> "mark", peer |-> p])
            /\ challenge' = challenge
       ELSE /\ Forget(p) /\ joined' = joined
            /\ control' = Append(control, [is |-> "drop", peer |-> p])

TakeEvent ==
    LET e == Head(events)
    IN  /\ events # <<>> /\ events' = Tail(events)
        /\ \/ e.is = "connected" /\ BeginHandshake(e.peer)
           \/ e.is = "disconnected" /\ GossipDisconnected(e.peer, e.session)
           \/ e.is = "reset" /\ Forget(e.peer) /\ UNCHANGED <<control, orders, joined, spent>>
           \/ e.is = "join" /\ HandleJoin(e.peer, e)
        /\ UNCHANGED <<table, marked, actor, inbox, waiting, replies>>

-----------------------------------------------------------------------------
CachePeersInit ==
    /\ table = [p \in Remote |-> 0] /\ marked = {}
    /\ actor = [s \in Session |-> NoActor]
    /\ inbox = [s \in Session |-> <<>>] /\ waiting = inbox /\ replies = inbox
    /\ events = <<>> /\ control = <<>> /\ orders = <<>>
    /\ challenge = [p \in Remote |-> 0] /\ verified = {} /\ joined = {}
    /\ spent = [session |-> 0, challenge |-> 0]

CachePeersNext ==
    \/ \E p \in Remote : InitiateConnection(p) \/ HandleOffer(p) \/ HandleCandidate(p)
    \/ \E s \in Session : \/ ChannelOpens(s) \/ Lost(s) \/ Obeys(s)
                          \/ \E good \in BOOLEAN : Answers(s, good)
    \/ TakeOrder \/ TakeControl \/ TakeEvent

CachePeersSpec == CachePeersInit /\ [][CachePeersNext]_cache_peers

-----------------------------------------------------------------------------
(* Properties *)

\* Whatever order the queues are read in while a peer comes back under the same identity:
\* a connection that lives is in the table or was told to close, and one in the table that
\* has ended is about to be removed (the session of PeerDisconnected).
TableTrue ==
    \A s \in Session :
      /\ Lives(s) => \/ table[actor[s].peer] = s
                     \/ \E m \in ToSet(inbox[s]) : m.do = "close"
      /\ actor[s].is = "ended" /\ table[actor[s].peer] = s =>
           \E m \in ToSet(events \o control) :
             m.is \in {"disconnected", "gone"} /\ m.peer = actor[s].peer /\ m.session = s

\* What the handling of PeerReset is for: a connection that never went through a handshake
\* is not taken for verified.
MarkedHandshook == \A p \in Remote : table[p] \in marked => table[p] \in joined
=============================================================================
