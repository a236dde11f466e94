------------------------------ MODULE PeerTable ------------------------------
(***************************************************************************)
(* The connection table of one node: packages/core/src/network/            *)
(* PeerManager.ts with the per-connection flags of WebRTCPeer.ts, the      *)
(* topology callback of RingMaintainer.ts and the bans of                  *)
(* PeerMisbehaviorManager.ts.                                              *)
(*                                                                         *)
(* JavaScript runs a callback to its end, so one action is one callback.   *)
(* What interleaves are the callbacks themselves: relayed signals, channel *)
(* events, JOIN frames, timers of connections that were replaced long ago, *)
(* and the getStats() promise that stands between a successful JOIN and    *)
(* the rebalancing it causes.                                              *)
(*                                                                         *)
(* rebalance() is a loop whose disconnect() re-enters it through the       *)
(* "peer:disconnect" listener of RingMaintainer.  While it runs no other   *)
(* callback can: rebalancing disables every other action.                  *)
(***************************************************************************)
EXTENDS Integers, Sequences, FiniteSets

CONSTANTS
    Peer,        \* the remote peer ids
    MaxPending,  \* MAX_PENDING_PEERS
    MaxDegree,   \* RING_MESH.MAX_DEGREE
    LocalLinks,  \* RING_MESH.LOCAL_LINKS
    OutTarget,   \* RING_MESH.OUTBOUND_TARGET
    MaxSignals,  \* MAX_SIGNALS_PER_SENDER
    MaxSenders,  \* MAX_SIGNAL_SENDERS
    Dist,        \* Dist[p]: ring distance from this node to p
    Group,       \* origins netGroupOf() can report, "unknown" among them
    Far,         \* who may sit at the far end of a connection (see FarEnd)
    MaxInst      \* bound: WebRTCPeer objects ever created for one peer id

(***************************************************************************)
(* "self": the node that owns the peer id; "other": a node that only uses  *)
(* the name; "none": nobody answers, the channel never opens.              *)
(***************************************************************************)
FarEnd == {"self", "other", "none"}

ASSUME PeerAssumption == IsFiniteSet(Peer)
ASSUME BoundAssumption ==
    /\ MaxPending \in Nat /\ MaxSignals \in Nat /\ MaxSenders \in Nat \ {0}
    /\ MaxDegree \in Nat /\ LocalLinks \in Nat /\ OutTarget \in Nat
    /\ MaxInst \in Nat
    /\ LocalLinks <= MaxDegree
ASSUME DistAssumption ==
    /\ Dist \in [Peer -> Nat]
    /\ \A p, q \in Peer : Dist[p] = Dist[q] => p = q
ASSUME GroupAssumption == "unknown" \in Group
ASSUME FarAssumption == Far \subseteq FarEnd

VARIABLES
    conn,        \* _peers: the entry of each id, NoEntry if there is none
    born,        \* how many WebRTCPeer objects each id has had so far
    closing,     \* <<p, i>>: the channel of object i is dead, onclose not yet run
    signed,      \* challenges the owner of an id has signed (see Sign)
    resolving,   \* <<p, i>>: JOIN done, resolveNetGroup() still pending
    seenGroups,  \* this.seenGroups
    coolDown,    \* ids evicted less than 30 s ago
    banned,      \* ids whose ban has not expired
    senders,     \* keys of pendingSignals, oldest first
    sigCount,    \* how many signals are buffered for each id
    rebalancing, \* rebalance() is on the stack
    newcomer,    \* its newcomerId: a singleton, or {} for undefined
    stopped      \* this.stopped

vars == <<conn, born, closing, signed, resolving, seenGroups, coolDown,
          banned, senders, sigCount, rebalancing, newcomer, stopped>>

signals   == <<senders, sigCount>>
rebalance == <<rebalancing, newcomer>>

(***************************************************************************)
(* A WebRTCPeer.  inst tells objects for the same id apart (the identity   *)
(* isStillCurrent() compares).  The flags _connected/_connecting are both  *)
(* false only inside close callbacks that also remove the entry, so st has *)
(* the two values below.  The challenge of an object is set in the same    *)
(* callback that opens it, so inst also names the challenge.               *)
(***************************************************************************)
Entry == [inst  : 1..MaxInst,
          st    : {"connecting", "open"},
          dir   : {"outbound", "inbound"},
          far   : FarEnd,
          ver   : BOOLEAN,
          at    : Nat,
          group : Group]

NoEntry == [inst |-> 0]

\* The entry e with the fields that change during its life.
Amend(e, st, ver, at, group) ==
    [inst |-> e.inst, st |-> st, dir |-> e.dir, far |-> e.far,
     ver |-> ver, at |-> at, group |-> group]

Present    == {p \in Peer : conn[p].inst # 0}
Pending    == {p \in Present : ~conn[p].ver}
Open       == {p \in Present : conn[p].st = "open"}
Verified   == {p \in Open : conn[p].ver}
Outbound   == {p \in Present : conn[p].dir = "outbound"}

Idle == ~rebalancing

-----------------------------------------------------------------------------
(* Choosing whom to drop *)

\* The LocalLinks members of V nearest on the ring.
LocalOf(V) == {p \in V : Cardinality({q \in V : Dist[q] < Dist[p]}) < LocalLinks}

GroupSize(V, p) == Cardinality({q \in V : conn[q].group = conn[p].group})

\* The sort of pickEvictionVictim.  overflow() subtracts the same cap from
\* every group's size, so the comparison is one of sizes.
DropsBefore(V, p, q) ==
    \/ GroupSize(V, p) > GroupSize(V, q)
    \/ /\ GroupSize(V, p) = GroupSize(V, q)
       /\ \/ conn[p].at > conn[q].at
          \/ conn[p].at = conn[q].at /\ Dist[p] > Dist[q]

\* Mutant: gives up when no inbound peer can go.
VictimPoolInboundOnly(V, nc) ==
    {p \in V \ LocalOf(V) : conn[p].dir = "inbound"}

\* Mutant: forgets that local links stay.
VictimPoolTakesLocal(V, nc) ==
    LET inb == {p \in V : conn[p].dir = "inbound"}
    IN  IF inb # {} THEN inb ELSE V \ nc

\* The peers pickEvictionVictim may take: an inbound one that is not local if
\* there is any, else the newcomer unless it is local, else any other that is
\* not local.
VictimPool(V, nc) ==
    LET far == V \ LocalOf(V)
        inb == {p \in far : conn[p].dir = "inbound"}
    IN  IF inb # {} THEN inb
        ELSE IF nc \cap far # {} THEN nc \cap far
        ELSE far \ nc

Victims(V, nc) ==
    LET pool == VictimPool(V, nc)
    IN  {p \in pool : \A q \in pool \ {p} : DropsBefore(V, p, q)}

-----------------------------------------------------------------------------
(* What several callbacks share *)

\* pendingSignals.delete(p)
ForgetSignals(p) ==
    /\ senders' = IF \E i \in DOMAIN senders : senders[i] = p
                  THEN LET i == CHOOSE j \in DOMAIN senders : senders[j] = p
                       IN  SubSeq(senders, 1, i - 1)
                             \o SubSeq(senders, i + 1, Len(senders))
                  ELSE senders
    /\ sigCount' = [sigCount EXCEPT ![p] = 0]

\* "peer:connect" and "peer:disconnect" reach RingMaintainer.evaluateTopology,
\* which calls rebalance() without a newcomer.
EvaluateTopology == rebalancing' = TRUE /\ newcomer' = {}

\* p leaves the table.
Remove(p) ==
    /\ conn' = [conn EXCEPT ![p] = NoEntry]
    /\ ForgetSignals(p)
    /\ EvaluateTopology

\* disconnect(p): close() makes the channel's onclose fire later.
Disconnect(p) ==
    /\ Remove(p)
    /\ closing' = closing \cup {<<p, conn[p].inst>>}

\* Mutant: no limit on pending handshakes.
MayConnectNoCap(p, C, cd) ==
    ~stopped /\ p \notin banned /\ p \notin cd /\ born[p] < MaxInst

\* Mutant: bans are not looked up.
MayConnectNoBan(p, C, cd) ==
    /\ ~stopped /\ p \notin cd /\ born[p] < MaxInst
    /\ Cardinality({q \in Peer : C[q].inst # 0 /\ ~C[q].ver}) < MaxPending

\* The conditions under which connect(p) creates a WebRTCPeer, given the table
\* C and the cool-downs cd at the call.
MayConnect(p, C, cd) ==
    /\ ~stopped
    /\ p \notin banned
    /\ p \notin cd
    /\ Cardinality({q \in Peer : C[q].inst # 0 /\ ~C[q].ver}) < MaxPending
    /\ born[p] < MaxInst

NewPeer(p, d, f) == [inst |-> born[p] + 1, st |-> "connecting", dir |-> d,
                     far |-> f, ver |-> FALSE, at |-> 0, group |-> "unknown"]

Connect(p, d, f) ==
    /\ MayConnect(p, conn, coolDown)
    /\ conn' = [conn EXCEPT ![p] = NewPeer(p, d, f)]
    /\ born' = [born EXCEPT ![p] = @ + 1]

-----------------------------------------------------------------------------
(* Connections this node asks for *)

\* One id of a tracker's list.
HandleTrackerPeers(p) ==
    /\ Idle /\ ~stopped
    /\ p \notin Present
    /\ Cardinality(Open) < MaxDegree
    /\ \E f \in Far : Connect(p, "outbound", f)
    /\ UNCHANGED <<closing, signed, resolving, seenGroups, coolDown, banned,
                   signals, rebalance, stopped>>

\* One id of a PEX_RESPONSE from the verified neighbour s.
HandlePexResponse(s, p) ==
    /\ Idle
    /\ s \in Verified
    /\ p \notin Present
    /\ \/ Cardinality(Open) < MaxDegree
       \/ Cardinality(Outbound) < OutTarget
    /\ \E f \in Far : Connect(p, "outbound", f)
    /\ UNCHANGED <<closing, signed, resolving, seenGroups, coolDown, banned,
                   signals, rebalance, stopped>>

-----------------------------------------------------------------------------
(* handleRelay: signals that name p as their sender *)

\* What handleRelay asks of every signal, from the tracker or passed on by a
\* neighbour.
Heard(p) == Idle /\ ~stopped /\ p \notin banned

\* Mutant: leaves the buffered candidates behind.
RelayNewSessionKeeps(p, f) ==
    /\ Idle
    /\ p \notin Present
    /\ Connect(p, "inbound", f)
    /\ UNCHANGED <<closing, signed, resolving, seenGroups, coolDown, banned,
                   signals, rebalance, stopped>>

\* An SDP for an id with no entry opens a session.  An answer counts as one
\* too (its type is "sdp-relay"), but nobody answers that session.
RelayNewSession(p, f) ==
    /\ Heard(p)
    /\ p \notin Present
    /\ Connect(p, "inbound", f)
    /\ ForgetSignals(p)
    /\ UNCHANGED <<closing, signed, resolving, seenGroups, coolDown, banned,
                   rebalance, stopped>>

RelayOffer(p)  == \E f \in Far : RelayNewSession(p, f)
RelayAnswer(p) == RelayNewSession(p, "none")

\* May an offer that names p replace p's entry?  Not while it is verified and
\* live.
Replaceable(p) == p \in Present /\ ~(conn[p].ver /\ conn[p].st = "open")

\* An offer for an id that has an entry: the old connection is closed and a new
\* one made, unless the table refuses it.
RelayReoffer(p) ==
    /\ Heard(p)
    /\ Replaceable(p)
    /\ coolDown' = coolDown \ {p}
    /\ ForgetSignals(p)
    /\ EvaluateTopology
    /\ closing' = closing \cup {<<p, conn[p].inst>>}
    /\ LET closed == [conn EXCEPT ![p] = NoEntry]
       IN  IF MayConnect(p, closed, coolDown')
           THEN /\ \E f \in Far :
                     conn' = [conn EXCEPT ![p] = NewPeer(p, "inbound", f)]
                /\ born' = [born EXCEPT ![p] = @ + 1]
           ELSE conn' = closed /\ born' = born
    /\ UNCHANGED <<signed, resolving, seenGroups, banned, stopped>>

\* An ICE candidate that arrives before any session is kept for the offer.
\* The oldest sender makes room for a new one.
RelayCandidate(p) ==
    /\ Heard(p)
    /\ p \notin Present /\ p \notin coolDown
    /\ sigCount[p] < MaxSignals
    /\ IF sigCount[p] > 0
       THEN /\ senders' = senders
            /\ sigCount' = [sigCount EXCEPT ![p] = @ + 1]
       ELSE IF Len(senders) >= MaxSenders
       THEN /\ senders' = Append(Tail(senders), p)
            /\ sigCount' = [q \in Peer |-> IF q = p THEN 1
                                        ELSE IF q = Head(senders) THEN 0
                                        ELSE sigCount[q]]
       ELSE /\ senders' = Append(senders, p)
            /\ sigCount' = [sigCount EXCEPT ![p] = 1]
    /\ UNCHANGED <<closing, conn, born, signed, resolving, seenGroups, coolDown,
                   banned, rebalance, stopped>>

-----------------------------------------------------------------------------
(* Callbacks of the WebRTCPeer object i of p *)

\* Mutant: looks the id up and not the object.
IsStillCurrentById(p, i) == conn[p].inst # 0

\* The entry of p is still the object i.
IsStillCurrent(p, i) == conn[p].inst = i

\* createOffer and signal: offer, answer and candidates have been exchanged, those
\* that came before the description they belong to included.  It takes two.
Negotiated(p) == conn[p].st = "connecting" /\ conn[p].far # "none"

\* onopen: HELLO with a fresh challenge goes out.
OnConnect(p) ==
    /\ Idle
    /\ p \in Present /\ Negotiated(p)
    /\ conn' = [conn EXCEPT
         ![p] = Amend(@, "open", conn[p].ver, conn[p].at, conn[p].group)]
    /\ EvaluateTopology
    /\ UNCHANGED <<closing, born, signed, resolving, seenGroups, coolDown, banned,
                   signals, stopped>>

\* The far end closes the channel, or the network loses it.
ChannelDies(p) ==
    /\ Idle
    /\ p \in Present
    /\ closing' = closing \cup {<<p, conn[p].inst>>}
    /\ UNCHANGED <<conn, born, signed, resolving, seenGroups, coolDown,
                   banned, signals, rebalance, stopped>>

\* onclose, or ICE "disconnected"/"failed", possibly long after i was replaced.
OnDisconnect(p, i) ==
    /\ Idle
    /\ <<p, i>> \in closing
    /\ closing' = closing \ {<<p, i>>}
    /\ IF IsStillCurrent(p, i) THEN Remove(p)
                               ELSE UNCHANGED <<conn, signals, rebalance>>
    /\ UNCHANGED <<born, signed, resolving, seenGroups, coolDown, banned,
                   stopped>>

\* The 15 s and 30 s timers set when i was created.
ConnectTimeout(p, i) ==
    /\ Idle
    /\ i <= born[p]
    /\ IF IsStillCurrent(p, i) /\ conn[p].st # "open"
       THEN Disconnect(p)
       ELSE UNCHANGED <<conn, closing, signals, rebalance>>
    /\ UNCHANGED <<born, signed, resolving, seenGroups, coolDown, banned,
                   stopped>>

\* Mutant: the second timer repeats the test of the first.
HandshakeTimeoutOpenOnly(p, i) ==
    /\ Idle
    /\ i <= born[p]
    /\ IF IsStillCurrent(p, i) /\ conn[p].st # "open"
       THEN Disconnect(p)
       ELSE UNCHANGED <<conn, closing, signals, rebalance>>
    /\ UNCHANGED <<born, signed, resolving, seenGroups, coolDown, banned,
                   stopped>>

HandshakeTimeout(p, i) ==
    /\ Idle
    /\ i <= born[p]
    /\ IF IsStillCurrent(p, i) /\ ~conn[p].ver
       THEN Disconnect(p)
       ELSE UNCHANGED <<conn, closing, signals, rebalance>>
    /\ UNCHANGED <<born, signed, resolving, seenGroups, coolDown, banned,
                   stopped>>

-----------------------------------------------------------------------------
(* The handshake *)

\* A JOIN: the id it claims and whose key signed it, over the challenge of
\* connection chal of that id and the fingerprints of the DTLS link the HELLO came
\* over.  link = "own" when that link is connection chal itself, "other" when
\* somebody passed the challenge on.
Signature == [id : Peer, by : Peer, chal : 1..MaxInst, link : {"own", "other"}]

\* dtlsFingerprints: the link on which the owner of p hears this connection's HELLO.
LinkOf(p) == IF conn[p].far = "self" THEN "own" ELSE "other"

\* signClaim by the node q, on the challenge of p's connection.
SignClaim(q, p, l) == [id |-> p, by |-> q, chal |-> conn[p].inst, link |-> l]

\* The owner of id p gets the HELLO of p's connection and signs.
HandleHello(p) ==
    /\ Idle
    /\ p \in Open
    /\ signed' = signed \cup {SignClaim(p, p, LinkOf(p))}
    /\ UNCHANGED <<closing, conn, born, resolving, seenGroups, coolDown, banned,
                   signals, rebalance, stopped>>

\* Mutant: the signature is not bound to the DTLS link.
VerifySignedClaimUnbound(p, s) == s.id = p /\ s.chal = conn[p].inst /\ s.by = s.id

\* verifyClaim: the id is the hash of the key, for which somebody has worked.
VerifyClaim(s) == s.by = s.id

\* verifySignedClaim for a JOIN on p's connection: claimed id, challenge and
\* DTLS binding must all be those of this connection.
VerifySignedClaim(p, s) ==
    /\ s.id = p
    /\ s.chal = conn[p].inst
    /\ s.link = "own"
    /\ VerifyClaim(s)

\* The JOINs that may come over p's connection: all that were ever signed, and what
\* somebody else at the far end signs with a key of its own.
Presented(p) ==
    signed \cup IF p \in Open /\ conn[p].far = "other"
                THEN {SignClaim(q, p, "own") : q \in Peer \ {p}} ELSE {}

\* Date.now() at a successful JOIN: not before any of those that are still
\* connected, which is all that pickEvictionVictim compares.
JoinTimes ==
    {t \in {0} \cup {conn[q].at : q \in Verified} \cup {conn[q].at + 1 : q \in Verified} :
       \A q \in Verified : conn[q].at <= t}

\* handleJoin with a signature made for this connection or for an earlier one.
HandleJoin(p, s) ==
    /\ Idle
    /\ p \in Open /\ ~conn[p].ver
    /\ IF VerifySignedClaim(p, s)
       THEN /\ \E t \in JoinTimes :
                 conn' = [conn EXCEPT ![p] = Amend(@, "open", TRUE, t, conn[p].group)]
            /\ resolving' = resolving \cup {<<p, conn[p].inst>>}
            /\ UNCHANGED <<closing, signals, rebalance>>
       ELSE /\ Disconnect(p)
            /\ UNCHANGED resolving
    /\ UNCHANGED <<born, signed, seenGroups, coolDown, banned, stopped>>

\* noteGroup; a node never sees the 1024 origins at which it stops.
NoteGroup(g) == seenGroups' = seenGroups \cup {g}

\* resolveNetGroup() of object i settles.  The promise outlives the object.
NetGroupResolved(p, i, g) ==
    /\ Idle
    /\ <<p, i>> \in resolving
    /\ resolving' = resolving \ {<<p, i>>}
    /\ NoteGroup(g)
    /\ conn' = IF IsStillCurrent(p, i)
               THEN [conn EXCEPT
                       ![p] = Amend(@, conn[p].st, conn[p].ver, conn[p].at, g)]
               ELSE conn
    /\ rebalancing' = TRUE
    /\ newcomer' = {p}
    /\ UNCHANGED <<closing, born, signed, coolDown, banned, signals, stopped>>

-----------------------------------------------------------------------------
(* rebalance() *)

\* One turn of the loop.  disconnect() re-enters rebalance() without newcomer.
RebalanceStep ==
    /\ rebalancing
    /\ IF \/ Cardinality(Verified) <= MaxDegree
          \/ VictimPool(Verified, newcomer) = {}
       THEN /\ rebalancing' = FALSE /\ newcomer' = {}
            /\ UNCHANGED <<conn, closing, coolDown, signals>>
       ELSE \E v \in Victims(Verified, newcomer) :
              /\ coolDown' = IF v \in newcomer THEN coolDown
                                               ELSE coolDown \cup {v}
              /\ Disconnect(v)
    /\ UNCHANGED <<born, signed, resolving, seenGroups, banned, stopped>>

\* RingMaintainer's interval.
RepairTick ==
    /\ Idle /\ ~stopped
    /\ EvaluateTopology
    /\ UNCHANGED <<closing, conn, born, signed, resolving, seenGroups, coolDown,
                   banned, signals, stopped>>

-----------------------------------------------------------------------------
(* Bans, cool-downs and the end *)

\* handleData with a frame of unknown type: only a verified id is charged, and
\* MALFORMED_WIRE alone reaches the ban threshold.
UnknownFrame(p) ==
    /\ Idle
    /\ p \in Open
    /\ banned' = IF conn[p].ver THEN banned \cup {p} ELSE banned
    /\ Disconnect(p)
    /\ UNCHANGED <<born, signed, resolving, seenGroups, coolDown, stopped>>

BanExpires(p) ==
    /\ Idle
    /\ p \in banned
    /\ banned' = banned \ {p}
    /\ UNCHANGED <<closing, conn, born, signed, resolving, seenGroups, coolDown,
                   signals, rebalance, stopped>>

CoolDownExpires(p) ==
    /\ Idle
    /\ p \in coolDown
    /\ coolDown' = coolDown \ {p}
    /\ UNCHANGED <<closing, conn, born, signed, resolving, seenGroups, banned,
                   signals, rebalance, stopped>>

\* stop().  AetherNode never starts a stopped manager again.
Stop ==
    /\ Idle /\ ~stopped
    /\ stopped' = TRUE
    /\ conn' = [p \in Peer |-> NoEntry]
    /\ closing' = closing \cup {<<p, conn[p].inst>> : p \in Present}
    /\ senders' = <<>>
    /\ sigCount' = [p \in Peer |-> 0]
    /\ EvaluateTopology
    /\ UNCHANGED <<born, signed, resolving, seenGroups, coolDown, banned>>

-----------------------------------------------------------------------------
Init ==
    /\ conn = [p \in Peer |-> NoEntry]
    /\ born = [p \in Peer |-> 0]
    /\ closing = {}
    /\ signed = {} /\ resolving = {} /\ seenGroups = {}
    /\ coolDown = {} /\ banned = {}
    /\ senders = <<>> /\ sigCount = [p \in Peer |-> 0]
    /\ rebalancing = FALSE /\ newcomer = {}
    /\ stopped = FALSE

Next ==
    \/ \E p \in Peer :
         \/ HandleTrackerPeers(p)
         \/ \E s \in Peer : HandlePexResponse(s, p)
         \/ RelayOffer(p)
         \/ RelayAnswer(p)
         \/ RelayReoffer(p)
         \/ RelayCandidate(p)
         \/ OnConnect(p)
         \/ ChannelDies(p)
         \/ \E i \in 1..MaxInst :
              \/ OnDisconnect(p, i)
              \/ ConnectTimeout(p, i)
              \/ HandshakeTimeout(p, i)
              \/ \E g \in Group : NetGroupResolved(p, i, g)
         \/ HandleHello(p)
         \/ \E s \in Presented(p) : HandleJoin(p, s)
         \/ UnknownFrame(p)
         \/ BanExpires(p)
         \/ CoolDownExpires(p)
    \/ RebalanceStep
    \/ RepairTick
    \/ Stop

(***************************************************************************)
(* Timers and promises fire: the JavaScript event loop guarantees it.      *)
(* Their fairness is strong because a rebalance() on the stack disables    *)
(* them for the moment it runs.  Nothing is assumed of the network or of   *)
(* the far ends.                                                           *)
(***************************************************************************)
Fairness ==
    /\ WF_vars(RebalanceStep)
    /\ \A p \in Peer, i \in 1..MaxInst :
         /\ SF_vars(HandshakeTimeout(p, i))
         /\ SF_vars(\E g \in Group : NetGroupResolved(p, i, g))

Spec     == Init /\ [][Next]_vars
LiveSpec == Spec /\ Fairness

-----------------------------------------------------------------------------
(* Properties *)

\* The variables have their types, and no sender has more candidates buffered than
\* MAX_SIGNALS_PER_SENDER (handleRelay).
TypeOK ==
    /\ conn \in [Peer -> Entry \cup {NoEntry}]
    /\ born \in [Peer -> 0..MaxInst]
    /\ closing \subseteq Peer \X (1..MaxInst)
    /\ signed \subseteq Signature
    /\ resolving \subseteq Peer \X (1..MaxInst)
    /\ seenGroups \subseteq Group
    /\ coolDown \subseteq Peer
    /\ banned \subseteq Peer
    /\ senders \in Seq(Peer)
    /\ sigCount \in [Peer -> 0..MaxSignals]
    /\ rebalancing \in BOOLEAN
    /\ newcomer \subseteq Peer
    /\ stopped \in BOOLEAN

\* However offers, re-offers, tracker lists and PEX answers interleave, no more
\* than MAX_PENDING_PEERS connections wait for their handshake (connect()).
PendingBound == Cardinality(Pending) <= MaxPending

\* Once rebalance() has returned, the verified peers exceed MAX_DEGREE by at
\* most the JOINs whose resolveNetGroup() is still pending (handleJoin).
DegreeBound ==
    Idle => Cardinality(Verified) <= MaxDegree + Cardinality(resolving)

\* A connection is marked verified only if the owner of the peer id sits at its
\* far end, although JOINs signed for earlier connections of the same id, or
\* obtained by passing the challenge on, may arrive on it (handleJoin).
VerifiedIsOwner == \A p \in Peer : conn[p].inst # 0 /\ conn[p].ver
                                     => conn[p].far = "self"

\* A banned id has no entry: the frame that bans it also disconnects it, and no
\* relay, tracker or PEX path lets it back in before the ban expires.  After
\* stop() nobody has one, whatever timer, promise or relayed signal fires then.
KeptOut == banned \cap Present = {} /\ (stopped => Present = {})

\* Candidates are buffered for senders without a session only; the keys of
\* pendingSignals are the senders with buffered candidates; they stay within
\* MAX_SIGNAL_SENDERS, and stop() forgets them for good (handleRelay).
SignalBuffer ==
    /\ Len(senders) <= MaxSenders /\ (stopped => senders = <<>>)
    /\ \A i, j \in DOMAIN senders : senders[i] = senders[j] => i = j
    /\ \A p \in Peer : sigCount[p] > 0 <=> \E i \in DOMAIN senders : senders[i] = p
    /\ \A p \in Present : conn[p].dir = "inbound" => sigCount[p] = 0

\* A live verified connection ends only because its own channel closed, it sent
\* an unknown frame, rebalance() evicted it while over MAX_DEGREE, or the node
\* stopped.  Offers that use its name, and timers or close events of objects it
\* replaced, never take it down (handleRelay, isStillCurrent).
LiveLinkKept ==
    [][\A p \in Verified :
         conn'[p].inst # conn[p].inst
           => \/ <<p, conn[p].inst>> \in closing
              \/ UnknownFrame(p)
              \/ RebalanceStep /\ Cardinality(Verified) > MaxDegree
              \/ Stop]_vars

\* rebalance() never drops one of the LocalLinks nearest peers, drops an
\* outbound peer only if every inbound one is local, and gives a cool-down to
\* everyone it drops but the newcomer it was called for.
EvictionOrder ==
    [][\A p \in Verified :
         RebalanceStep /\ conn'[p].inst = 0
           => /\ p \notin LocalOf(Verified)
              /\ conn[p].dir = "outbound" =>
                   \A q \in Verified \ LocalOf(Verified) : conn[q].dir = "outbound"
              /\ p \in coolDown' \/ p \in newcomer]_vars

\* No handshake hangs: every connection is verified or leaves the table.
HandshakeSettles ==
    \A p \in Peer, i \in 1..MaxInst :
      (conn[p].inst = i /\ ~conn[p].ver)
        ~> (conn[p].inst # i \/ (conn[p].inst = i /\ conn[p].ver))

\* An excess of verified peers is always worked off.
ExcessHeals ==
    (Cardinality(Verified) > MaxDegree) ~> (Cardinality(Verified) <= MaxDegree)

-----------------------------------------------------------------------------
(* What the proofs add to the properties to make them inductive *)

\* No promise, signature or entry names an object that does not exist yet, and
\* a current object with a pending resolveNetGroup() is verified.
ObjectsExist ==
    /\ \A p \in Peer : conn[p].inst <= born[p]
    /\ \A p \in Peer, i \in 1..MaxInst : <<p, i>> \in resolving =>
         i <= born[p] /\ (conn[p].inst = i => conn[p].ver)
    /\ \A s \in signed : s.chal <= born[s.id]

\* A signature bound to the current link of an id was made by its owner.
SignaturesBound ==
    \A s \in signed :
      s.link = "own" /\ conn[s.id].inst = s.chal => conn[s.id].far = "self"
=============================================================================
