--------------------------- MODULE PeerTableProofs ---------------------------
(***************************************************************************)
(* Proofs about PeerTable for every set of peers and every limit.          *)
(***************************************************************************)
EXTENDS PeerTable, FiniteSetTheorems, SequenceTheorems, TLAPS

-----------------------------------------------------------------------------
(* Type correctness *)

\* Taking a sender out of the buffer leaves a sequence of senders.
LEMMA ForgetSignalsType ==
    ASSUME NEW p \in Peer, senders \in Seq(Peer),
           sigCount \in [Peer -> 0..MaxSignals], ForgetSignals(p)
    PROVE  senders' \in Seq(Peer) /\ sigCount' \in [Peer -> 0..MaxSignals]
<1>1. sigCount' \in [Peer -> 0..MaxSignals]
  BY BoundAssumption DEF ForgetSignals
<1>2. senders' \in Seq(Peer)
  <2>1. CASE \E i \in DOMAIN senders : senders[i] = p
    <3> DEFINE i == CHOOSE j \in DOMAIN senders : senders[j] = p
    <3>1. i \in 1..Len(senders)
      BY <2>1
    <3> HIDE DEF i
    <3>2. /\ SubSeq(senders, 1, i - 1) \in Seq(Peer)
          /\ SubSeq(senders, i + 1, Len(senders)) \in Seq(Peer)
      <4>1. /\ \A j \in 1..(i - 1) : senders[j] \in Peer
            /\ \A j \in (i + 1)..Len(senders) : senders[j] \in Peer
        BY <3>1
      <4>2. i - 1 \in Int /\ i + 1 \in Int /\ Len(senders) \in Int
        BY <3>1
      <4> QED BY <4>1, <4>2, SubSeqProperties
    <3>3. senders' = SubSeq(senders, 1, i - 1)
                       \o SubSeq(senders, i + 1, Len(senders))
      BY <2>1 DEF ForgetSignals, i
    <3> QED BY <3>2, <3>3
  <2>2. CASE ~\E i \in DOMAIN senders : senders[i] = p
    BY <2>2 DEF ForgetSignals
  <2> QED BY <2>1, <2>2
<1> QED BY <1>1, <1>2

\* A fresh WebRTCPeer is a well-formed entry.
LEMMA NewPeerType ==
    ASSUME TypeOK, NEW p \in Peer, NEW f \in FarEnd, born[p] < MaxInst,
           NEW d \in {"outbound", "inbound"}
    PROVE  NewPeer(p, d, f) \in Entry
BY GroupAssumption, BoundAssumption DEF TypeOK, NewPeer, Entry

\* Amending an entry keeps it well formed.
LEMMA AmendType ==
    ASSUME NEW e \in Entry, NEW st \in {"connecting", "open"}, NEW ver \in BOOLEAN,
           NEW at \in Nat, NEW g \in Group
    PROVE  Amend(e, st, ver, at, g) \in Entry
BY DEF Amend, Entry

\* The time of a JOIN is a time.
LEMMA JoinTimesType == TypeOK => JoinTimes \subseteq Nat
<1> SUFFICES ASSUME TypeOK PROVE JoinTimes \subseteq Nat
  OBVIOUS
<1>1. ASSUME NEW q \in Verified PROVE conn[q].at \in Nat
  <2>1. q \in Peer /\ conn[q].inst # 0
    BY DEF Verified, Open, Present
  <2>2. conn[q] \in Entry
    BY <2>1 DEF TypeOK, NoEntry
  <2> QED BY <2>2 DEF Entry
<1> QED BY <1>1 DEF JoinTimes

LEMMA InitType == Init => TypeOK
<1> SUFFICES ASSUME Init PROVE TypeOK
  OBVIOUS
<1>1. senders \in Seq(Peer)
  BY DEF Init
<1>2. /\ conn \in [Peer -> Entry \cup {NoEntry}]
      /\ born \in [Peer -> 0..MaxInst]
      /\ sigCount \in [Peer -> 0..MaxSignals]
  BY BoundAssumption DEF Init
<1> QED BY <1>1, <1>2 DEF Init, TypeOK

LEMMA NextType == TypeOK /\ [Next]_vars => TypeOK'
<1> SUFFICES ASSUME TypeOK, [Next]_vars PROVE TypeOK'
  OBVIOUS
<1> USE BoundAssumption, GroupAssumption, FarAssumption
<1>1. ASSUME NEW p \in Peer, HandleTrackerPeers(p) PROVE TypeOK'
  <2>1. PICK f \in Far : Connect(p, "outbound", f)
    BY <1>1 DEF HandleTrackerPeers
  <2>2. NewPeer(p, "outbound", f) \in Entry
    BY <2>1, NewPeerType DEF Connect, MayConnect
  <2>3. /\ conn' \in [Peer -> Entry \cup {NoEntry}]
        /\ born' \in [Peer -> 0..MaxInst]
    BY <2>1, <2>2 DEF TypeOK, Connect, MayConnect
  <2> QED BY <1>1, <2>1, <2>3 DEF TypeOK, HandleTrackerPeers, Connect, signals, rebalance
<1>2. ASSUME NEW p \in Peer, NEW s \in Peer, HandlePexResponse(s, p) PROVE TypeOK'
  <2>1. PICK f \in Far : Connect(p, "outbound", f)
    BY <1>2 DEF HandlePexResponse
  <2>2. NewPeer(p, "outbound", f) \in Entry
    BY <2>1, NewPeerType DEF Connect, MayConnect
  <2>3. /\ conn' \in [Peer -> Entry \cup {NoEntry}]
        /\ born' \in [Peer -> 0..MaxInst]
    BY <2>1, <2>2 DEF TypeOK, Connect, MayConnect
  <2> QED BY <1>2, <2>1, <2>3 DEF TypeOK, HandlePexResponse, Connect, signals, rebalance
<1>3. ASSUME NEW p \in Peer, NEW f \in FarEnd, RelayNewSession(p, f) PROVE TypeOK'
  <2>1. NewPeer(p, "inbound", f) \in Entry
    BY <1>3, NewPeerType DEF Heard, RelayNewSession, Connect, MayConnect
  <2>2. senders' \in Seq(Peer) /\ sigCount' \in [Peer -> 0..MaxSignals]
    BY <1>3, ForgetSignalsType DEF Heard, RelayNewSession, TypeOK
  <2>3. /\ conn' \in [Peer -> Entry \cup {NoEntry}]
        /\ born' \in [Peer -> 0..MaxInst]
    BY <1>3, <2>1 DEF TypeOK, RelayNewSession, Connect, MayConnect
  <2> QED BY <1>3, <2>2, <2>3 DEF TypeOK, RelayNewSession, rebalance
<1>4. ASSUME NEW p \in Peer, RelayReoffer(p) PROVE TypeOK'
  <2>1. senders' \in Seq(Peer) /\ sigCount' \in [Peer -> 0..MaxSignals]
    BY <1>4, ForgetSignalsType DEF Heard, RelayReoffer, TypeOK
  <2>2. conn[p].inst \in 1..MaxInst
    BY <1>4 DEF Heard, RelayReoffer, Replaceable, Present, TypeOK, Entry, NoEntry
  <2>3. conn' \in [Peer -> Entry \cup {NoEntry}] /\ born' \in [Peer -> 0..MaxInst]
    <3> DEFINE closed == [conn EXCEPT ![p] = NoEntry]
    <3>1. CASE MayConnect(p, closed, coolDown')
      <4>1. PICK f \in Far : conn' = [conn EXCEPT ![p] = NewPeer(p, "inbound", f)]
        BY <1>4, <3>1 DEF Heard, RelayReoffer
      <4>2. born[p] < MaxInst /\ born' = [born EXCEPT ![p] = @ + 1]
        BY <1>4, <3>1 DEF Heard, RelayReoffer, MayConnect
      <4>3. NewPeer(p, "inbound", f) \in Entry
        BY <4>2, NewPeerType
      <4> QED BY <4>1, <4>2, <4>3 DEF TypeOK
    <3>2. CASE ~MayConnect(p, closed, coolDown')
      BY <1>4, <3>2 DEF Heard, RelayReoffer, TypeOK
    <3> QED BY <3>1, <3>2
  <2> QED BY <1>4, <2>1, <2>2, <2>3 DEF TypeOK, RelayReoffer, EvaluateTopology
<1>5. ASSUME NEW p \in Peer, RelayCandidate(p) PROVE TypeOK'
  <2>1. senders' \in Seq(Peer)
    <3>1. senders \in Seq(Peer)
      BY DEF TypeOK
    <3>2. Append(senders, p) \in Seq(Peer)
      BY <3>1
    <3>3. CASE senders # <<>>
      <4>1. Append(Tail(senders), p) \in Seq(Peer)
        BY <3>1, <3>3
      <4> QED BY <1>5, <3>1, <3>2, <4>1 DEF Heard, RelayCandidate
    <3>4. CASE senders = <<>>
      <4>1. ~(Len(senders) >= MaxSenders)
        BY <3>4
      <4> QED BY <1>5, <3>1, <3>2, <4>1 DEF Heard, RelayCandidate
    <3> QED BY <3>3, <3>4
  <2>2. sigCount' \in [Peer -> 0..MaxSignals]
    <3>1. /\ sigCount[p] \in 0..MaxSignals /\ sigCount[p] < MaxSignals
          /\ sigCount \in [Peer -> 0..MaxSignals]
      BY <1>5 DEF Heard, RelayCandidate, TypeOK
    <3>2. \/ sigCount' = [sigCount EXCEPT ![p] = @ + 1]
          \/ sigCount' = [q \in Peer |-> IF q = p THEN 1
                                        ELSE IF q = Head(senders) THEN 0
                                        ELSE sigCount[q]]
          \/ sigCount' = [sigCount EXCEPT ![p] = 1]
      BY <1>5 DEF Heard, RelayCandidate
    <3> QED BY <3>1, <3>2
  <2> QED BY <1>5, <2>1, <2>2 DEF TypeOK, RelayCandidate, rebalance
<1>6. ASSUME NEW p \in Peer, OnConnect(p) PROVE TypeOK'
  <2>1. conn[p] \in Entry
    BY <1>6 DEF Negotiated, OnConnect, Present, TypeOK, NoEntry
  <2>2. conn' \in [Peer -> Entry \cup {NoEntry}]
    BY <1>6, <2>1, AmendType DEF Negotiated, OnConnect, TypeOK, Entry
  <2> QED BY <1>6, <2>2 DEF TypeOK, OnConnect, EvaluateTopology, signals
<1>7. ASSUME NEW p \in Peer, ChannelDies(p) PROVE TypeOK'
  <2>1. conn[p].inst \in 1..MaxInst
    BY <1>7 DEF ChannelDies, Present, TypeOK, Entry, NoEntry
  <2> QED BY <1>7, <2>1 DEF TypeOK, ChannelDies, signals, rebalance
<1>8. ASSUME NEW p \in Peer, Remove(p)
      PROVE  /\ conn' \in [Peer -> Entry \cup {NoEntry}]
             /\ senders' \in Seq(Peer) /\ sigCount' \in [Peer -> 0..MaxSignals]
             /\ rebalancing' \in BOOLEAN /\ newcomer' \subseteq Peer
  BY <1>8, ForgetSignalsType DEF Remove, EvaluateTopology, TypeOK
<1>9. ASSUME NEW p \in Peer, NEW i \in 1..MaxInst, OnDisconnect(p, i) PROVE TypeOK'
  BY <1>8, <1>9 DEF TypeOK, OnDisconnect, signals, rebalance
<1>10. ASSUME NEW p \in Peer, Disconnect(p), p \in Present
       PROVE  closing' \subseteq Peer \X (1..MaxInst)
  BY <1>10 DEF Disconnect, Present, TypeOK, Entry, NoEntry
<1>11. ASSUME NEW p \in Peer, NEW i \in 1..MaxInst, ConnectTimeout(p, i) PROVE TypeOK'
  <2>1. CASE Disconnect(p) /\ IsStillCurrent(p, i)
    <3>1. p \in Present
      BY <2>1 DEF Present, IsStillCurrent
    <3> QED BY <1>8, <1>10, <1>11, <2>1, <3>1 DEF TypeOK, ConnectTimeout, Disconnect
  <2>2. CASE UNCHANGED <<conn, closing, signals, rebalance>>
    BY <1>11, <2>2 DEF TypeOK, ConnectTimeout, signals, rebalance
  <2> QED BY <1>11, <2>1, <2>2 DEF ConnectTimeout
<1>12. ASSUME NEW p \in Peer, NEW i \in 1..MaxInst, HandshakeTimeout(p, i) PROVE TypeOK'
  <2>1. CASE Disconnect(p) /\ IsStillCurrent(p, i)
    <3>1. p \in Present
      BY <2>1 DEF Present, IsStillCurrent
    <3> QED BY <1>8, <1>10, <1>12, <2>1, <3>1 DEF TypeOK, HandshakeTimeout, Disconnect
  <2>2. CASE UNCHANGED <<conn, closing, signals, rebalance>>
    BY <1>12, <2>2 DEF TypeOK, HandshakeTimeout, signals, rebalance
  <2> QED BY <1>12, <2>1, <2>2 DEF HandshakeTimeout
<1>13. ASSUME NEW p \in Peer, HandleHello(p) PROVE TypeOK'
  <2>1. conn[p].inst \in 1..MaxInst
    BY <1>13 DEF HandleHello, Open, Present, TypeOK, Entry, NoEntry
  <2> QED BY <1>13, <2>1 DEF TypeOK, HandleHello, SignClaim, LinkOf, Signature, signals, rebalance
<1>14. ASSUME NEW p \in Peer, NEW s \in Presented(p), HandleJoin(p, s) PROVE TypeOK'
  <2>1. conn[p] \in Entry /\ p \in Present
    BY <1>14 DEF HandleJoin, Open, Present, TypeOK, NoEntry
  <2>2. CASE VerifySignedClaim(p, s)
    <3>1. PICK t \in JoinTimes :
            conn' = [conn EXCEPT ![p] = Amend(@, "open", TRUE, t, conn[p].group)]
      BY <1>14, <2>2 DEF HandleJoin
    <3>2. t \in Nat /\ conn[p].group \in Group /\ conn[p].inst \in 1..MaxInst
      BY <2>1, <3>1, JoinTimesType DEF Entry
    <3>3. Amend(conn[p], "open", TRUE, t, conn[p].group) \in Entry
      BY <2>1, <3>2, AmendType
    <3>4. conn' \in [Peer -> Entry \cup {NoEntry}]
      BY <3>1, <3>3 DEF TypeOK
    <3>5. resolving' \subseteq Peer \X (1..MaxInst)
      BY <1>14, <2>2, <3>2 DEF HandleJoin, TypeOK
    <3> QED BY <1>14, <2>2, <3>1, <3>2, <3>4, <3>5
         DEF TypeOK, HandleJoin, signals, rebalance
  <2>3. CASE ~VerifySignedClaim(p, s)
    BY <1>8, <1>10, <1>14, <2>1, <2>3 DEF TypeOK, HandleJoin, Disconnect
  <2> QED BY <2>2, <2>3
<1>15. ASSUME NEW p \in Peer, NEW i \in 1..MaxInst, NEW g \in Group,
              NetGroupResolved(p, i, g)
       PROVE  TypeOK'
  <2>1. conn' \in [Peer -> Entry \cup {NoEntry}]
    <3>1. CASE IsStillCurrent(p, i)
      <4>1. conn[p] \in Entry
        BY <3>1 DEF IsStillCurrent, TypeOK, NoEntry
      <4> QED BY <1>15, <3>1, <4>1, AmendType DEF NoteGroup, NetGroupResolved, TypeOK, Entry
    <3>2. CASE ~IsStillCurrent(p, i)
      BY <1>15, <3>2 DEF NoteGroup, NetGroupResolved, TypeOK
    <3> QED BY <3>1, <3>2
  <2> QED BY <1>15, <2>1 DEF TypeOK, NoteGroup, NetGroupResolved, signals
<1>16. ASSUME RebalanceStep PROVE TypeOK'
  <2>1. ASSUME NEW v \in Victims(Verified, newcomer), Disconnect(v),
               coolDown' = (IF v \in newcomer THEN coolDown ELSE coolDown \cup {v})
        PROVE  TypeOK'
    <3>1. v \in Peer /\ v \in Present
      BY DEF Victims, VictimPool, Verified, Open, Present
    <3>2. closing' \subseteq Peer \X (1..MaxInst)
      BY <1>10, <2>1, <3>1
    <3> QED BY <1>8, <1>16, <2>1, <3>1, <3>2
         DEF TypeOK, RebalanceStep, Disconnect
  <2> QED BY <1>16, <2>1 DEF TypeOK, RebalanceStep, signals
<1>17. ASSUME RepairTick PROVE TypeOK'
  BY <1>17 DEF TypeOK, RepairTick, EvaluateTopology, signals
<1>18. ASSUME NEW p \in Peer, UnknownFrame(p) PROVE TypeOK'
  BY <1>8, <1>10, <1>18 DEF TypeOK, UnknownFrame, Open, Disconnect
<1>19. ASSUME NEW p \in Peer, BanExpires(p) \/ CoolDownExpires(p) PROVE TypeOK'
  BY <1>19 DEF TypeOK, BanExpires, CoolDownExpires, signals, rebalance
<1>20. ASSUME Stop PROVE TypeOK'
  <2>1. {<<p, conn[p].inst>> : p \in Present} \subseteq Peer \X (1..MaxInst)
    BY DEF Present, TypeOK, Entry, NoEntry
  <2> QED BY <1>20, <2>1 DEF TypeOK, Stop, EvaluateTopology
<1>21. CASE UNCHANGED vars
  BY <1>21 DEF TypeOK, vars
<1> QED
  BY <1>1, <1>2, <1>3, <1>4, <1>5, <1>6, <1>7, <1>9, <1>11, <1>12, <1>13, <1>14,
     <1>15, <1>16, <1>17, <1>18, <1>19, <1>20, <1>21
     DEF Next, RelayOffer, RelayAnswer, FarEnd

\* The table, its bookkeeping and its buffers keep their shape in every
\* behaviour of PeerManager.
THEOREM TypeCorrect == Spec => []TypeOK
BY InitType, NextType, PTL DEF Spec

-----------------------------------------------------------------------------
(* What a step can do to the table.  Every action has one of these shapes. *)

\* connect() made a new object for p.
Creates(p, d, f) ==
    /\ Idle /\ ~stopped /\ p \notin banned /\ born[p] < MaxInst
    /\ p \notin Verified
    /\ Cardinality({q \in Peer : q # p /\ conn[q].inst # 0 /\ ~conn[q].ver}) < MaxPending
    /\ conn' = [conn EXCEPT ![p] = NewPeer(p, d, f)]
    /\ born' = [born EXCEPT ![p] = @ + 1]
    /\ UNCHANGED <<signed, resolving, banned, stopped>>

\* p left the table.
Drops(p) ==
    /\ conn' = [conn EXCEPT ![p] = NoEntry]
    /\ rebalancing' = TRUE
    /\ banned' \subseteq banned \cup {p}
    /\ UNCHANGED <<born, signed, resolving, stopped>>

\* The channel of p opened.
Opens(p) ==
    /\ p \in Present /\ rebalancing' = TRUE
    /\ conn' = [conn EXCEPT
         ![p] = Amend(@, "open", conn[p].ver, conn[p].at, conn[p].group)]
    /\ UNCHANGED <<born, signed, resolving, banned, stopped>>

\* p's JOIN was accepted.
Verifies(p, s, t) ==
    /\ Idle /\ p \in Open /\ ~conn[p].ver
    /\ s \in signed /\ VerifySignedClaim(p, s)
    /\ conn' = [conn EXCEPT ![p] = Amend(@, "open", TRUE, t, conn[p].group)]
    /\ resolving' = resolving \cup {<<p, conn[p].inst>>}
    /\ UNCHANGED <<born, signed, banned, stopped>>

\* The origin of object i of p became known.
Resolves(p, i, g) ==
    /\ rebalancing' = TRUE
    /\ resolving' = resolving \ {<<p, i>>}
    /\ \/ conn' = conn
       \/ /\ p \in Present
          /\ conn' = [conn EXCEPT
               ![p] = Amend(@, conn[p].st, conn[p].ver, conn[p].at, g)]
    /\ UNCHANGED <<born, signed, banned, stopped>>

\* The owner of p signed the challenge of p's connection.
Signs(p) ==
    /\ p \in Open
    /\ signed' = signed \cup
         {[id |-> p, by |-> p, chal |-> conn[p].inst,
           link |-> IF conn[p].far = "self" THEN "own" ELSE "other"]}
    /\ UNCHANGED <<conn, born, resolving, rebalancing, banned, stopped>>

Stops ==
    /\ conn' = [p \in Peer |-> NoEntry] /\ rebalancing' = TRUE
    /\ UNCHANGED <<born, signed, resolving, banned>>

\* The table stays as it is.
Quiet ==
    /\ Idle \/ rebalancing' = TRUE \/ Cardinality(Verified) <= MaxDegree
            \/ VictimPool(Verified, newcomer) = {} \/ rebalancing' = rebalancing
    /\ banned' \subseteq banned
    /\ UNCHANGED <<conn, born, signed, resolving, stopped>>

Shaped ==
    \/ \E p \in Peer, d \in {"outbound", "inbound"}, f \in FarEnd : Creates(p, d, f)
    \/ \E p \in Peer : Drops(p) \/ Opens(p) \/ Signs(p)
    \/ \E p \in Peer, s \in signed, t \in Nat : Verifies(p, s, t)
    \/ \E p \in Peer, i \in 1..MaxInst, g \in Group : Resolves(p, i, g)
    \/ Stops
    \/ Quiet

\* Every step of the specification has one of the shapes.
LEMMA StepShape == TypeOK /\ [Next]_vars => Shaped
<1> SUFFICES ASSUME TypeOK, [Next]_vars PROVE Shaped
  OBVIOUS
<1> USE FarAssumption
<1>1. ASSUME NEW p \in Peer, NEW d \in {"outbound", "inbound"}, NEW f \in FarEnd,
             Idle, p \notin Present, Connect(p, d, f),
             UNCHANGED <<signed, resolving, banned, stopped>>
      PROVE  Shaped
  <2>1. {q \in Peer : conn[q].inst # 0 /\ ~conn[q].ver}
          = {q \in Peer : q # p /\ conn[q].inst # 0 /\ ~conn[q].ver}
    BY <1>1 DEF Present
  <2>2. Creates(p, d, f)
    BY <1>1, <2>1 DEF Creates, Connect, MayConnect, Verified, Open, Present
  <2> QED BY <2>2 DEF Shaped
<1>2. ASSUME NEW p \in Peer, HandleTrackerPeers(p) PROVE Shaped
  BY <1>1, <1>2 DEF HandleTrackerPeers
<1>3. ASSUME NEW p \in Peer, NEW s \in Peer, HandlePexResponse(s, p) PROVE Shaped
  BY <1>1, <1>3 DEF HandlePexResponse
<1>4. ASSUME NEW p \in Peer, NEW f \in FarEnd, RelayNewSession(p, f) PROVE Shaped
  BY <1>1, <1>4 DEF Heard, RelayNewSession
<1>5. ASSUME NEW p \in Peer, RelayReoffer(p) PROVE Shaped
  <2> DEFINE closed == [conn EXCEPT ![p] = NoEntry]
  <2>1. CASE MayConnect(p, closed, coolDown')
    <3>1. PICK f \in Far : conn' = [conn EXCEPT ![p] = NewPeer(p, "inbound", f)]
      BY <1>5, <2>1 DEF Heard, RelayReoffer
    <3>2. {q \in Peer : closed[q].inst # 0 /\ ~closed[q].ver}
            = {q \in Peer : q # p /\ conn[q].inst # 0 /\ ~conn[q].ver}
      BY DEF TypeOK, NoEntry
    <3>3. born' = [born EXCEPT ![p] = @ + 1]
      BY <1>5, <2>1 DEF Heard, RelayReoffer
    <3>4. /\ Idle /\ ~stopped /\ p \notin banned /\ Replaceable(p)
          /\ UNCHANGED <<signed, resolving, banned, stopped>>
      BY <1>5 DEF Heard, RelayReoffer
    <3>5. p \notin Verified
      BY <3>4 DEF Replaceable, Verified, Open
    <3>6. born[p] < MaxInst
          /\ Cardinality({q \in Peer : q # p /\ conn[q].inst # 0 /\ ~conn[q].ver})
               < MaxPending
      BY <2>1, <3>2 DEF MayConnect
    <3>7. Creates(p, "inbound", f)
      BY <3>1, <3>3, <3>4, <3>5, <3>6 DEF Creates
    <3> QED BY <3>7 DEF Shaped
  <2>2. CASE ~MayConnect(p, closed, coolDown')
    <3>1. Drops(p)
      BY <1>5, <2>2 DEF Heard, RelayReoffer, Drops, EvaluateTopology
    <3> QED BY <3>1 DEF Shaped
  <2> QED BY <2>1, <2>2
<1>6. ASSUME NEW p \in Peer, OnConnect(p) PROVE Shaped
  BY <1>6 DEF Negotiated, OnConnect, Opens, Shaped, EvaluateTopology
<1>7. ASSUME NEW p \in Peer, Remove(p), UNCHANGED <<born, signed, resolving, stopped>>,
             banned' \subseteq banned \cup {p}
      PROVE  Shaped
  BY <1>7 DEF Remove, Drops, Shaped, EvaluateTopology
<1>8. ASSUME NEW p \in Peer, NEW i \in 1..MaxInst,
             OnDisconnect(p, i) \/ ConnectTimeout(p, i) \/ HandshakeTimeout(p, i)
      PROVE  Shaped
  <2>1. CASE Remove(p)
    BY <1>7, <1>8, <2>1 DEF OnDisconnect, ConnectTimeout, HandshakeTimeout
  <2>2. CASE ~Remove(p)
    <3>1. Quiet
      BY <1>8, <2>2 DEF OnDisconnect, ConnectTimeout, HandshakeTimeout,
                        Disconnect, Quiet, rebalance
    <3> QED BY <3>1 DEF Shaped
  <2> QED BY <2>1, <2>2
<1>9. ASSUME NEW p \in Peer, HandleHello(p) PROVE Shaped
  BY <1>9 DEF HandleHello, SignClaim, LinkOf, Signs, Shaped, rebalance
<1>10. ASSUME NEW p \in Peer, NEW s \in Presented(p), HandleJoin(p, s) PROVE Shaped
  <2>1. CASE VerifySignedClaim(p, s)
    <3>1. PICK t \in JoinTimes :
            conn' = [conn EXCEPT ![p] = Amend(@, "open", TRUE, t, conn[p].group)]
      BY <1>10, <2>1 DEF HandleJoin
    <3>2. t \in Nat
      BY <3>1, JoinTimesType
    <3>3. s \in signed
      BY <1>10, <2>1 DEF Presented, SignClaim, VerifySignedClaim, VerifyClaim
    <3>4. Verifies(p, s, t)
      BY <1>10, <2>1, <3>1, <3>3 DEF HandleJoin, Verifies
    <3> QED BY <3>2, <3>3, <3>4 DEF Shaped
  <2>2. CASE ~VerifySignedClaim(p, s)
    BY <1>7, <1>10, <2>2 DEF HandleJoin, Disconnect
  <2> QED BY <2>1, <2>2
<1>11. ASSUME NEW p \in Peer, NEW i \in 1..MaxInst, NEW g \in Group,
              NetGroupResolved(p, i, g)
       PROVE  Shaped
  <2>1. Resolves(p, i, g)
    BY <1>11 DEF NoteGroup, NetGroupResolved, Resolves, IsStillCurrent, Present
  <2> QED BY <2>1 DEF Shaped
<1>12. ASSUME RebalanceStep PROVE Shaped
  <2>1. CASE \E v \in Victims(Verified, newcomer) : Disconnect(v)
    <3>1. PICK v \in Victims(Verified, newcomer) : Disconnect(v)
      BY <2>1
    <3>2. v \in Peer
      BY DEF Victims, VictimPool, Verified, Open, Present
    <3> QED BY <1>7, <1>12, <3>1, <3>2 DEF RebalanceStep, Disconnect
  <2>2. CASE ~\E v \in Victims(Verified, newcomer) : Disconnect(v)
    <3>1. Quiet
      BY <1>12, <2>2 DEF RebalanceStep, Quiet
    <3> QED BY <3>1 DEF Shaped
  <2> QED BY <2>1, <2>2
<1>13. ASSUME NEW p \in Peer, UnknownFrame(p) PROVE Shaped
  BY <1>7, <1>13 DEF UnknownFrame, Disconnect
<1>14. ASSUME NEW p \in Peer,
              \/ RelayCandidate(p) \/ ChannelDies(p)
              \/ BanExpires(p) \/ CoolDownExpires(p)
       PROVE  Shaped
  <2>1. Quiet
    BY <1>14 DEF Heard, RelayCandidate, ChannelDies, BanExpires, CoolDownExpires, Quiet
  <2> QED BY <2>1 DEF Shaped
<1>15. CASE RepairTick \/ UNCHANGED vars
  <2>1. Quiet
    BY <1>15 DEF RepairTick, Quiet, vars
  <2> QED BY <2>1 DEF Shaped
<1>16. CASE Stop
  BY <1>16 DEF Stop, Stops, Shaped, EvaluateTopology
<1> QED
  BY <1>2, <1>3, <1>4, <1>5, <1>6, <1>8, <1>9, <1>10, <1>11, <1>12, <1>13, <1>14,
     <1>15, <1>16
     DEF Next, RelayOffer, RelayAnswer, FarEnd

-----------------------------------------------------------------------------
(* Who may be verified *)

Authentic == ObjectsExist /\ SignaturesBound /\ VerifiedIsOwner

\* The invariant behind VerifiedIsOwner is inductive.
LEMMA NextAuthentic == TypeOK /\ Authentic /\ [Next]_vars => Authentic'
<1> SUFFICES ASSUME TypeOK, Authentic, [Next]_vars PROVE Authentic'
  OBVIOUS
<1>0. Shaped
  BY StepShape
<1>t. /\ conn \in [Peer -> Entry \cup {NoEntry}] /\ born \in [Peer -> 0..MaxInst]
      /\ signed \subseteq Signature
  BY DEF TypeOK
<1> USE BoundAssumption DEF Authentic
<1>1. ASSUME NEW p \in Peer, NEW d \in {"outbound", "inbound"}, NEW f \in FarEnd,
             Creates(p, d, f)
      PROVE  Authentic'
  BY <1>t, <1>1 DEF Creates, NewPeer, ObjectsExist, SignaturesBound, VerifiedIsOwner, Signature
<1>2. ASSUME NEW p \in Peer, Drops(p) PROVE Authentic'
  BY <1>t, <1>2 DEF Drops, NoEntry, ObjectsExist, SignaturesBound, VerifiedIsOwner, Signature
<1>3. ASSUME NEW p \in Peer, Opens(p) PROVE Authentic'
  BY <1>t, <1>3 DEF Opens, Amend, Present, ObjectsExist, SignaturesBound,
                    VerifiedIsOwner, Signature
<1>4. ASSUME NEW p \in Peer, Signs(p) PROVE Authentic'
  BY <1>t, <1>4 DEF Signs, Open, Present, ObjectsExist, SignaturesBound,
                    VerifiedIsOwner, Signature
<1>5. ASSUME NEW p \in Peer, NEW s \in signed, NEW t \in Nat, Verifies(p, s, t)
      PROVE  Authentic'
  <2>1. conn[p].far = "self"
    BY <1>5 DEF Verifies, VerifySignedClaim, SignaturesBound
  <2>2. ObjectsExist'
    BY <1>t, <1>5 DEF Verifies, Amend, ObjectsExist, Signature
  <2>3. SignaturesBound'
    BY <1>t, <1>5 DEF Verifies, Amend, SignaturesBound, Signature
  <2>4. VerifiedIsOwner'
    BY <1>t, <1>5, <2>1 DEF Verifies, Amend, VerifiedIsOwner
  <2> QED BY <2>2, <2>3, <2>4
<1>6. ASSUME NEW p \in Peer, NEW i \in 1..MaxInst, NEW g \in Group, Resolves(p, i, g)
      PROVE  Authentic'
  BY <1>t, <1>6 DEF Resolves, Amend, Present, ObjectsExist, SignaturesBound,
                    VerifiedIsOwner, Signature
<1>7. CASE Stops
  BY <1>t, <1>7 DEF Stops, NoEntry, ObjectsExist, SignaturesBound, VerifiedIsOwner, Signature
<1>8. CASE Quiet
  BY <1>8 DEF Quiet, ObjectsExist, SignaturesBound, VerifiedIsOwner
<1> QED BY <1>0, <1>1, <1>2, <1>3, <1>4, <1>5, <1>6, <1>7, <1>8 DEF Shaped

LEMMA AlwaysAuthentic == Spec => []Authentic
<1>1. Init => Authentic
  BY BoundAssumption DEF Init, Authentic, ObjectsExist, SignaturesBound,
                         VerifiedIsOwner, NoEntry
<1> QED BY <1>1, NextAuthentic, TypeCorrect, PTL DEF Spec

\* handleJoin never marks a connection verified unless the owner of the peer id
\* sits at its far end, for any number of ids, connections and replayed JOINs.
THEOREM OwnerVerified == Spec => []VerifiedIsOwner
BY AlwaysAuthentic, PTL DEF Authentic

-----------------------------------------------------------------------------
(* Pending handshakes *)

\* The sets of peers the table is divided into are finite.
LEMMA FinitePeers ==
    ASSUME NEW S, S \subseteq Peer
    PROVE  IsFiniteSet(S) /\ Cardinality(S) \in Nat
BY PeerAssumption, FS_Subset, FS_CardinalityType

LEMMA NextPending == TypeOK /\ PendingBound /\ [Next]_vars => PendingBound'
<1> SUFFICES ASSUME TypeOK, PendingBound, [Next]_vars PROVE PendingBound'
  OBVIOUS
<1>0. Shaped
  BY StepShape
<1>t. conn \in [Peer -> Entry \cup {NoEntry}]
  BY DEF TypeOK
<1> USE BoundAssumption
<1>1. ASSUME Pending' \subseteq Pending PROVE PendingBound'
  <2>1. IsFiniteSet(Pending) /\ Cardinality(Pending) \in Nat
    BY FinitePeers DEF Pending, Present
  <2>2. Cardinality(Pending') <= Cardinality(Pending) /\ Cardinality(Pending') \in Nat
    BY <1>1, <2>1, FS_Subset, FS_CardinalityType
  <2> QED BY <2>1, <2>2 DEF PendingBound
<1>2. ASSUME NEW p \in Peer, NEW d \in {"outbound", "inbound"}, NEW f \in FarEnd,
             Creates(p, d, f)
      PROVE  PendingBound'
  <2> DEFINE rest == {q \in Peer : q # p /\ conn[q].inst # 0 /\ ~conn[q].ver}
  <2>1. Pending' \subseteq rest \cup {p}
    BY <1>t, <1>2 DEF Creates, NewPeer, Pending, Present
  <2>2. Cardinality(rest) < MaxPending
    BY <1>2 DEF Creates
  <2>3. IsFiniteSet(rest) /\ Cardinality(rest) \in Nat /\ p \notin rest
    BY FinitePeers
  <2> HIDE DEF rest
  <2>4. IsFiniteSet(rest \cup {p}) /\ Cardinality(rest \cup {p}) = Cardinality(rest) + 1
    BY <2>3, FS_AddElement
  <2>5. Cardinality(Pending') <= Cardinality(rest \cup {p}) /\ Cardinality(Pending') \in Nat
    BY <2>1, <2>4, FS_Subset, FS_CardinalityType
  <2> QED BY <2>2, <2>3, <2>4, <2>5 DEF PendingBound
<1>3. ASSUME NEW p \in Peer, Drops(p) PROVE PendingBound'
  BY <1>t, <1>1, <1>3 DEF Drops, NoEntry, Pending, Present
<1>4. ASSUME NEW p \in Peer, Opens(p) PROVE PendingBound'
  BY <1>t, <1>1, <1>4 DEF Opens, Amend, Pending, Present
<1>5. ASSUME NEW p \in Peer, Signs(p) PROVE PendingBound'
  BY <1>1, <1>5 DEF Signs, Pending, Present
<1>6. ASSUME NEW p \in Peer, NEW s \in signed, NEW t \in Nat, Verifies(p, s, t)
      PROVE  PendingBound'
  BY <1>t, <1>1, <1>6 DEF Verifies, Amend, Pending, Present
<1>7. ASSUME NEW p \in Peer, NEW i \in 1..MaxInst, NEW g \in Group, Resolves(p, i, g)
      PROVE  PendingBound'
  BY <1>t, <1>1, <1>7 DEF Resolves, Amend, Pending, Present
<1>8. CASE Stops
  BY <1>1, <1>8 DEF Stops, NoEntry, Pending, Present
<1>9. CASE Quiet
  BY <1>1, <1>9 DEF Quiet, Pending, Present
<1> QED BY <1>0, <1>2, <1>3, <1>4, <1>5, <1>6, <1>7, <1>8, <1>9 DEF Shaped

\* However many ids offer or are offered, at most MAX_PENDING_PEERS connections
\* wait for their handshake at any moment.
THEOREM PendingBounded == Spec => []PendingBound
<1>1. Init => PendingBound
  <2> SUFFICES ASSUME Init PROVE PendingBound
    OBVIOUS
  <2>1. Pending = {}
    BY DEF Init, Pending, Present, NoEntry
  <2> QED BY <2>1, FS_EmptySet, BoundAssumption DEF PendingBound
<1> QED BY <1>1, NextPending, TypeCorrect, PTL DEF Spec

-----------------------------------------------------------------------------
(* The degree *)

\* Ranking by distance is one to one, so more peers than local links leave
\* someone outside the local links.
LEMMA SomeoneNotLocal ==
    ASSUME NEW V, V \subseteq Peer, Cardinality(V) > LocalLinks
    PROVE  V \ LocalOf(V) # {}
<1> DEFINE closer(p) == {q \in V : Dist[q] < Dist[p]}
           rank == [p \in V |-> Cardinality(closer(p))]
<1>1. SUFFICES ASSUME V \ LocalOf(V) = {} PROVE FALSE
  OBVIOUS
<1>2. IsFiniteSet(V) /\ Cardinality(V) \in Nat
  BY FinitePeers
<1>3. \A p \in V : IsFiniteSet(closer(p)) /\ Cardinality(closer(p)) \in Nat
  BY FinitePeers
<1>4. \A p \in V : Cardinality(closer(p)) < LocalLinks
  BY <1>1 DEF LocalOf
<1>5. ASSUME NEW a \in V, NEW b \in V, Dist[a] < Dist[b]
      PROVE  /\ closer(a) \subseteq closer(b)
             /\ a \in closer(b) /\ a \notin closer(a)
  BY <1>5, DistAssumption
<1> HIDE DEF closer
<1>6. rank \in [V -> 0..(LocalLinks - 1)]
  BY <1>3, <1>4, BoundAssumption
<1>7. IsFiniteSet(0..(LocalLinks - 1)) /\ Cardinality(0..(LocalLinks - 1)) = LocalLinks
  BY FS_Interval, BoundAssumption
<1>x. PICK x, y \in V : x # y /\ rank[x] = rank[y]
  <2> HIDE DEF rank
  <2> QED BY <1>2, <1>6, <1>7, FS_PigeonHole
<1>8. ASSUME NEW a \in V, NEW b \in V, Dist[a] < Dist[b]
      PROVE  Cardinality(closer(a)) < Cardinality(closer(b))
  <2>1. closer(a) \in SUBSET closer(b) /\ closer(a) # closer(b)
    BY <1>5, <1>8
  <2>2. /\ Cardinality(closer(a)) <= Cardinality(closer(b))
        /\ Cardinality(closer(b)) # Cardinality(closer(a))
    BY <1>3, <2>1, FS_Subset
  <2> QED BY <1>3, <2>2
<1>9. Dist[x] < Dist[y] \/ Dist[y] < Dist[x]
  BY <1>x, DistAssumption
<1>10. Cardinality(closer(x)) = Cardinality(closer(y))
  BY <1>x
<1> QED BY <1>3, <1>8, <1>9, <1>10

\* pickEvictionVictim finds someone whenever the degree is exceeded.
LEMMA VictimExists ==
    ASSUME NEW V, V \subseteq Peer, Cardinality(V) > MaxDegree, NEW nc
    PROVE  VictimPool(V, nc) # {}
<1>1. V \ LocalOf(V) # {}
  <2>1. Cardinality(V) \in Nat
    BY FinitePeers
  <2> QED BY <2>1, SomeoneNotLocal, BoundAssumption
<1> QED BY <1>1 DEF VictimPool

\* Promises are finitely many.
LEMMA FiniteResolving ==
    ASSUME NEW S, S \subseteq Peer \X (1..MaxInst)
    PROVE  IsFiniteSet(S) /\ Cardinality(S) \in Nat
<1>1. IsFiniteSet(1..MaxInst)
  BY FS_Interval, BoundAssumption
<1>2. IsFiniteSet(Peer \X (1..MaxInst))
  BY <1>1, PeerAssumption, FS_Product
<1> QED BY <1>2, FS_Subset, FS_CardinalityType

LEMMA NextDegree ==
    TypeOK /\ Authentic /\ DegreeBound /\ [Next]_vars => DegreeBound'
<1> SUFFICES ASSUME TypeOK, Authentic, DegreeBound, [Next]_vars, ~rebalancing'
             PROVE  Cardinality(Verified') <= MaxDegree + Cardinality(resolving')
  BY DEF DegreeBound, Idle
<1>0. Shaped
  BY StepShape
<1>t. conn \in [Peer -> Entry \cup {NoEntry}] /\ resolving \subseteq Peer \X (1..MaxInst)
  BY DEF TypeOK
<1>v. IsFiniteSet(Verified) /\ Cardinality(Verified) \in Nat
  BY FinitePeers DEF Verified, Open, Present
<1>r. IsFiniteSet(resolving) /\ Cardinality(resolving) \in Nat
  BY <1>t, FiniteResolving
<1> USE BoundAssumption
<1>1. ASSUME Idle, Verified' \subseteq Verified, resolving' = resolving
      PROVE  Cardinality(Verified') <= MaxDegree + Cardinality(resolving')
  <2>1. Cardinality(Verified') <= Cardinality(Verified) /\ Cardinality(Verified') \in Nat
    BY <1>1, <1>v, FS_Subset, FS_CardinalityType
  <2> QED BY <1>1, <1>v, <1>r, <2>1 DEF DegreeBound
<1>2. ASSUME NEW p \in Peer, NEW d \in {"outbound", "inbound"}, NEW f \in FarEnd,
             Creates(p, d, f)
      PROVE  Cardinality(Verified') <= MaxDegree + Cardinality(resolving')
  BY <1>t, <1>1, <1>2 DEF Creates, NewPeer, Verified, Open, Present
<1>3. ASSUME NEW p \in Peer, Drops(p) \/ Opens(p) PROVE FALSE
  BY <1>3 DEF Drops, Opens
<1>4. ASSUME NEW p \in Peer, Signs(p)
      PROVE  Cardinality(Verified') <= MaxDegree + Cardinality(resolving')
  BY <1>1, <1>4 DEF Signs, Verified, Open, Present, Idle
<1>5. ASSUME NEW p \in Peer, NEW s \in signed, NEW t \in Nat, Verifies(p, s, t)
      PROVE  Cardinality(Verified') <= MaxDegree + Cardinality(resolving')
  <2>1. conn[p].inst \in 1..MaxInst
    BY <1>t, <1>5 DEF Verifies, Open, Present, Entry, NoEntry
  <2>2. <<p, conn[p].inst>> \notin resolving
    BY <1>5, <2>1 DEF Verifies, Authentic, ObjectsExist
  <2>3. Cardinality(resolving') = Cardinality(resolving) + 1
    BY <1>5, <1>r, <2>2, FS_AddElement DEF Verifies
  <2>4. Verified' \subseteq Verified \cup {p} /\ p \notin Verified
    BY <1>t, <1>5 DEF Verifies, Amend, Verified, Open, Present
  <2>5. IsFiniteSet(Verified \cup {p})
        /\ Cardinality(Verified \cup {p}) = Cardinality(Verified) + 1
    BY <1>v, <2>4, FS_AddElement
  <2>6. Cardinality(Verified') <= Cardinality(Verified) + 1
        /\ Cardinality(Verified') \in Nat
    BY <2>4, <2>5, FS_Subset, FS_CardinalityType
  <2>7. Cardinality(Verified) <= MaxDegree + Cardinality(resolving)
    BY <1>5 DEF Verifies, DegreeBound
  <2> QED BY <1>v, <1>r, <2>3, <2>6, <2>7
<1>6. ASSUME NEW p \in Peer, NEW i \in 1..MaxInst, NEW g \in Group, Resolves(p, i, g)
      PROVE  FALSE
  BY <1>6 DEF Resolves
<1>7. CASE Stops
  BY <1>7 DEF Stops
<1>8. CASE Quiet
  <2>1. Verified' = Verified /\ resolving' = resolving
    BY <1>8 DEF Quiet, Verified, Open, Present
  <2>2. CASE Idle
    BY <1>1, <2>1, <2>2
  <2>3. CASE Cardinality(Verified) <= MaxDegree
    BY <1>v, <1>r, <2>1, <2>3
  <2>4. CASE VictimPool(Verified, newcomer) = {}
    <3>1. Verified \subseteq Peer
      BY DEF Verified, Open, Present
    <3>2. ~(Cardinality(Verified) > MaxDegree)
      BY <2>4, <3>1, VictimExists
    <3> QED BY <1>v, <2>3, <3>2
  <2> QED BY <1>8, <2>2, <2>3, <2>4 DEF Quiet, Idle
<1> QED BY <1>0, <1>2, <1>3, <1>4, <1>5, <1>6, <1>7, <1>8 DEF Shaped

\* When rebalance() is not running, the verified peers exceed MAX_DEGREE by at
\* most the number of JOINs whose origin is still being resolved.
THEOREM DegreeBounded == Spec => []DegreeBound
<1>1. Init => DegreeBound
  <2> SUFFICES ASSUME Init PROVE DegreeBound
    OBVIOUS
  <2>1. Verified = {} /\ resolving = {}
    BY DEF Init, Verified, Open, Present, NoEntry
  <2> QED BY <2>1, FS_EmptySet, BoundAssumption DEF DegreeBound
<1> QED BY <1>1, NextDegree, TypeCorrect, AlwaysAuthentic, PTL DEF Spec

-----------------------------------------------------------------------------
(* Bans and stop() *)

\* A ban keeps its id out of the table until it expires, and stop() everybody for good.
THEOREM StayOut == Spec => []KeptOut
<1>1. Init => KeptOut
  BY DEF Init, KeptOut
<1>2. TypeOK /\ KeptOut /\ [Next]_vars => KeptOut'
  <2> SUFFICES ASSUME TypeOK, KeptOut, [Next]_vars PROVE KeptOut'
    OBVIOUS
  <2>0. Shaped
    BY StepShape
  <2>t. conn \in [Peer -> Entry \cup {NoEntry}]
    BY DEF TypeOK
  <2> USE DEF KeptOut, Present
  <2>1. ASSUME NEW p \in Peer, NEW d \in {"outbound", "inbound"}, NEW f \in FarEnd,
               Creates(p, d, f)
        PROVE  KeptOut'
    BY <2>t, <2>1 DEF Creates
  <2>2. ASSUME NEW p \in Peer, Drops(p) PROVE KeptOut'
    BY <2>t, <2>2 DEF Drops, NoEntry
  <2>3. ASSUME NEW p \in Peer, Opens(p) PROVE KeptOut'
    BY <2>t, <2>3 DEF Opens, Amend
  <2>4. ASSUME NEW p \in Peer, Signs(p) PROVE KeptOut'
    BY <2>4 DEF Signs
  <2>5. ASSUME NEW p \in Peer, NEW s \in signed, NEW t \in Nat, Verifies(p, s, t)
        PROVE  KeptOut'
    BY <2>t, <2>5 DEF Verifies, Amend, Open
  <2>6. ASSUME NEW p \in Peer, NEW i \in 1..MaxInst, NEW g \in Group, Resolves(p, i, g)
        PROVE  KeptOut'
    BY <2>t, <2>6 DEF Resolves, Amend
  <2>7. CASE Stops
    BY <2>7 DEF Stops, NoEntry
  <2>8. CASE Quiet
    BY <2>8 DEF Quiet
  <2> QED BY <2>0, <2>1, <2>2, <2>3, <2>4, <2>5, <2>6, <2>7, <2>8 DEF Shaped
<1> QED BY <1>1, <1>2, TypeCorrect, PTL DEF Spec

-----------------------------------------------------------------------------
(* Evictions *)

\* rebalance() for any peers, distances and limits: who is dropped is not among the
\* nearest, is outbound only if all inbound peers are, and is not let in again at once
\* unless it is the newcomer the call was for (pickEvictionVictim, rebalance).
THEOREM EvictsInOrder == Spec => EvictionOrder
<1> DEFINE Ordered == \A p \in Verified :
         RebalanceStep /\ conn'[p].inst = 0
           => /\ p \notin LocalOf(Verified)
              /\ conn[p].dir = "outbound" =>
                   \A q \in Verified \ LocalOf(Verified) : conn[q].dir = "outbound"
              /\ p \in coolDown' \/ p \in newcomer
<1>1. TypeOK => Ordered
  <2> SUFFICES ASSUME TypeOK, NEW p \in Verified, RebalanceStep, conn'[p].inst = 0
               PROVE  /\ p \notin LocalOf(Verified)
                      /\ conn[p].dir = "outbound" =>
                           \A q \in Verified \ LocalOf(Verified) : conn[q].dir = "outbound"
                      /\ p \in coolDown' \/ p \in newcomer
    OBVIOUS
  <2>0. p \in Peer /\ conn[p].inst # 0
    BY DEF Verified, Open, Present
  <2>1. PICK v \in Victims(Verified, newcomer) :
          /\ coolDown' = IF v \in newcomer THEN coolDown ELSE coolDown \cup {v}
          /\ Disconnect(v)
    BY <2>0 DEF RebalanceStep
  <2>2. conn' = [conn EXCEPT ![v] = NoEntry]
    BY <2>1 DEF Disconnect, Remove
  <2>3. p = v
    BY <2>0, <2>2 DEF TypeOK
  <2> DEFINE V   == Verified
             far == V \ LocalOf(V)
             inb == {q \in far : conn[q].dir = "inbound"}
  <2>4. p \in VictimPool(V, newcomer)
    BY <2>1, <2>3 DEF Victims
  <2>5. p \in far /\ (inb # {} => p \in inb)
    BY <2>4 DEF VictimPool
  <2>6. ASSUME conn[p].dir = "outbound", NEW q \in far PROVE conn[q].dir = "outbound"
    <3>1. inb = {}
      BY <2>5, <2>6
    <3>2. q \in Peer /\ conn[q].inst # 0
      BY DEF Verified, Open, Present
    <3>3. conn[q] \in Entry
      BY <3>2 DEF TypeOK, NoEntry
    <3>4. conn[q].dir \in {"outbound", "inbound"}
      BY <3>3 DEF Entry
    <3> QED BY <3>1, <3>4
  <2>7. p \in coolDown' \/ p \in newcomer
    BY <2>1, <2>3
  <2> QED BY <2>5, <2>6, <2>7
<1>2. []TypeOK => [][Ordered]_vars
  <2> HIDE DEF Ordered
  <2> QED BY <1>1, PTL
<1> QED BY <1>2, TypeCorrect, PTL DEF EvictionOrder

-----------------------------------------------------------------------------
(* Live links *)

\* The reasons a live verified connection of p may end for.
Justified(p) ==
    \/ <<p, conn[p].inst>> \in closing
    \/ UnknownFrame(p)
    \/ RebalanceStep /\ Cardinality(Verified) > MaxDegree
    \/ Stop

\* For any peers and limits, whatever offers, timers and close events of other objects
\* of the same id come: a live verified connection ends for one of the four reasons
\* there are (handleRelay, isStillCurrent, disconnect).
THEOREM LiveLinksStay == Spec => LiveLinkKept
<1> DEFINE Stays == \A p \in Verified :
         conn'[p].inst # conn[p].inst
           => \/ <<p, conn[p].inst>> \in closing
              \/ UnknownFrame(p)
              \/ RebalanceStep /\ Cardinality(Verified) > MaxDegree
              \/ Stop
<1>1. ASSUME TypeOK, [Next]_vars PROVE Stays
  <2> SUFFICES ASSUME NEW p \in Verified, conn'[p].inst # conn[p].inst PROVE Justified(p)
    BY DEF Justified
  <2>0. /\ p \in Peer /\ conn[p].inst # 0 /\ conn[p].st = "open" /\ conn[p].ver
        /\ p \in Present /\ p \in Open
        /\ conn \in [Peer -> Entry \cup {NoEntry}]
    BY <1>1 DEF Verified, Open, Present, TypeOK
  \* A step that changes the entry of q only and keeps its object.
  <2>1. ASSUME NEW q \in Peer, NEW st, NEW ver, NEW at, NEW g,
               conn' = [conn EXCEPT ![q] = Amend(conn[q], st, ver, at, g)]
        PROVE  FALSE
    <3>1. Amend(conn[q], st, ver, at, g).inst = conn[q].inst
      BY DEF Amend
    <3> HIDE DEF Amend
    <3>2. CASE q = p
      BY <2>0, <2>1, <3>1, <3>2
    <3>3. CASE q # p
      BY <2>0, <2>1, <3>3
    <3> QED BY <3>2, <3>3
  <2>2. ASSUME NEW q \in Peer, NEW e, conn' = [conn EXCEPT ![q] = e] PROVE q = p
    BY <2>0, <2>2
  <2>3. ASSUME NEW q \in Peer, HandleTrackerPeers(q) PROVE FALSE
    BY <2>0, <2>2, <2>3 DEF HandleTrackerPeers, Connect
  <2>4. ASSUME NEW q \in Peer, NEW s \in Peer, HandlePexResponse(s, q) PROVE FALSE
    BY <2>0, <2>2, <2>4 DEF HandlePexResponse, Connect
  <2>5. ASSUME NEW q \in Peer, RelayOffer(q) \/ RelayAnswer(q) PROVE FALSE
    BY <2>0, <2>2, <2>5 DEF RelayOffer, RelayAnswer, RelayNewSession, Connect
  <2>6. ASSUME NEW q \in Peer, RelayReoffer(q) PROVE FALSE
    <3>1. Replaceable(q) /\ \E e : conn' = [conn EXCEPT ![q] = e]
      BY <2>6 DEF Heard, RelayReoffer
    <3> QED BY <2>0, <2>2, <3>1 DEF Replaceable
  <2>7. ASSUME NEW q \in Peer, OnConnect(q) PROVE FALSE
    BY <2>1, <2>7 DEF Negotiated, OnConnect
  <2>8. ASSUME NEW q \in Peer, NEW i \in 1..MaxInst, OnDisconnect(q, i) PROVE Justified(p)
    <3>1. IsStillCurrent(q, i) /\ conn' = [conn EXCEPT ![q] = NoEntry] /\ <<q, i>> \in closing
      BY <2>8 DEF OnDisconnect, Remove
    <3>2. q = p /\ conn[p].inst = i
      BY <2>2, <3>1 DEF IsStillCurrent
    <3> QED BY <3>1, <3>2 DEF Justified
  <2>9. ASSUME NEW q \in Peer, NEW i \in 1..MaxInst, ConnectTimeout(q, i) PROVE FALSE
    <3>1. conn[q].st # "open" /\ conn' = [conn EXCEPT ![q] = NoEntry]
      BY <2>9 DEF ConnectTimeout, Disconnect, Remove
    <3> QED BY <2>0, <2>2, <3>1
  <2>10. ASSUME NEW q \in Peer, NEW i \in 1..MaxInst, HandshakeTimeout(q, i) PROVE FALSE
    <3>1. ~conn[q].ver /\ conn' = [conn EXCEPT ![q] = NoEntry]
      BY <2>10 DEF HandshakeTimeout, Disconnect, Remove
    <3> QED BY <2>0, <2>2, <3>1
  <2>11. ASSUME NEW q \in Peer, NEW i \in 1..MaxInst, NEW g \in Group, NetGroupResolved(q, i, g)
         PROVE  FALSE
    BY <2>1, <2>11 DEF NoteGroup, NetGroupResolved
  <2>12. ASSUME NEW q \in Peer, NEW s \in Presented(q), HandleJoin(q, s) PROVE FALSE
    <3>1. ~conn[q].ver /\ \E e : conn' = [conn EXCEPT ![q] = e]
      BY <2>12 DEF HandleJoin, Disconnect, Remove
    <3> QED BY <2>0, <2>2, <3>1
  <2>13. ASSUME NEW q \in Peer, UnknownFrame(q) PROVE Justified(p)
    <3>1. conn' = [conn EXCEPT ![q] = NoEntry]
      BY <2>13 DEF UnknownFrame, Disconnect, Remove
    <3>2. q = p
      BY <2>2, <3>1
    <3> QED BY <2>13, <3>2 DEF Justified
  <2>14. ASSUME NEW q \in Peer, \/ RelayCandidate(q) \/ ChannelDies(q) \/ HandleHello(q)
                                \/ BanExpires(q) \/ CoolDownExpires(q)
         PROVE  FALSE
    BY <2>14 DEF Heard, RelayCandidate, ChannelDies, HandleHello, BanExpires, CoolDownExpires
  <2>15. CASE RebalanceStep
    <3>1. ~(Cardinality(Verified) <= MaxDegree)
      BY <2>15 DEF RebalanceStep
    <3>2. Verified \subseteq Peer
      BY DEF Verified, Open, Present
    <3>3. Cardinality(Verified) \in Nat /\ MaxDegree \in Nat
      BY <3>2, PeerAssumption, BoundAssumption, FS_Subset, FS_CardinalityType
    <3> QED BY <2>15, <3>1, <3>3 DEF Justified
  <2>16. CASE RepairTick \/ UNCHANGED vars
    BY <2>16 DEF RepairTick, vars
  <2>17. CASE Stop
    BY <2>17 DEF Justified
  <2> QED BY <1>1, <2>3, <2>4, <2>5, <2>6, <2>7, <2>8, <2>9, <2>10, <2>11, <2>12, <2>13, <2>14,
             <2>15, <2>16, <2>17 DEF Next
<1>2. TypeOK /\ [Next]_vars => Stays
  BY <1>1
<1>3. []TypeOK /\ [][Next]_vars => [][Stays]_vars
  <2> HIDE DEF Stays
  <2> QED BY <1>2, PTL
<1> QED BY <1>3, TypeCorrect, PTL DEF Spec, LiveLinkKept

-----------------------------------------------------------------------------
(* Candidates that wait for a session *)

\* The keys of pendingSignals.
In(s, q) == \E i \in 1..Len(s) : s[i] = q
Distinct(s) == \A i, j \in 1..Len(s) : s[i] = s[j] => i = j

\* A sequence of different peers without one of them.
LEMMA WithoutOne ==
    ASSUME NEW s \in Seq(Peer), Distinct(s), NEW i \in 1..Len(s)
    PROVE  LET r == SubSeq(s, 1, i - 1) \o SubSeq(s, i + 1, Len(s))
           IN  /\ r \in Seq(Peer) /\ Len(r) = Len(s) - 1 /\ Distinct(r)
               /\ \A q : In(r, q) <=> In(s, q) /\ q # s[i]
<1> DEFINE n == Len(s)
           a == SubSeq(s, 1, i - 1)
           b == SubSeq(s, i + 1, n)
           r == a \o b
<1>0. n \in Nat /\ \A j \in 1..n : s[j] \in Peer
  BY LenProperties, ElementOfSeq
<1>1. i \in 1..n
  OBVIOUS
<1>2. Distinct(s) <=> \A j, k \in 1..n : s[j] = s[k] => j = k
  BY DEF Distinct
<1>3. \A q : In(s, q) <=> \E j \in 1..n : s[j] = q
  BY DEF In
<1> HIDE DEF n
<1>4. a \in Seq(Peer) /\ Len(a) = i - 1 /\ \A j \in 1..(i - 1) : a[j] = s[j]
  <2>1. 1 \in Int /\ i - 1 \in Int /\ \A j \in 1..(i - 1) : s[j] \in Peer
    BY <1>0, <1>1
  <2>2. /\ a \in Seq(Peer) /\ Len(a) = IF 1 <= i - 1 THEN (i - 1) - 1 + 1 ELSE 0
        /\ \A j \in 1..((i - 1) - 1 + 1) : a[j] = s[1 + j - 1]
    BY <2>1, SubSeqProperties
  <2>3. (i - 1) - 1 + 1 = i - 1 /\ (1 <= i - 1 \/ i - 1 = 0) /\ \A j \in 1..(i - 1) : 1 + j - 1 = j
    BY <1>0, <1>1
  <2> QED BY <2>2, <2>3
<1>5. b \in Seq(Peer) /\ Len(b) = n - i /\ \A j \in 1..(n - i) : b[j] = s[i + j]
  <2>1. i + 1 \in Int /\ n \in Int /\ \A j \in (i + 1)..n : s[j] \in Peer
    BY <1>0, <1>1
  <2>2. /\ b \in Seq(Peer) /\ Len(b) = IF i + 1 <= n THEN n - (i + 1) + 1 ELSE 0
        /\ \A j \in 1..(n - (i + 1) + 1) : b[j] = s[(i + 1) + j - 1]
    BY <2>1, SubSeqProperties
  <2>3. n - (i + 1) + 1 = n - i /\ (i + 1 <= n \/ n - i = 0) /\ \A j \in 1..(n - i) : (i + 1) + j - 1 = i + j
    BY <1>0, <1>1
  <2> QED BY <2>2, <2>3
<1> HIDE DEF a, b
<1>6. /\ r \in Seq(Peer) /\ Len(r) = n - 1
      /\ \A j \in 1..(n - 1) : r[j] = IF j < i THEN s[j] ELSE s[j + 1]
  <2>1. /\ r \in Seq(Peer) /\ Len(r) = Len(a) + Len(b)
        /\ \A j \in 1..(Len(a) + Len(b)) : r[j] = IF j <= Len(a) THEN a[j] ELSE b[j - Len(a)]
    BY <1>4, <1>5, ConcatProperties
  <2>2. Len(a) + Len(b) = n - 1 /\ Len(a) = i - 1
    BY <1>0, <1>1, <1>4, <1>5
  <2>3. ASSUME NEW j \in 1..(n - 1) PROVE r[j] = IF j < i THEN s[j] ELSE s[j + 1]
    <3>1. r[j] = IF j <= i - 1 THEN a[j] ELSE b[j - (i - 1)]
      BY <2>1, <2>2
    <3>2. CASE j < i
      <4>1. j \in 1..(i - 1) /\ j <= i - 1
        BY <1>0, <1>1, <3>2
      <4> QED BY <1>4, <3>1, <3>2, <4>1
    <3>3. CASE ~(j < i)
      <4>1. j - (i - 1) \in 1..(n - i) /\ ~(j <= i - 1) /\ i + (j - (i - 1)) = j + 1
        BY <1>0, <1>1, <3>3
      <4> QED BY <1>5, <3>1, <3>3, <4>1
    <3> QED BY <3>2, <3>3
  <2> QED BY <2>1, <2>2, <2>3
<1> HIDE DEF r
<1> DEFINE at(j) == IF j < i THEN j ELSE j + 1
<1>7. /\ \A j \in 1..(n - 1) : at(j) \in 1..n /\ at(j) # i
      /\ \A j, k \in 1..(n - 1) : at(j) = at(k) => j = k
      /\ \A j \in 1..n : j # i => \E k \in 1..(n - 1) : at(k) = j
  <2>1. \A j \in 1..(n - 1) : at(j) \in 1..n /\ at(j) # i
    BY <1>0, <1>1
  <2>2. \A j, k \in 1..(n - 1) : at(j) = at(k) => j = k
    BY <1>0, <1>1
  <2>3. ASSUME NEW j \in 1..n, j # i PROVE \E k \in 1..(n - 1) : at(k) = j
    <3>1. CASE j < i
      <4>1. j \in 1..(n - 1) /\ at(j) = j
        BY <1>0, <1>1, <3>1
      <4> QED BY <4>1
    <3>2. CASE ~(j < i)
      <4>1. j - 1 \in 1..(n - 1) /\ ~(j - 1 < i) /\ (j - 1) + 1 = j
        BY <1>0, <1>1, <2>3, <3>2
      <4>2. at(j - 1) = j
        BY <4>1
      <4> QED BY <4>1, <4>2
    <3> QED BY <3>1, <3>2
  <2> QED BY <2>1, <2>2, <2>3
<1>8. \A j \in 1..(n - 1) : r[j] = s[at(j)]
  BY <1>6
<1> HIDE DEF at
<1>9. Distinct(r)
  BY <1>2, <1>6, <1>7, <1>8 DEF Distinct
<1>10. ASSUME NEW q PROVE In(r, q) <=> In(s, q) /\ q # s[i]
  <2>1. In(r, q) <=> \E j \in 1..(n - 1) : r[j] = q
    BY <1>6 DEF In
  <2> QED BY <1>1, <1>2, <1>3, <1>7, <1>8, <2>1
<1> QED BY <1>6, <1>9, <1>10 DEF r, a, b, n

\* The keys are the senders with candidates, each once, and not too many.
Keyed ==
    /\ Len(senders) <= MaxSenders
    /\ Distinct(senders)
    /\ \A p \in Peer : sigCount[p] > 0 <=> In(senders, p)

\* pendingSignals.delete(id): the key goes with the candidates, no other changes.
LEMMA ForgetKeyed ==
    ASSUME TypeOK, Keyed, NEW p \in Peer, ForgetSignals(p)
    PROVE  /\ Keyed'
           /\ senders = <<>> => senders' = <<>>
           /\ sigCount'[p] = 0 /\ \A q \in Peer : q # p => sigCount'[q] = sigCount[q]
<1>0. senders \in Seq(Peer) /\ sigCount \in [Peer -> 0..MaxSignals] /\ Len(senders) \in Nat
      /\ MaxSenders \in Nat
  BY LenProperties, BoundAssumption DEF TypeOK
<1>1. sigCount'[p] = 0 /\ \A q \in Peer : q # p => sigCount'[q] = sigCount[q]
  BY <1>0 DEF ForgetSignals
<1>2. CASE \E i \in DOMAIN senders : senders[i] = p
  <2> DEFINE i == CHOOSE j \in DOMAIN senders : senders[j] = p
  <2>1. i \in DOMAIN senders /\ senders[i] = p
    BY <1>2
  <2>2. i \in 1..Len(senders)
    BY <1>0, <2>1, LenProperties
  <2>3. senders' = SubSeq(senders, 1, i - 1) \o SubSeq(senders, i + 1, Len(senders))
    BY <1>2 DEF ForgetSignals
  <2> HIDE DEF i
  <2>4. /\ senders' \in Seq(Peer) /\ Len(senders') = Len(senders) - 1 /\ Distinct(senders')
        /\ \A q : In(senders', q) <=> In(senders, q) /\ q # p
    BY <1>0, <2>1, <2>2, <2>3, WithoutOne DEF Keyed
  <2>5. Len(senders') <= MaxSenders
    <3>1. Len(senders) <= MaxSenders
      BY DEF Keyed
    <3> QED BY <1>0, <2>4, <3>1
  <2>6. \A q \in Peer : sigCount'[q] > 0 <=> In(senders', q)
    BY <1>1, <2>4 DEF Keyed
  <2>7. senders # <<>>
    BY <2>1
  <2> QED BY <1>1, <2>4, <2>5, <2>6, <2>7 DEF Keyed, Distinct, In
<1>3. CASE ~\E i \in DOMAIN senders : senders[i] = p
  <2>1. senders' = senders
    BY <1>3 DEF ForgetSignals
  <2>2. ~In(senders, p)
    BY <1>0, <1>3, LenProperties DEF In
  <2>3. \A q \in Peer : sigCount'[q] > 0 <=> In(senders, q)
    BY <1>1, <2>2 DEF Keyed
  <2> QED BY <1>1, <2>1, <2>3 DEF Keyed, Distinct, In
<1> QED BY <1>2, <1>3

\* A new key comes last.
LEMMA AppendOne ==
    ASSUME NEW s \in Seq(Peer), Distinct(s), NEW p \in Peer, ~In(s, p)
    PROVE  /\ Append(s, p) \in Seq(Peer) /\ Len(Append(s, p)) = Len(s) + 1
           /\ Distinct(Append(s, p))
           /\ \A q : In(Append(s, p), q) <=> In(s, q) \/ q = p
<1> DEFINE d == Append(s, p)
           n == Len(s)
<1>1. /\ d \in Seq(Peer) /\ Len(d) = n + 1 /\ n \in Nat
      /\ \A i \in 1..n : d[i] = s[i]
      /\ d[n + 1] = p
  BY AppendProperties, LenProperties
<1>2. \A i \in 1..n : s[i] # p
  BY DEF In
<1>3. \A i, j \in 1..n : s[i] = s[j] => i = j
  BY DEF Distinct
<1>4. \A q : In(s, q) <=> \E i \in 1..n : s[i] = q
  BY DEF In
<1> HIDE DEF d, n
<1>5. 1..(n + 1) = 1..n \cup {n + 1}
  <2>1. n \in Nat
    BY <1>1
  <2> QED BY <2>1
<1>6. Distinct(d)
  <2> SUFFICES ASSUME NEW i \in 1..(n + 1), NEW j \in 1..(n + 1), d[i] = d[j] PROVE i = j
    BY <1>1 DEF Distinct
  <2> QED BY <1>1, <1>2, <1>3, <1>5
<1>7. \A q : In(d, q) <=> In(s, q) \/ q = p
  <2> SUFFICES ASSUME NEW q PROVE In(d, q) <=> In(s, q) \/ q = p
    OBVIOUS
  <2>1. In(d, q) <=> \E i \in 1..(n + 1) : d[i] = q
    BY <1>1 DEF In
  <2> QED BY <1>1, <1>4, <1>5, <2>1
<1> QED BY <1>1, <1>6, <1>7 DEF d, n

\* The oldest key is the one dropped.
LEMMA TailOne ==
    ASSUME NEW s \in Seq(Peer), s # <<>>, Distinct(s)
    PROVE  /\ Tail(s) \in Seq(Peer) /\ Len(Tail(s)) = Len(s) - 1 /\ Head(s) \in Peer
           /\ Distinct(Tail(s))
           /\ \A q : In(Tail(s), q) <=> In(s, q) /\ q # Head(s)
<1> DEFINE t == Tail(s)
           n == Len(s)
<1>1. /\ t \in Seq(Peer) /\ Len(t) = n - 1 /\ n \in Nat
      /\ \A i \in 1..Len(t) : t[i] = s[i + 1]
      /\ Head(s) = s[1] /\ Head(s) \in Peer
  BY HeadTailProperties, LenProperties
<1>2. n # 0
  BY EmptySeq, LenProperties
<1>3. \A i, j \in 1..n : s[i] = s[j] => i = j
  BY DEF Distinct
<1>4. \A q : In(s, q) <=> \E i \in 1..n : s[i] = q
  BY DEF In
<1> HIDE DEF t, n
<1>5. /\ \A i \in 1..(n - 1) : i + 1 \in 1..n /\ i + 1 # 1
      /\ \A j \in 1..n : j # 1 => \E i \in 1..(n - 1) : i + 1 = j
      /\ 1 \in 1..n
  <2>1. n \in Nat \ {0}
    BY <1>1, <1>2
  <2>2. ASSUME NEW j \in 1..n, j # 1 PROVE j - 1 \in 1..(n - 1) /\ (j - 1) + 1 = j
    BY <2>1, <2>2
  <2> QED BY <2>1, <2>2
<1>6. Distinct(t)
  <2> SUFFICES ASSUME NEW i \in 1..(n - 1), NEW j \in 1..(n - 1), t[i] = t[j] PROVE i = j
    BY <1>1 DEF Distinct
  <2>1. i + 1 = j + 1
    BY <1>1, <1>3, <1>5
  <2> QED BY <2>1
<1>7. \A q : In(t, q) <=> In(s, q) /\ q # Head(s)
  <2> SUFFICES ASSUME NEW q PROVE In(t, q) <=> In(s, q) /\ q # s[1]
    BY <1>1
  <2>1. In(t, q) <=> \E i \in 1..(n - 1) : s[i + 1] = q
    BY <1>1 DEF In
  <2> QED BY <1>3, <1>4, <1>5, <2>1
<1> QED BY <1>1, <1>6, <1>7 DEF t, n

\* The oldest sender makes room for a new one.
LEMMA CandidateKeyed ==
    ASSUME TypeOK, Keyed, NEW p \in Peer, RelayCandidate(p)
    PROVE  Keyed' /\ \A q \in Peer : q # p => sigCount'[q] = sigCount[q] \/ sigCount'[q] = 0
<1>0. /\ senders \in Seq(Peer) /\ sigCount \in [Peer -> 0..MaxSignals]
      /\ Distinct(senders) /\ \A q \in Peer : sigCount[q] > 0 <=> In(senders, q)
  BY DEF TypeOK, Keyed
<1>1. Len(senders) \in Nat /\ MaxSenders \in Nat /\ MaxSenders # 0 /\ Len(senders) <= MaxSenders
      /\ MaxSignals \in Nat /\ sigCount[p] \in 0..MaxSignals
  BY <1>0, LenProperties, BoundAssumption DEF Keyed
<1>2. CASE sigCount[p] > 0
  <2>1. senders' = senders /\ sigCount' = [sigCount EXCEPT ![p] = @ + 1]
    BY <1>2 DEF Heard, RelayCandidate
  <2>2. sigCount[p] + 1 > 0
    BY <1>1
  <2>3. sigCount'[p] = sigCount[p] + 1 /\ \A q \in Peer : q # p => sigCount'[q] = sigCount[q]
    BY <1>0, <2>1
  <2>4. \A q \in Peer : sigCount'[q] > 0 <=> In(senders, q)
    <3> TAKE q \in Peer
    <3>1. CASE q = p
      BY <1>0, <1>2, <2>2, <2>3, <3>1
    <3>2. CASE q # p
      BY <1>0, <2>3, <3>2
    <3> QED BY <3>1, <3>2
  <2> QED BY <2>1, <2>3, <2>4 DEF Keyed, Distinct, In
<1>3. CASE ~(sigCount[p] > 0) /\ Len(senders) >= MaxSenders
  <2>1. /\ senders' = Append(Tail(senders), p)
        /\ sigCount' = [q \in Peer |-> IF q = p THEN 1
                                        ELSE IF q = Head(senders) THEN 0
                                        ELSE sigCount[q]]
    BY <1>3 DEF Heard, RelayCandidate
  <2>2. ~In(senders, p)
    BY <1>0, <1>3
  <2>3. senders # <<>>
    <3>1. Len(senders) # 0
      BY <1>1, <1>3
    <3>2. Len(<<>>) = 0
      BY EmptySeq
    <3> QED BY <3>1, <3>2
  <2> DEFINE t == Tail(senders)
             h == Head(senders)
  <2>4. /\ t \in Seq(Peer) /\ Len(t) = Len(senders) - 1 /\ h \in Peer /\ Distinct(t)
        /\ \A q : In(t, q) <=> In(senders, q) /\ q # h
    BY <1>0, <2>3, TailOne
  <2>5. ~In(t, p)
    BY <2>2, <2>4
  <2> HIDE DEF t, h
  <2>6. /\ Len(Append(t, p)) = Len(t) + 1 /\ Distinct(Append(t, p))
        /\ \A q : In(Append(t, p), q) <=> In(t, q) \/ q = p
    BY <2>4, <2>5, AppendOne
  <2>7. senders' = Append(t, p)
    BY <2>1 DEF t
  <2>8. Len(senders') <= MaxSenders
    <3>1. Len(senders') = Len(senders) - 1 + 1
      BY <2>4, <2>6, <2>7
    <3> QED BY <1>1, <3>1
  <2>9. ASSUME NEW q \in Peer
        PROVE  /\ sigCount'[q] > 0 <=> In(senders', q)
               /\ q # p => sigCount'[q] = sigCount[q] \/ sigCount'[q] = 0
    <3>1. sigCount'[q] = IF q = p THEN 1 ELSE IF q = h THEN 0 ELSE sigCount[q]
      BY <2>1 DEF h
    <3>2. In(senders', q) <=> (In(senders, q) /\ q # h) \/ q = p
      BY <2>4, <2>6, <2>7
    <3>3. sigCount[q] > 0 <=> In(senders, q)
      BY <1>0
    <3> QED BY <3>1, <3>2, <3>3
  <2> QED BY <2>6, <2>7, <2>8, <2>9 DEF Keyed, Distinct, In
<1>4. CASE ~(sigCount[p] > 0) /\ ~(Len(senders) >= MaxSenders)
  <2>1. senders' = Append(senders, p) /\ sigCount' = [sigCount EXCEPT ![p] = 1]
    BY <1>4 DEF Heard, RelayCandidate
  <2>2. ~In(senders, p)
    BY <1>0, <1>4
  <2>3. /\ Len(senders') = Len(senders) + 1 /\ Distinct(senders')
        /\ \A q : In(senders', q) <=> In(senders, q) \/ q = p
    BY <1>0, <2>1, <2>2, AppendOne
  <2>4. Len(senders') <= MaxSenders
    <3>1. Len(senders') = Len(senders) + 1
      BY <2>3
    <3> QED BY <1>1, <1>4, <3>1
  <2>5. sigCount'[p] = 1 /\ \A q \in Peer : q # p => sigCount'[q] = sigCount[q]
    BY <1>0, <2>1
  <2>6. \A q \in Peer : sigCount'[q] > 0 <=> In(senders', q)
    BY <1>0, <2>3, <2>5
  <2> QED BY <2>3, <2>4, <2>5, <2>6 DEF Keyed, Distinct, In
<1> QED BY <1>2, <1>3, <1>4

\* Nobody with an inbound session has candidates waiting for one.
Clear(c, k) == \A p \in Peer : c[p].inst # 0 /\ c[p].dir = "inbound" => k[p] = 0

SignalInv == Keyed /\ (stopped => senders = <<>>) /\ Clear(conn, sigCount)

\* Every step keeps the keys, the candidates and the sessions in agreement.
LEMMA SignalInvNext ==
    ASSUME TypeOK, SignalInv, [Next]_vars PROVE SignalInv'
<1> USE DEF SignalInv
<1>0. conn \in [Peer -> Entry \cup {NoEntry}]
  BY DEF TypeOK
\* p is forgotten, and whatever its entry becomes.
<1>1. ASSUME NEW p \in Peer, ForgetSignals(p), NEW e, conn' = [conn EXCEPT ![p] = e] \/ conn' = conn,
             stopped' = stopped
      PROVE  SignalInv'
  <2>1. /\ Keyed' /\ (senders = <<>> => senders' = <<>>)
        /\ sigCount'[p] = 0 /\ \A q \in Peer : q # p => sigCount'[q] = sigCount[q]
    BY <1>1, ForgetKeyed
  <2>2. Clear(conn', sigCount')
    BY <1>0, <1>1, <2>1 DEF Clear
  <2> QED BY <1>1, <2>1, <2>2
\* Nothing is forgotten, and the entry of p becomes an outbound one or keeps its direction.
<1>2. ASSUME NEW p \in Peer, NEW e, conn' = [conn EXCEPT ![p] = e],
             e.dir = "outbound" \/ (e.dir = conn[p].dir /\ conn[p].inst # 0),
             UNCHANGED <<senders, sigCount, stopped>>
      PROVE  SignalInv'
  <2>1. Clear(conn', sigCount')
    <3> SUFFICES ASSUME NEW q \in Peer, conn'[q].inst # 0, conn'[q].dir = "inbound"
                 PROVE  sigCount[q] = 0
      BY <1>2 DEF Clear
    <3>1. CASE q # p
      BY <1>0, <1>2, <3>1 DEF Clear
    <3>2. CASE q = p
      <4>1. conn'[q] = e
        BY <1>0, <1>2, <3>2
      <4>2. conn[p].dir = "inbound" /\ conn[p].inst # 0
        BY <1>2, <4>1
      <4> QED BY <3>2, <4>2 DEF Clear
    <3> QED BY <3>1, <3>2
  <2> QED BY <1>2, <2>1 DEF Keyed, Distinct, In
<1>3. ASSUME NEW p \in Peer, NEW f, Connect(p, "outbound", f), UNCHANGED <<signals, stopped>>
      PROVE  SignalInv'
  <2>1. NewPeer(p, "outbound", f).dir = "outbound"
    BY DEF NewPeer
  <2> QED BY <1>2, <1>3, <2>1 DEF Connect, signals
<1>4. ASSUME NEW p \in Peer, HandleTrackerPeers(p) PROVE SignalInv'
  BY <1>3, <1>4 DEF HandleTrackerPeers
<1>5. ASSUME NEW p \in Peer, NEW s \in Peer, HandlePexResponse(s, p) PROVE SignalInv'
  BY <1>3, <1>5 DEF HandlePexResponse
<1>6. ASSUME NEW p \in Peer, RelayOffer(p) \/ RelayAnswer(p) PROVE SignalInv'
  <2>1. PICK f : RelayNewSession(p, f)
    BY <1>6 DEF RelayOffer, RelayAnswer
  <2> QED BY <1>1, <2>1 DEF Heard, RelayNewSession, Connect
<1>7. ASSUME NEW p \in Peer, RelayReoffer(p) PROVE SignalInv'
  <2>1. ForgetSignals(p) /\ stopped' = stopped /\ \E e : conn' = [conn EXCEPT ![p] = e]
    BY <1>7 DEF Heard, RelayReoffer
  <2> QED BY <1>1, <2>1
<1>8. ASSUME NEW p \in Peer, NEW st, NEW ver, NEW at, NEW g, p \in Present,
             conn' = [conn EXCEPT ![p] = Amend(conn[p], st, ver, at, g)],
             UNCHANGED <<senders, sigCount, stopped>>
      PROVE  SignalInv'
  <2>1. Amend(conn[p], st, ver, at, g).dir = conn[p].dir /\ conn[p].inst # 0
    BY <1>8 DEF Amend, Present
  <2> QED BY <1>2, <1>8, <2>1
<1>9. ASSUME NEW p \in Peer, OnConnect(p) PROVE SignalInv'
  BY <1>8, <1>9 DEF Negotiated, OnConnect, signals
<1>10. ASSUME UNCHANGED <<conn, senders, sigCount, stopped>> PROVE SignalInv'
  BY <1>10 DEF Keyed, Distinct, In, Clear
<1>11. ASSUME NEW p \in Peer, Remove(p), stopped' = stopped PROVE SignalInv'
  BY <1>1, <1>11 DEF Remove
<1>12. ASSUME NEW p \in Peer, NEW i \in 1..MaxInst,
              OnDisconnect(p, i) \/ ConnectTimeout(p, i) \/ HandshakeTimeout(p, i)
       PROVE  SignalInv'
  <2>1. Remove(p) \/ UNCHANGED <<conn, senders, sigCount>>
    BY <1>12 DEF OnDisconnect, ConnectTimeout, HandshakeTimeout, Disconnect, signals
  <2>2. stopped' = stopped
    BY <1>12 DEF OnDisconnect, ConnectTimeout, HandshakeTimeout
  <2> QED BY <1>10, <1>11, <2>1, <2>2
<1>13. ASSUME NEW p \in Peer, NEW i \in 1..MaxInst, NEW g \in Group, NetGroupResolved(p, i, g)
       PROVE  SignalInv'
  <2>1. UNCHANGED <<senders, sigCount, stopped>>
    BY <1>13 DEF NoteGroup, NetGroupResolved, signals
  <2>2. CASE IsStillCurrent(p, i)
    <3>1. p \in Present
      BY <2>2, BoundAssumption DEF IsStillCurrent, Present
    <3> QED BY <1>8, <1>13, <2>1, <2>2, <3>1 DEF NoteGroup, NetGroupResolved
  <2>3. CASE ~IsStillCurrent(p, i)
    BY <1>10, <1>13, <2>1, <2>3 DEF NoteGroup, NetGroupResolved
  <2> QED BY <2>2, <2>3
<1>14. ASSUME NEW p \in Peer, NEW s \in Presented(p), HandleJoin(p, s) PROVE SignalInv'
  <2>1. stopped' = stopped /\ p \in Present
    BY <1>14 DEF HandleJoin, Open
  <2>2. CASE VerifySignedClaim(p, s)
    BY <1>8, <1>14, <2>1, <2>2 DEF HandleJoin, signals
  <2>3. CASE ~VerifySignedClaim(p, s)
    BY <1>11, <1>14, <2>1, <2>3 DEF HandleJoin, Disconnect
  <2> QED BY <2>2, <2>3
<1>15. ASSUME NEW p \in Peer, UnknownFrame(p) PROVE SignalInv'
  BY <1>11, <1>15 DEF UnknownFrame, Disconnect
<1>16. ASSUME NEW p \in Peer, RelayCandidate(p) PROVE SignalInv'
  <2>1. Keyed' /\ \A q \in Peer : q # p => sigCount'[q] = sigCount[q] \/ sigCount'[q] = 0
    BY <1>16, CandidateKeyed
  <2>2. ~stopped' /\ conn' = conn /\ p \notin Present
    BY <1>16 DEF Heard, RelayCandidate
  <2>3. Clear(conn', sigCount')
    BY <2>1, <2>2 DEF Clear, Present
  <2> QED BY <2>1, <2>2, <2>3
<1>17. ASSUME NEW p \in Peer, \/ ChannelDies(p) \/ HandleHello(p)
                              \/ BanExpires(p) \/ CoolDownExpires(p)
       PROVE  SignalInv'
  BY <1>10, <1>17 DEF ChannelDies, HandleHello, BanExpires, CoolDownExpires, signals
<1>18. CASE RebalanceStep
  <2>1. stopped' = stopped
    BY <1>18 DEF RebalanceStep
  <2>2. UNCHANGED <<conn, senders, sigCount>> \/ \E v \in Victims(Verified, newcomer) : Remove(v)
    BY <1>18 DEF RebalanceStep, Disconnect, signals
  <2>3. \A v \in Victims(Verified, newcomer) : v \in Peer
    BY DEF Victims, VictimPool, Verified, Open, Present
  <2> QED BY <1>10, <1>11, <2>1, <2>2, <2>3
<1>19. CASE RepairTick \/ UNCHANGED vars
  BY <1>10, <1>19 DEF RepairTick, vars, signals
<1>20. CASE Stop
  <2>1. senders' = <<>> /\ (\A p \in Peer : sigCount'[p] = 0) /\ \A p \in Peer : conn'[p] = NoEntry
    BY <1>20 DEF Stop
  <2>2. Len(<<>>) = 0 /\ MaxSenders \in Nat
    BY EmptySeq, BoundAssumption
  <2>3. Keyed'
    BY <2>1, <2>2 DEF Keyed, Distinct, In
  <2> QED BY <2>1, <2>3 DEF Clear
<1> QED BY <1>4, <1>5, <1>6, <1>7, <1>9, <1>12, <1>13, <1>14, <1>15, <1>16, <1>17, <1>18,
           <1>19, <1>20 DEF Next

\* For any peers and limits: pendingSignals has a key for every sender with candidates
\* and for nobody else, never more than MAX_SIGNAL_SENDERS, none of an id whose session
\* the far end opened, and none after stop() (handleRelay, disconnect, stop).
THEOREM SignalsAreBuffered == Spec => []SignalBuffer
<1>1. Init => SignalInv
  <2> SUFFICES ASSUME Init PROVE SignalInv
    OBVIOUS
  <2>1. senders = <<>> /\ (\A p \in Peer : sigCount[p] = 0) /\ \A p \in Peer : conn[p] = NoEntry
    BY DEF Init
  <2>2. Len(<<>>) = 0 /\ MaxSenders \in Nat
    BY EmptySeq, BoundAssumption
  <2> QED BY <2>1, <2>2 DEF SignalInv, Keyed, Distinct, In, Clear, NoEntry
<1>2. TypeOK /\ SignalInv /\ [Next]_vars => SignalInv'
  BY SignalInvNext
<1>3. TypeOK /\ SignalInv => SignalBuffer
  <2> SUFFICES ASSUME TypeOK, SignalInv PROVE SignalBuffer
    OBVIOUS
  <2>1. DOMAIN senders = 1..Len(senders)
    BY LenProperties DEF TypeOK
  <2>2. Keyed /\ (stopped => senders = <<>>) /\ Clear(conn, sigCount)
    BY DEF SignalInv
  <2>3. \A p \in Present : conn[p].dir = "inbound" => sigCount[p] = 0
    BY <2>2 DEF Clear, Present
  <2> QED BY <2>1, <2>2, <2>3 DEF SignalBuffer, Keyed, Distinct, In
<1> QED BY <1>1, <1>2, <1>3, TypeCorrect, PTL DEF Spec
=============================================================================
