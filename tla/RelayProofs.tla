--------------------------- MODULE RelayProofs ----------------------------
(***************************************************************************)
(* Proofs about what is relayed and by whom: Gossip, CacheRelay and        *)
(* CachePeers, each for any value of its constants.                        *)
(***************************************************************************)
EXTENDS Gossip, CacheRelay, CachePeers, FiniteSetTheorems, SequenceTheorems,
        WellFoundedInduction, TLAPS

-----------------------------------------------------------------------------
(* Gossip: packets flooded through the mesh *)

\* What holds of 0 and goes on holds up to n.
LEMMA HoldsUpTo ==
    ASSUME NEW T, NEW n \in Nat, 0 \in T, \A i \in 0..(n - 1) : i \in T => i + 1 \in T
    PROVE  \A i \in 0..n : i \in T
<1> DEFINE U == {i \in 0..n : i \notin T}
<1>1. SUFFICES ASSUME U # {} PROVE FALSE
  OBVIOUS
<1>2. U \subseteq Nat
  OBVIOUS
<1>3. \E x \in U : \A y \in U : ~(<<y, x>> \in OpToRel(<, Nat))
  BY <1>1, <1>2, NatLessThanWellFounded, WFMin
<1>4. PICK x \in U : \A y \in U : ~(y < x)
  BY <1>2, <1>3 DEF OpToRel
<1>5. x \in 1..n /\ x - 1 \in 0..(n - 1) /\ (x - 1) + 1 = x
  OBVIOUS
<1>6. x - 1 \notin U
  BY <1>4, <1>5
<1> QED BY <1>5, <1>6

-----------------------------------------------------------------------------
Entry == [id : Packet, at : Nat]
Once(c) == \A i, j \in 1..Len(c) : c[i].id = c[j].id => i = j

LEMMA HasMeans ==
    ASSUME NEW c \in Seq(Entry), NEW p
    PROVE  Has(c, p) <=> \E i \in 1..Len(c) : c[i].id = p
  BY LenProperties DEF Has

LEMMA AppendHas ==
    ASSUME NEW c \in Seq(Entry), NEW e \in Entry
    PROVE  /\ Append(c, e) \in Seq(Entry) /\ Len(Append(c, e)) = Len(c) + 1
           /\ \A q : Has(Append(c, e), q) <=> Has(c, q) \/ q = e.id
<1> DEFINE d == Append(c, e)
           n == Len(c)
<1>1. /\ d \in Seq(Entry) /\ Len(d) = n + 1 /\ n \in Nat
      /\ \A i \in 1..n : d[i] = c[i]
      /\ d[n + 1] = e
  BY AppendProperties, LenProperties
<1> HIDE DEF d
<1>2. ASSUME NEW q PROVE Has(d, q) <=> Has(c, q) \/ q = e.id
  <2>1. Has(d, q) <=> \E i \in 1..(n + 1) : d[i].id = q
    BY <1>1, HasMeans
  <2>2. Has(c, q) <=> \E i \in 1..n : c[i].id = q
    BY HasMeans
  <2> HIDE DEF n
  <2>3. 1..(n + 1) = 1..n \cup {n + 1}
    BY <1>1
  <2> QED BY <1>1, <2>1, <2>2, <2>3
<1> QED BY <1>1, <1>2 DEF d

\* A cache with another entry holds nothing that neither it held nor was added.
LEMMA AddHolds ==
    ASSUME NEW c \in Seq(Entry), NEW p \in Packet, now \in Nat
    PROVE  Add(c, p) \in Seq(Entry) /\ \A q : Has(Add(c, p), q) => Has(c, q) \/ q = p
<1> DEFINE e == [id |-> p, at |-> now]
           d == Append(c, e)
<1>1. e \in Entry /\ e.id = p
  BY DEF Entry
<1> HIDE DEF e
<1>2. d \in Seq(Entry) /\ Len(d) = Len(c) + 1 /\ \A q : Has(d, q) <=> Has(c, q) \/ q = p
  BY <1>1, AppendHas
<1>3. d # <<>> /\ Len(c) \in Nat
  <2>1. Len(c) \in Nat /\ Len(<<>>) = 0
    BY LenProperties, EmptySeq
  <2>2. Len(d) # 0
    BY <1>2, <2>1
  <2> QED BY <2>1, <2>2
<1> HIDE DEF d
<1>4. /\ Tail(d) \in Seq(Entry) /\ Len(Tail(d)) = Len(d) - 1
      /\ \A i \in 1..Len(Tail(d)) : Tail(d)[i] = d[i + 1]
  BY <1>2, <1>3, HeadTailProperties
<1>5. ASSUME NEW q, Has(Tail(d), q) PROVE Has(d, q)
  <2>1. PICK i \in 1..Len(Tail(d)) : Tail(d)[i].id = q
    BY <1>4, <1>5, HasMeans
  <2>2. i + 1 \in 1..Len(d) /\ d[i + 1].id = q
    BY <1>2, <1>3, <1>4, <2>1
  <2> QED BY <1>2, <2>2, HasMeans
<1>6. Add(c, p) \in {c, d, Tail(d)}
  BY DEF Add, d, e
<1> QED BY <1>2, <1>4, <1>5, <1>6

\* The cleanup takes the first entries, all expired.
LEMMA CleanupIs ==
    ASSUME NEW c \in Seq(Entry)
    PROVE  \E k \in 0..Len(c) : Cleanup(c) = SubSeq(c, k + 1, Len(c)) /\ \A j \in 1..k : Expired(c[j])
<1> DEFINE n == Len(c)
           Stops(i) == /\ \A j \in 1..i : Expired(c[j])
                       /\ i < n => ~Expired(c[i + 1])
<1>0. n \in Nat
  BY LenProperties
<1>1. \E i \in 0..n : Stops(i)
  <2> SUFFICES ASSUME \A i \in 0..n : ~Stops(i) PROVE FALSE
    OBVIOUS
  <2> DEFINE T == {i \in 0..n : \A j \in 1..i : Expired(c[j])}
  <2> HIDE DEF n
  <2>1. 0 \in T
    BY <1>0
  <2>2. ASSUME NEW i \in 0..(n - 1), i \in T PROVE i + 1 \in T
    <3>1. i \in 0..n /\ i < n /\ i + 1 \in 0..n
      BY <1>0
    <3>2. Expired(c[i + 1])
      BY <2>2, <3>1
    <3>3. 1..(i + 1) = 1..i \cup {i + 1}
      OBVIOUS
    <3> QED BY <2>2, <3>1, <3>2, <3>3
  <2>3. \A i \in 0..n : i \in T
    <3> HIDE DEF T
    <3> QED BY <1>0, <2>1, <2>2, HoldsUpTo
  <2>4. Stops(n)
    BY <1>0, <2>3
  <2> QED BY <1>0, <2>4
<1> DEFINE k == CHOOSE i \in 0..n : Stops(i)
<1>2. k \in 0..n /\ Stops(k)
  <2> HIDE DEF n, Stops
  <2> QED BY <1>1
<1>3. Cleanup(c) = SubSeq(c, k + 1, n)
  BY DEF Cleanup
<1> HIDE DEF k
<1> QED BY <1>2, <1>3

LEMMA CleanupHolds ==
    ASSUME NEW c \in Seq(Entry)
    PROVE  /\ Cleanup(c) \in Seq(Entry)
           /\ \A q : Has(Cleanup(c), q) => Has(c, q)
           /\ \A q : Has(c, q) => Has(Cleanup(c), q)
                                  \/ \E i \in 1..Len(c) : c[i].id = q /\ Expired(c[i])
           /\ Once(c) => Once(Cleanup(c))
           /\ \A i \in 1..Len(Cleanup(c)) : \E j \in 1..Len(c) : Cleanup(c)[i] = c[j]
<1> DEFINE n == Len(c)
           r == Cleanup(c)
<1>0. n \in Nat /\ \A i \in 1..n : c[i] \in Entry
  BY LenProperties, ElementOfSeq
<1>1. PICK k \in 0..n : r = SubSeq(c, k + 1, n) /\ \A j \in 1..k : Expired(c[j])
  BY CleanupIs
<1> HIDE DEF r, n
<1>2. r \in Seq(Entry) /\ Len(r) = n - k /\ \A i \in 1..(n - k) : r[i] = c[k + i]
  <2>0. k \in Nat /\ k <= n
    BY <1>0
  <2>1. k + 1 \in Int /\ n \in Int /\ \A i \in (k + 1)..n : c[i] \in Entry
    BY <1>0
  <2>2. /\ r \in Seq(Entry) /\ Len(r) = IF k + 1 <= n THEN n - (k + 1) + 1 ELSE 0
        /\ \A i \in 1..(n - (k + 1) + 1) : r[i] = c[(k + 1) + i - 1]
    BY <1>1, <2>1, SubSeqProperties
  <2>3. n - (k + 1) + 1 = n - k /\ (k + 1 <= n \/ n - k = 0) /\ \A i \in 1..(n - k) : (k + 1) + i - 1 = k + i
    BY <1>0, <2>0
  <2> QED BY <2>2, <2>3
<1>3. \A i \in 1..(n - k) : k + i \in 1..n
  BY <1>0
<1>4. ASSUME NEW q, Has(r, q) PROVE Has(c, q)
  <2>1. PICK i \in 1..(n - k) : r[i].id = q
    BY <1>2, <1>4, HasMeans
  <2>2. k + i \in 1..n /\ c[k + i].id = q
    BY <1>2, <1>3, <2>1
  <2> QED BY <2>2, HasMeans DEF n
<1>5. ASSUME NEW q, Has(c, q)
      PROVE  Has(r, q) \/ \E i \in 1..n : c[i].id = q /\ Expired(c[i])
  <2>1. PICK i \in 1..n : c[i].id = q
    BY <1>5, HasMeans DEF n
  <2>2. CASE i \in 1..k
    BY <1>1, <2>1, <2>2
  <2>3. CASE i \notin 1..k
    <3>1. i - k \in 1..(n - k) /\ k + (i - k) = i
      BY <1>0, <2>3
    <3>2. r[i - k].id = q
      BY <1>2, <2>1, <3>1
    <3> QED BY <1>2, <3>1, <3>2, HasMeans
  <2> QED BY <2>2, <2>3
<1>6. Once(c) => Once(r)
  <2> SUFFICES ASSUME Once(c), NEW i \in 1..(n - k), NEW j \in 1..(n - k), r[i].id = r[j].id
               PROVE  i = j
    BY <1>2 DEF Once
  <2>1. k + i \in 1..n /\ k + j \in 1..n /\ c[k + i].id = c[k + j].id
    BY <1>2, <1>3
  <2>2. k + i = k + j
    BY <2>1 DEF Once, n
  <2> QED BY <2>2
<1>7. \A i \in 1..Len(r) : \E j \in 1..n : r[i] = c[j]
  BY <1>2, <1>3
<1> QED BY <1>2, <1>4, <1>5, <1>6, <1>7 DEF r, n

-----------------------------------------------------------------------------
Copy(m) == m.to \in Node /\ m.pkt \in Packet

GTypes ==
    /\ now \in Nat
    /\ stamp \in [Packet -> Int]
    /\ delivered \in [Node -> Seq(Entry)]
    /\ flooded \in [Node -> Seq(Entry)]
    /\ heard \in [Node -> [Packet -> Nat]]
    /\ relayed \in [Node -> [Packet -> Nat]]
    /\ \A m \in net : Copy(m)

\* What a cache of shown packets holds has been shown.
ShownOf(d, h) == \A p \in Packet : Has(d, p) => h[p] > 0
CachesTell == \A n \in Node : ShownOf(delivered[n], heard[n])

GossipInv == GTypes /\ CachesTell

LEMMA EmptyHas == <<>> \in Seq(Entry) /\ \A q : ~Has(<<>>, q)
<1>1. <<>> \in Seq(Entry) /\ Len(<<>>) = 0
  BY EmptySeq
<1> DEFINE e == <<>>
<1>2. e \in Seq(Entry) /\ Len(e) = 0
  BY <1>1
<1> HIDE DEF e
<1>3. ASSUME NEW q, Has(e, q) PROVE FALSE
  <2>1. PICK i \in 1..Len(e) : e[i].id = q
    BY <1>2, <1>3, HasMeans
  <2> QED BY <1>2, <2>1
<1> QED BY <1>2, <1>3 DEF e

LEMMA AgainPositive == ASSUME GossipAssumption, NEW k \in Nat PROVE Again(k) \in Nat /\ Again(k) > 0
  BY DEF Again, GossipAssumption

LEMMA GossipInvInit == ASSUME Init PROVE GossipInv
<1>1. GTypes
  BY EmptyHas DEF Init, GTypes, NoStamp
<1>2. CachesTell
  BY EmptyHas DEF Init, CachesTell, ShownOf
<1> QED BY <1>1, <1>2 DEF GossipInv

\* A node shows a packet.
LEMMA ShowTells ==
    ASSUME GossipAssumption, GossipInv, NEW n \in Node, NEW p \in Packet, Show(n, p)
    PROVE  /\ delivered' \in [Node -> Seq(Entry)]
           /\ heard' \in [Node -> [Packet -> Nat]]
           /\ CachesTell'
           /\ heard'[n][p] > 0
<1> USE DEF GossipInv
<1>0. now \in Nat /\ delivered[n] \in Seq(Entry) /\ heard[n][p] \in Nat
  BY DEF GTypes
<1>1. Again(heard[n][p]) \in Nat /\ Again(heard[n][p]) > 0
  BY <1>0, AgainPositive
<1>2. /\ Add(delivered[n], p) \in Seq(Entry)
      /\ \A q : Has(Add(delivered[n], p), q) => Has(delivered[n], q) \/ q = p
  BY <1>0, AddHolds
<1> DEFINE d == Add(delivered[n], p)
           a == Again(heard[n][p])
<1> HIDE DEF d, a
<1>3. /\ delivered' = [delivered EXCEPT ![n] = d]
      /\ heard' = [heard EXCEPT ![n][p] = a]
  BY DEF Show, d, a
<1>4. delivered' \in [Node -> Seq(Entry)]
  BY <1>2, <1>3 DEF GTypes, d
<1>5. /\ heard' \in [Node -> [Packet -> Nat]]
      /\ heard'[n][p] = a
      /\ \A q \in Packet \ {p} : heard'[n][q] = heard[n][q]
      /\ \A o \in Node \ {n} : heard'[o] = heard[o] /\ delivered'[o] = delivered[o]
      /\ delivered'[n] = d
  BY <1>1, <1>3 DEF GTypes, a
<1>6. ASSUME NEW o \in Node, NEW q \in Packet, Has(delivered'[o], q) PROVE heard'[o][q] > 0
  <2>1. CASE o # n
    BY <1>5, <1>6, <2>1 DEF CachesTell, ShownOf
  <2>2. CASE o = n /\ q = p
    BY <1>1, <1>5, <2>2 DEF a
  <2>3. CASE o = n /\ q # p
    BY <1>2, <1>5, <1>6, <2>3 DEF CachesTell, ShownOf, d
  <2> QED BY <2>1, <2>2, <2>3
<1>7. CachesTell'
  BY <1>6 DEF CachesTell, ShownOf
<1> QED BY <1>1, <1>4, <1>5, <1>7 DEF a

LEMMA FloodTypes ==
    ASSUME GTypes, NEW n \in Node, NEW m, m.pkt \in Packet
    PROVE  /\ Flood(n, m).cache \in Seq(Entry)
           /\ \A c \in Flood(n, m).out : Copy(c) /\ c.pkt = m.pkt
<1>1. Add(flooded[n], m.pkt) \in Seq(Entry) /\ flooded[n] \in Seq(Entry)
  BY AddHolds DEF GTypes
<1>2. \A o \in Neighbours(n) \ {m.from} : o \in Node
  BY DEF Neighbours
<1> QED BY <1>1, <1>2 DEF Flood, Copy

\* Handling a copy: what it is, in one of three ways.
LEMMA HandleKeeps ==
    ASSUME GossipAssumption, GossipInv, NEW m, Handle(m)
    PROVE  GossipInv'
<1> USE DEF GossipInv
<1> DEFINE n == m.to
           p == m.pkt
           fl == Flood(n, m)
           cache == fl.cache
           out == fl.out
<1>0. n \in Node /\ p \in Packet /\ m \in net
  BY DEF Handle, GTypes, Copy
<1>1. cache \in Seq(Entry) /\ \A c \in out : Copy(c)
  BY <1>0, FloodTypes
<1> HIDE DEF fl
<1>2. CASE ~Valid(m)
  <2>1. UNCHANGED <<delivered, heard, flooded, relayed, now, stamp>> /\ net' = net \ {m}
    BY <1>2 DEF Handle
  <2> QED BY <2>1 DEF GTypes, CachesTell, ShownOf, Copy
<1>3. CASE Valid(m)
  <2>1. /\ Show(n, p) \/ UNCHANGED <<delivered, heard>>
        /\ flooded' = [flooded EXCEPT ![n] = cache]
        /\ net' = (net \ {m}) \cup out
        /\ relayed' = relayed \/ relayed' = [relayed EXCEPT ![n][p] = Again(@)]
        /\ UNCHANGED <<now, stamp>>
    BY <1>3 DEF Handle, fl
  <2>2. /\ delivered' \in [Node -> Seq(Entry)]
        /\ heard' \in [Node -> [Packet -> Nat]]
        /\ CachesTell'
    <3>1. CASE Show(n, p)
      BY <1>0, <3>1, ShowTells
    <3>2. CASE UNCHANGED <<delivered, heard>>
      BY <3>2 DEF GTypes, CachesTell, ShownOf, Has
    <3> QED BY <2>1, <3>1, <3>2
  <2>3. flooded' \in [Node -> Seq(Entry)]
    BY <1>0, <1>1, <2>1 DEF GTypes
  <2>4. relayed' \in [Node -> [Packet -> Nat]]
    <3>1. relayed[n][p] \in Nat
      BY <1>0 DEF GTypes
    <3> DEFINE a == Again(relayed[n][p])
    <3>2. a \in Nat
      BY <3>1, AgainPositive
    <3>3. relayed' = relayed \/ relayed' = [relayed EXCEPT ![n][p] = a]
      BY <2>1
    <3> HIDE DEF a
    <3>4. relayed \in [Node -> [Packet -> Nat]]
      BY DEF GTypes
    <3>5. CASE relayed' = relayed
      BY <3>4, <3>5
    <3>6. CASE relayed' = [relayed EXCEPT ![n][p] = a]
      <4> HIDE DEF n, p
      <4>1. [relayed[n] EXCEPT ![p] = a] \in [Packet -> Nat]
        BY <1>0, <3>2, <3>4
      <4> QED BY <1>0, <3>4, <3>6, <4>1
    <3> QED BY <3>3, <3>5, <3>6
  <2>5. \A c \in net' : Copy(c)
    BY <1>1, <2>1 DEF GTypes
  <2> QED BY <2>1, <2>2, <2>3, <2>4, <2>5 DEF GTypes, Copy
<1> QED BY <1>2, <1>3

LEMMA TimerTypes ==
    ASSUME GTypes, NEW n \in Node, CleanupTimer(n)
    PROVE  delivered' \in [Node -> Seq(Entry)] /\ flooded' \in [Node -> Seq(Entry)]
<1>1. Cleanup(delivered[n]) \in Seq(Entry) /\ Cleanup(flooded[n]) \in Seq(Entry)
  BY CleanupHolds DEF GTypes
<1> QED BY <1>1 DEF CleanupTimer, GTypes

LEMMA GossipInvStep == ASSUME GossipAssumption, GossipInv, [Next]_vars PROVE GossipInv'
<1> USE DEF GossipInv
<1>1. ASSUME NEW n \in Node, NEW p \in Packet, Broadcast(n, p) PROVE GossipInv'
  <2>1. Show(n, p) /\ UNCHANGED <<now, net, flooded, relayed>>
    BY <1>1 DEF Broadcast
  <2>2. stamp' \in [Packet -> Int]
    <3>1. PICK skew \in -Behind..Ahead : stamp' = [stamp EXCEPT ![p] = now + skew]
      BY <1>1 DEF Broadcast
    <3>2. now \in Int /\ -Behind \in Int /\ Ahead \in Int
      BY DEF GTypes, GossipAssumption
    <3>3. now + skew \in Int
      BY <3>2
    <3> QED BY <3>1, <3>3 DEF GTypes
  <2>3. /\ delivered' \in [Node -> Seq(Entry)]
        /\ heard' \in [Node -> [Packet -> Nat]]
        /\ CachesTell'
    BY <2>1, ShowTells
  <2> QED BY <2>1, <2>2, <2>3 DEF GTypes, Copy
<1>2. ASSUME NEW n \in Node, NEW p \in Packet, CircuitEmits(p, n) PROVE GossipInv'
  BY <1>2 DEF CircuitEmits, GTypes, CachesTell, ShownOf, Has, Copy
<1>3. ASSUME NEW n \in Node, NEW p \in Packet, NEW s \in Node, Resend(s, n, p) PROVE GossipInv'
  <2>1. /\ UNCHANGED <<now, stamp, delivered, flooded, heard, relayed>>
    BY <1>3 DEF Resend
  <2>0. PICK at \in {stamp[p], now} :
          net' = net \cup {[kind |-> "gossip", from |-> s, to |-> n, pkt |-> p, at |-> at]}
    BY <1>3 DEF Resend
  <2> DEFINE new == [kind |-> "gossip", from |-> s, to |-> n, pkt |-> p, at |-> at]
  <2>2. Copy(new)
    BY DEF Copy
  <2> HIDE DEF new
  <2>3. \A m \in net' : Copy(m)
    <3>1. net' = net \cup {new}
      BY <2>0 DEF new
    <3> QED BY <2>2, <3>1 DEF GTypes
  <2> QED BY <2>1, <2>3 DEF GTypes, CachesTell, ShownOf, Has
<1>4. ASSUME NEW n \in Node, NEW p \in Packet, Resubscribe(n, p) PROVE GossipInv'
  BY <1>4 DEF Resubscribe, GTypes, CachesTell, ShownOf, Has, Copy
<1>5. ASSUME NEW m \in net, HandleGossip(m) \/ HandleExitFluff(m) PROVE GossipInv'
  <2>1. Handle(m)
    BY <1>5 DEF HandleGossip, HandleExitFluff
  <2> QED BY <2>1, HandleKeeps
<1>6. ASSUME NEW l, LinkDown(l) \/ LinkUp(l) PROVE GossipInv'
  BY <1>6 DEF LinkDown, LinkUp, GTypes, CachesTell, ShownOf, Has, Copy
<1>7. ASSUME NEW n \in Node, CleanupTimer(n) PROVE GossipInv'
  <2>1. delivered' \in [Node -> Seq(Entry)] /\ flooded' \in [Node -> Seq(Entry)]
    BY <1>7, TimerTypes
  <2>2. UNCHANGED <<now, stamp, net, heard, relayed>> /\ delivered' = [delivered EXCEPT ![n] = Cleanup(@)]
    BY <1>7 DEF CleanupTimer
  <2>3. \A q : Has(Cleanup(delivered[n]), q) => Has(delivered[n], q)
    BY CleanupHolds DEF GTypes
  <2>4. ASSUME NEW o \in Node PROVE ShownOf(delivered'[o], heard[o])
    <3>1. CASE o = n
      <4>1. delivered'[o] = Cleanup(delivered[n])
        BY <2>2, <3>1 DEF GTypes
      <4> QED BY <2>3, <3>1, <4>1 DEF CachesTell, ShownOf
    <3>2. CASE o # n
      <4>1. delivered'[o] = delivered[o]
        BY <2>2, <3>2 DEF GTypes
      <4> QED BY <4>1 DEF CachesTell
    <3> QED BY <3>1, <3>2
  <2>5. CachesTell'
    BY <2>2, <2>4 DEF CachesTell, ShownOf
  <2>6. GTypes'
    BY <2>1, <2>2 DEF GTypes, Copy
  <2> QED BY <2>5, <2>6
<1>8. ASSUME Tick PROVE GossipInv'
  <2>1. now' \in Nat
    BY <1>8 DEF Tick, GTypes
  <2>2. UNCHANGED <<stamp, delivered, flooded, heard, relayed, net>>
    BY <1>8 DEF Tick
  <2> QED BY <2>1, <2>2 DEF GTypes, CachesTell, ShownOf, Has, Copy
<1>9. ASSUME UNCHANGED vars PROVE GossipInv'
  BY <1>9 DEF vars, GTypes, CachesTell, ShownOf, Has, Copy
<1> QED BY <1>1, <1>2, <1>3, <1>4, <1>5, <1>6, <1>7, <1>8, <1>9 DEF Next

\* A copy that its node handles leaves the net, and nothing else makes a copy
\* disappear while the connections stay as they are.
LEMMA GossipHandled ==
    ASSUME [Next]_vars, link' = link, NEW m \in net, m \notin net'
    PROVE  Handle(m)
<1>1. ASSUME NEW n \in Node, NEW p \in Packet, Broadcast(n, p) PROVE FALSE
  BY <1>1 DEF Broadcast
<1>2. ASSUME NEW n \in Node, NEW p \in Packet, CircuitEmits(p, n) PROVE FALSE
  BY <1>2 DEF CircuitEmits
<1>3. ASSUME NEW n \in Node, NEW p \in Packet, NEW s \in Node, Resend(s, n, p) PROVE FALSE
  BY <1>3 DEF Resend
<1>4. ASSUME NEW n \in Node, NEW p \in Packet, Resubscribe(n, p) PROVE FALSE
  BY <1>4 DEF Resubscribe
<1>5. ASSUME NEW c \in net, HandleGossip(c) \/ HandleExitFluff(c) PROVE Handle(m)
  <2>1. Handle(c)
    BY <1>5 DEF HandleGossip, HandleExitFluff
  <2>2. \E out : net' = (net \ {c}) \cup out
    <3>1. CASE Valid(c)
      BY <2>1, <3>1 DEF Handle
    <3>2. CASE ~Valid(c)
      <4>1. net' = (net \ {c}) \cup {}
        BY <2>1, <3>2 DEF Handle
      <4> QED BY <4>1
    <3> QED BY <3>1, <3>2
  <2>3. c = m
    BY <2>2
  <2> QED BY <2>1, <2>3
<1>6. ASSUME NEW l, LinkDown(l) PROVE FALSE
  BY <1>6 DEF LinkDown
<1>7. ASSUME NEW l, LinkUp(l) PROVE FALSE
  BY <1>7 DEF LinkUp
<1>8. ASSUME NEW n \in Node, CleanupTimer(n) PROVE FALSE
  BY <1>8 DEF CleanupTimer
<1>9. ASSUME Tick PROVE FALSE
  BY <1>9 DEF Tick
<1>10. ASSUME UNCHANGED vars PROVE FALSE
  BY <1>10 DEF vars
<1> QED BY <1>1, <1>2, <1>3, <1>4, <1>5, <1>6, <1>7, <1>8, <1>9, <1>10 DEF Next

\* A valid copy that is handled while its node is subscribed has been shown to
\* the node's user, now or before: whether an earlier copy was relayed has no
\* part in it (deliverLocal asks its own cache).
THEOREM CopiesAreShown == ASSUME GossipAssumption PROVE Spec => Shown
<1> DEFINE Step == \A m \in net :
         /\ m.kind = "gossip" /\ m \notin net' /\ link' = link
         /\ Valid(m) /\ m.pkt \in sub[m.to]
         => heard'[m.to][m.pkt] > 0
<1>1. Init => GossipInv
  BY GossipInvInit
<1>2. GossipInv /\ [Next]_vars => GossipInv'
  BY GossipInvStep
<1>3. GossipInv /\ [Next]_vars => Step
  <2> SUFFICES ASSUME GossipInv, [Next]_vars, NEW m \in net, m \notin net', link' = link,
                      Valid(m), m.pkt \in sub[m.to]
               PROVE  heard'[m.to][m.pkt] > 0
    OBVIOUS
  <2>1. Handle(m)
    BY GossipHandled
  <2>2. m.to \in Node /\ m.pkt \in Packet
    BY DEF GossipInv, GTypes, Copy
  <2>3. CASE Shows(m.to, m.pkt)
    <3>1. Show(m.to, m.pkt)
      BY <2>1, <2>3 DEF Handle
    <3> QED BY <2>2, <3>1, ShowTells
  <2>4. CASE ~Shows(m.to, m.pkt)
    <3>1. heard' = heard
      BY <2>1, <2>4 DEF Handle
    <3>2. Has(delivered[m.to], m.pkt)
      BY <2>4 DEF Shows
    <3> QED BY <2>2, <3>1, <3>2 DEF GossipInv, CachesTell, ShownOf
  <2> QED BY <2>3, <2>4
<1>4. Init /\ [][Next]_vars => [][Step]_vars
  <2> HIDE DEF Step
  <2> QED BY <1>1, <1>2, <1>3, PTL
<1> QED BY <1>4 DEF Spec, Shown

-----------------------------------------------------------------------------
(* Once: where the caches hold every packet and forget none that may pass *)

Roomy ==
    /\ IsFiniteSet(Packet) /\ Cardinality(Packet) <= MaxSize
    /\ Drift + Ahead <= TTL

\* An entry is never older than its packet, but for the clock of the author.
Dated(c, st) ==
    \A i \in 1..Len(c) : st[c[i].id] # NoStamp /\ st[c[i].id] <= c[i].at + Ahead

\* Done at most once, and then the cache or the time window keeps it from being
\* done again.
Counted(c, k, p, st, t) ==
    /\ k <= 1
    /\ k = 1 => st[p] # NoStamp /\ (Has(c, p) \/ t - st[p] > Drift)

Kept(c, k, st, t) == Once(c) /\ Dated(c, st) /\ \A p \in Packet : Counted(c, k[p], p, st, t)

Stamped == \A p \in Packet : stamp[p] <= now + Ahead
Carried == \A m \in net : stamp[m.pkt] # NoStamp
OnceInv ==
    /\ Stamped
    /\ Carried
    /\ \A n \in Node : /\ Kept(delivered[n], heard[n], stamp, now)
                       /\ Kept(flooded[n], relayed[n], stamp, now)

\* A cache whose entries are of different packets has a place for another one.
LEMMA RoomForMore ==
    ASSUME Roomy, GossipAssumption, now \in Nat, NEW c \in Seq(Entry), Once(c),
           NEW p \in Packet, ~Has(c, p)
    PROVE  /\ Add(c, p) = Append(c, [id |-> p, at |-> now])
           /\ Once(Add(c, p))
<1> DEFINE e == [id |-> p, at |-> now]
           d == Append(c, e)
           n == Len(c)
<1>1. e \in Entry /\ e.id = p
  BY DEF Entry
<1> HIDE DEF e
<1>2. /\ d \in Seq(Entry) /\ Len(d) = n + 1 /\ n \in Nat
      /\ \A i \in 1..n : d[i] = c[i]
      /\ d[n + 1] = e
  BY <1>1, AppendProperties, LenProperties
<1> HIDE DEF d
<1>3. \A i \in 1..n : c[i].id # p
  BY HasMeans
<1>4. \A i, j \in 1..n : c[i].id = c[j].id => i = j
  BY DEF Once
<1> HIDE DEF n
<1>5. ASSUME NEW i \in 1..(n + 1), NEW j \in 1..(n + 1), d[i].id = d[j].id PROVE i = j
  <2>1. CASE i \in 1..n /\ j \in 1..n
    BY <1>2, <1>4, <1>5, <2>1
  <2>2. CASE i = n + 1 /\ j = n + 1
    BY <2>2
  <2>3. CASE i \in 1..n /\ j = n + 1
    BY <1>1, <1>2, <1>3, <1>5, <2>3
  <2>4. CASE i = n + 1 /\ j \in 1..n
    BY <1>1, <1>2, <1>3, <1>5, <2>4
  <2>5. n \in Nat
    BY <1>2
  <2>6. 1..(n + 1) = 1..n \cup {n + 1}
    BY <2>5
  <2> QED BY <2>1, <2>2, <2>3, <2>4, <2>6
<1>6. n + 1 <= MaxSize
  <2> DEFINE f == [i \in 1..(n + 1) |-> d[i].id]
             S == 1..(n + 1)
  <2>1. \A i \in S : d[i] \in Entry
    BY <1>2, ElementOfSeq
  <2>2. f \in Injection(S, Packet)
    <3>1. \A i \in S : d[i].id \in Packet
      BY <2>1 DEF Entry
    <3>2. \A i, j \in S : d[i].id = d[j].id => i = j
      BY <1>5
    <3>3. f \in [S -> Packet]
      BY <3>1
    <3>4. \A i, j \in S : f[i] = f[j] => i = j
      BY <3>2
    <3> QED BY <3>3, <3>4 DEF Injection, IsInjective
  <2>3. IsFiniteSet(S) /\ Cardinality(S) = n + 1
    <3>1. 1 \in Int /\ n + 1 \in Int /\ 1 <= n + 1 /\ (n + 1) - 1 + 1 = n + 1
      BY <1>2
    <3> QED BY <3>1, FS_Interval
  <2> HIDE DEF S, f
  <2>4. Cardinality(S) <= Cardinality(Packet)
    BY <2>2, <2>3, FS_Injection DEF Roomy
  <2>5. Cardinality(Packet) \in Nat /\ MaxSize \in Nat
    BY FS_CardinalityType DEF Roomy, GossipAssumption
  <2> QED BY <1>2, <2>3, <2>4, <2>5 DEF Roomy
<1>7. MaxSize \in Nat
  BY DEF GossipAssumption
<1>8. Add(c, p) = d
  <2>1. ~(Len(d) > MaxSize)
    BY <1>2, <1>6, <1>7
  <2> QED BY <2>1 DEF Add, d, e
<1>9. Once(d)
  BY <1>2, <1>5 DEF Once
<1> QED BY <1>8, <1>9 DEF d, e

\* The entry is added for what has not been done, and then it has been once.
LEMMA AddKeeps ==
    ASSUME Roomy, GossipAssumption, now \in Nat, NEW c \in Seq(Entry),
           NEW st \in [Packet -> Int], NEW k \in [Packet -> Nat], NEW p \in Packet,
           Kept(c, k, st, now), ~Has(c, p), k[p] = 0,
           st[p] # NoStamp, st[p] <= now + Ahead
    PROVE  Kept(Add(c, p), [k EXCEPT ![p] = Again(@)], st, now)
<1> DEFINE e == [id |-> p, at |-> now]
           d == Append(c, e)
<1>1. e \in Entry /\ e.id = p /\ e.at = now
  BY DEF Entry
<1>2. Add(c, p) = d /\ Once(d)
  BY RoomForMore DEF Kept
<1> HIDE DEF e
<1>3. /\ d \in Seq(Entry) /\ Len(d) = Len(c) + 1 /\ Len(c) \in Nat
      /\ \A i \in 1..Len(c) : d[i] = c[i]
      /\ d[Len(c) + 1] = e
  BY <1>1, AppendProperties, LenProperties
<1>4. \A q : Has(d, q) <=> Has(c, q) \/ q = p
  BY <1>1, AppendHas
<1> HIDE DEF d
<1>5. Dated(d, st)
  <2> SUFFICES ASSUME NEW i \in 1..Len(d)
               PROVE  st[d[i].id] # NoStamp /\ st[d[i].id] <= d[i].at + Ahead
    BY DEF Dated
  <2>1. CASE i \in 1..Len(c)
    BY <1>3, <2>1 DEF Kept, Dated
  <2>2. CASE i = Len(c) + 1
    BY <1>1, <1>3, <2>2
  <2> DEFINE n == Len(c)
  <2>3. n \in Nat /\ Len(d) = n + 1
    BY <1>3
  <2> HIDE DEF n
  <2>4. i \in 1..n \/ i = n + 1
    BY <2>3
  <2> QED BY <2>1, <2>2, <2>4 DEF n
<1> DEFINE h == [k EXCEPT ![p] = Again(@)]
<1>6. h[p] = 1 /\ \A q \in Packet \ {p} : h[q] = k[q]
  <2>1. Again(0) = 1
    BY DEF Again, GossipAssumption
  <2> QED BY <2>1
<1> HIDE DEF h
<1>7. \A q \in Packet : Counted(d, h[q], q, st, now)
  <2> TAKE q \in Packet
  <2>1. CASE q = p
    <3>1. Has(d, p) /\ h[p] = 1
      BY <1>4, <1>6
    <3> QED BY <2>1, <3>1 DEF Counted
  <2>2. CASE q # p
    BY <1>4, <1>6, <2>2 DEF Counted, Kept
  <2> QED BY <2>1, <2>2
<1> QED BY <1>2, <1>5, <1>7 DEF Kept, h

\* What the cleanup takes, the time window refuses.
LEMMA CleanupKeeps ==
    ASSUME Roomy, GossipAssumption, now \in Nat, NEW c \in Seq(Entry),
           NEW st \in [Packet -> Int], NEW k \in [Packet -> Nat], Kept(c, k, st, now)
    PROVE  Kept(Cleanup(c), k, st, now)
<1> DEFINE r == Cleanup(c)
<1>1. /\ r \in Seq(Entry)
      /\ \A q : Has(c, q) => Has(r, q) \/ \E i \in 1..Len(c) : c[i].id = q /\ Expired(c[i])
      /\ Once(c) => Once(r)
      /\ \A i \in 1..Len(r) : \E j \in 1..Len(c) : r[i] = c[j]
  BY CleanupHolds
<1> HIDE DEF r
<1>2. Dated(r, st)
  <2> SUFFICES ASSUME NEW i \in 1..Len(r)
               PROVE  st[r[i].id] # NoStamp /\ st[r[i].id] <= r[i].at + Ahead
    BY DEF Dated
  <2>1. PICK j \in 1..Len(c) : r[i] = c[j]
    BY <1>1
  <2>2. st[c[j].id] # NoStamp /\ st[c[j].id] <= c[j].at + Ahead
    BY DEF Kept, Dated
  <2> QED BY <2>1, <2>2
<1>3. ASSUME NEW q \in Packet PROVE Counted(r, k[q], q, st, now)
  <2>1. ASSUME NEW i \in 1..Len(c), c[i].id = q, Expired(c[i]) PROVE now - st[q] > Drift
    <3>0. c[i] \in Entry
      BY ElementOfSeq
    <3>1. c[i].at \in Nat /\ st[q] \in Int
      BY <3>0 DEF Entry
    <3>2. now - c[i].at > TTL
      BY <2>1 DEF Expired
    <3>3. st[q] <= c[i].at + Ahead
      BY <2>1 DEF Kept, Dated
    <3>4. TTL \in Nat /\ Drift \in Nat /\ Ahead \in Nat /\ Drift + Ahead <= TTL
      BY DEF GossipAssumption, Roomy
    <3> DEFINE a == c[i].at
               s == st[q]
    <3> HIDE DEF a, s
    <3>5. a \in Nat /\ s \in Int /\ now - a > TTL /\ s <= a + Ahead
      BY <3>1, <3>2, <3>3 DEF a, s
    <3>6. now - s > Drift
      BY <3>4, <3>5
    <3> QED BY <3>6 DEF s
  <2>2. Counted(c, k[q], q, st, now)
    BY DEF Kept
  <2> QED BY <1>1, <2>1, <2>2 DEF Counted
<1> QED BY <1>1, <1>2, <1>3 DEF Kept, r

\* As time passes, nothing that was refused is let through again.
LEMMA LaterKeeps ==
    ASSUME GossipAssumption, now \in Nat, NEW c, NEW st \in [Packet -> Int], NEW k,
           Kept(c, k, st, now)
    PROVE  Kept(c, k, st, now + 1)
<1> SUFFICES ASSUME NEW p \in Packet PROVE Counted(c, k[p], p, st, now + 1)
  BY DEF Kept
<1>1. Counted(c, k[p], p, st, now)
  BY DEF Kept
<1>2. ASSUME now - st[p] > Drift PROVE now + 1 - st[p] > Drift
  <2> DEFINE x == st[p]
  <2>1. x \in Int
    OBVIOUS
  <2>2. now - x > Drift
    BY <1>2
  <2> HIDE DEF x
  <2>3. Drift \in Nat
    BY DEF GossipAssumption
  <2>4. now + 1 - x > Drift
    BY <2>1, <2>2, <2>3
  <2> QED BY <2>4 DEF x
<1> QED BY <1>1, <1>2 DEF Counted

\* Another packet is given its timestamp.
LEMMA StampKeeps ==
    ASSUME NEW c \in Seq(Entry), NEW st \in [Packet -> Int], NEW k, NEW p \in Packet, NEW x,
           st[p] = NoStamp, Kept(c, k, st, now)
    PROVE  Kept(c, k, [st EXCEPT ![p] = x], now)
<1> DEFINE s == [st EXCEPT ![p] = x]
<1>1. \A q \in Packet : st[q] # NoStamp => s[q] = st[q]
  OBVIOUS
<1> HIDE DEF s
<1>2. ASSUME NEW i \in 1..Len(c) PROVE s[c[i].id] # NoStamp /\ s[c[i].id] <= c[i].at + Ahead
  <2>0. c[i] \in Entry
    BY ElementOfSeq
  <2>1. c[i].id \in Packet
    BY <2>0 DEF Entry
  <2>2. st[c[i].id] # NoStamp /\ st[c[i].id] <= c[i].at + Ahead
    BY DEF Kept, Dated
  <2> QED BY <1>1, <2>1, <2>2
<1>3. ASSUME NEW q \in Packet PROVE Counted(c, k[q], q, s, now)
  <2>1. Counted(c, k[q], q, st, now)
    BY DEF Kept
  <2> QED BY <1>1, <2>1 DEF Counted
<1> QED BY <1>2, <1>3 DEF Kept, Dated, s

LEMMA OnceInvInit == ASSUME Init, GossipAssumption PROVE OnceInv
<1>1. <<>> \in Seq(Entry) /\ Len(<<>>) = 0
  BY EmptySeq
<1>2. Stamped
  <2>1. \A p \in Packet : stamp[p] = -1 /\ now = 0
    BY DEF Init, NoStamp
  <2>2. Ahead \in Nat
    BY DEF GossipAssumption
  <2> QED BY <2>1, <2>2 DEF Stamped
<1>3. Carried
  BY DEF Init, Carried
<1>4. Once(<<>>) /\ Dated(<<>>, stamp)
  BY <1>1 DEF Once, Dated
<1>5. \A n \in Node : /\ delivered[n] = <<>> /\ flooded[n] = <<>>
                      /\ \A p \in Packet : heard[n][p] = 0 /\ relayed[n][p] = 0
  BY DEF Init
<1>6. \A n \in Node : Kept(delivered[n], heard[n], stamp, now) /\ Kept(flooded[n], relayed[n], stamp, now)
  BY <1>4, <1>5 DEF Kept, Counted
<1> QED BY <1>2, <1>3, <1>6 DEF OnceInv

\* One node shows what it has not shown.
LEMMA ShowKeeps ==
    ASSUME Roomy, GossipAssumption, GTypes, NEW n \in Node, NEW p \in Packet, Show(n, p),
           NEW st \in [Packet -> Int], st[p] # NoStamp, st[p] <= now + Ahead,
           ~Has(delivered[n], p), heard[n][p] = 0,
           \A o \in Node : Kept(delivered[o], heard[o], st, now)
    PROVE  \A o \in Node : Kept(delivered'[o], heard'[o], st, now)
<1>1. delivered[n] \in Seq(Entry) /\ heard[n] \in [Packet -> Nat] /\ now \in Nat
  BY DEF GTypes
<1>2. Kept(Add(delivered[n], p), [heard[n] EXCEPT ![p] = Again(@)], st, now)
  BY <1>1, AddKeeps
<1>3. /\ delivered'[n] = Add(delivered[n], p)
      /\ heard'[n] = [heard[n] EXCEPT ![p] = Again(@)]
      /\ \A o \in Node \ {n} : delivered'[o] = delivered[o] /\ heard'[o] = heard[o]
  BY DEF Show, GTypes
<1> TAKE o \in Node
<1>4. CASE o = n
  BY <1>2, <1>3, <1>4
<1>5. CASE o # n
  BY <1>3, <1>5
<1> QED BY <1>4, <1>5

\* The author shows its own packet: it is new, so no cache holds it.
LEMMA BroadcastKeeps ==
    ASSUME Roomy, GossipAssumption, GTypes, OnceInv, NEW n \in Node, NEW p \in Packet, Broadcast(n, p)
    PROVE  OnceInv'
<1>1. PICK skew \in -Behind..Ahead : now + skew >= 0 /\ stamp' = [stamp EXCEPT ![p] = now + skew]
  BY DEF Broadcast
<1>2. now \in Nat /\ Behind \in Nat /\ Ahead \in Nat /\ stamp \in [Packet -> Int]
  BY DEF GTypes, GossipAssumption
<1> DEFINE x == now + skew
<1>3. x \in Int /\ x >= 0 /\ x <= now + Ahead /\ x # NoStamp
  BY <1>1, <1>2 DEF NoStamp
<1> HIDE DEF x
<1>4. stamp' = [stamp EXCEPT ![p] = x] /\ stamp[p] = NoStamp
  BY <1>1 DEF x, Broadcast
<1>5. stamp' \in [Packet -> Int] /\ stamp'[p] = x /\ \A q \in Packet : stamp[q] # NoStamp => stamp'[q] = stamp[q]
  BY <1>2, <1>3, <1>4
<1>6. /\ UNCHANGED <<now, net, flooded, relayed>>
      /\ Show(n, p)
  BY DEF Broadcast
<1>7. \A o \in Node : /\ Kept(delivered[o], heard[o], stamp', now)
                      /\ Kept(flooded[o], relayed[o], stamp', now)
  <2> TAKE o \in Node
  <2>1. delivered[o] \in Seq(Entry) /\ flooded[o] \in Seq(Entry)
    BY DEF GTypes
  <2>2. Kept(delivered[o], heard[o], stamp, now) /\ Kept(flooded[o], relayed[o], stamp, now)
    BY DEF OnceInv
  <2> QED BY <1>2, <1>4, <2>1, <2>2, StampKeeps
<1>8. ~Has(delivered[n], p) /\ heard[n][p] = 0
  <2>1. delivered[n] \in Seq(Entry) /\ heard[n][p] \in Nat
    BY DEF GTypes
  <2>2. Kept(delivered[n], heard[n], stamp, now)
    BY DEF OnceInv
  <2>3. ~Has(delivered[n], p)
    <3>1. \A i \in 1..Len(delivered[n]) : stamp[delivered[n][i].id] # NoStamp
      BY <2>2 DEF Kept, Dated
    <3>2. Has(delivered[n], p) => \E i \in 1..Len(delivered[n]) : delivered[n][i].id = p
      BY <2>1, HasMeans
    <3> QED BY <1>4, <3>1, <3>2
  <2>4. Counted(delivered[n], heard[n][p], p, stamp, now)
    BY <2>2 DEF Kept
  <2>5. heard[n][p] <= 1 /\ heard[n][p] # 1
    BY <1>4, <2>4 DEF Counted
  <2>6. heard[n][p] \in Nat
    BY DEF GTypes
  <2>7. heard[n][p] = 0
    BY <2>5, <2>6
  <2> QED BY <2>3, <2>7
<1>9. \A o \in Node : Kept(delivered'[o], heard'[o], stamp', now)
  BY <1>3, <1>5, <1>6, <1>7, <1>8, ShowKeeps
<1>10. Stamped'
  <2> SUFFICES ASSUME NEW q \in Packet PROVE stamp'[q] <= now + Ahead
    BY <1>6 DEF Stamped
  <2>1. CASE q = p
    BY <1>3, <1>5, <2>1
  <2>2. CASE q # p
    BY <1>4, <2>2 DEF OnceInv, Stamped
  <2> QED BY <2>1, <2>2
<1>11. Carried'
  BY <1>5, <1>6 DEF OnceInv, Carried, GTypes, Copy
<1> QED BY <1>6, <1>7, <1>9, <1>10, <1>11 DEF OnceInv

\* A copy that is shown or relayed is within its time window, so it is the first.
LEMMA FirstCopy ==
    ASSUME GossipAssumption, GTypes, NEW p \in Packet, NEW m, m.pkt = p, Valid(m),
           NEW c, NEW k \in Nat, Counted(c, k, p, stamp, now), ~Has(c, p)
    PROVE  k = 0
<1>0. m.at = stamp[p]
  <2>1. p \in DerivePacketId(PowPreimage(m))
    BY DEF Valid
  <2>2. Original(p) = PowPreimage(m)
    BY <2>1 DEF DerivePacketId
  <2> QED BY <2>2 DEF Original, PowPreimage
<1>1. now - stamp[p] <= Drift /\ now \in Int /\ stamp[p] \in Int /\ Drift \in Nat
  BY <1>0 DEF Valid, InWindow, GTypes, GossipAssumption
<1> DEFINE s == stamp[p]
<1> HIDE DEF s
<1>2. k <= 1 /\ (k = 1 => now - s > Drift)
  BY DEF Counted, s
<1>3. now - s <= Drift /\ now \in Int /\ s \in Int /\ Drift \in Nat
  BY <1>1 DEF s
<1> QED BY <1>2, <1>3

LEMMA HandleOnce ==
    ASSUME Roomy, GossipAssumption, GTypes, OnceInv, NEW m, Handle(m)
    PROVE  OnceInv'
<1> DEFINE n == m.to
           p == m.pkt
           fl == Flood(n, m)
<1>0. n \in Node /\ p \in Packet /\ m \in net /\ stamp[p] # NoStamp /\ stamp[p] <= now + Ahead
  BY DEF Handle, GTypes, Copy, OnceInv, Carried, Stamped
<1>1. UNCHANGED <<now, stamp>>
  BY DEF Handle
<1>2. Stamped'
  BY <1>1 DEF OnceInv, Stamped
<1>3. CASE ~Valid(m)
  <2>1. UNCHANGED <<delivered, heard, flooded, relayed>> /\ net' \subseteq net
    BY <1>3 DEF Handle
  <2>2. Carried'
    BY <1>1, <2>1 DEF OnceInv, Carried
  <2> QED BY <1>1, <1>2, <2>1, <2>2 DEF OnceInv
<1>4. CASE Valid(m)
  <2>1. Carried'
    <3>1. net' = (net \ {m}) \cup fl.out
      BY <1>4 DEF Handle
    <3>2. \A c \in fl.out : c.pkt = p
      BY <1>0, FloodTypes
    <3> QED BY <1>0, <1>1, <3>1, <3>2 DEF OnceInv, Carried
  <2>2. /\ delivered[n] \in Seq(Entry) /\ flooded[n] \in Seq(Entry)
        /\ heard[n] \in [Packet -> Nat] /\ relayed[n] \in [Packet -> Nat]
        /\ now \in Nat /\ stamp \in [Packet -> Int]
    BY <1>0 DEF GTypes
  <2>3. \A o \in Node : Kept(delivered[o], heard[o], stamp, now) /\ Kept(flooded[o], relayed[o], stamp, now)
    BY DEF OnceInv
  <2>4. \A o \in Node : Kept(delivered'[o], heard'[o], stamp, now)
    <3>1. CASE Shows(n, p)
      <4>1. Show(n, p) /\ ~Has(delivered[n], p)
        BY <1>4, <3>1 DEF Handle, Shows
      <4>2. Counted(delivered[n], heard[n][p], p, stamp, now) /\ heard[n][p] \in Nat
        BY <1>0, <2>2, <2>3 DEF Kept
      <4>3. heard[n][p] = 0
        BY <1>0, <1>4, <4>1, <4>2, FirstCopy
      <4> QED BY <1>0, <2>2, <2>3, <4>1, <4>3, ShowKeeps
    <3>2. CASE ~Shows(n, p)
      <4>1. UNCHANGED <<delivered, heard>>
        BY <1>4, <3>2 DEF Handle
      <4> QED BY <2>3, <4>1
    <3> QED BY <3>1, <3>2
  <2>5. \A o \in Node : Kept(flooded'[o], relayed'[o], stamp, now)
    <3>1. CASE Has(flooded[n], p)
      <4>1. flooded' = [flooded EXCEPT ![n] = flooded[n]] /\ relayed' = relayed
        BY <1>4, <3>1 DEF Handle, Flood
      <4>2. flooded' = flooded
        BY <4>1 DEF GTypes
      <4> QED BY <2>3, <4>1, <4>2
    <3>2. CASE ~Has(flooded[n], p)
      <4>1. /\ flooded' = [flooded EXCEPT ![n] = Add(flooded[n], p)]
            /\ relayed' = [relayed EXCEPT ![n][p] = Again(@)]
        BY <1>4, <3>2 DEF Handle, Flood
      <4>2. Counted(flooded[n], relayed[n][p], p, stamp, now) /\ relayed[n][p] \in Nat
        BY <1>0, <2>2, <2>3 DEF Kept
      <4>3. relayed[n][p] = 0
        BY <1>0, <1>4, <3>2, <4>2, FirstCopy
      <4>4. Kept(Add(flooded[n], p), [relayed[n] EXCEPT ![p] = Again(@)], stamp, now)
        BY <1>0, <2>2, <2>3, <3>2, <4>3, AddKeeps
      <4>5. /\ flooded'[n] = Add(flooded[n], p)
            /\ relayed'[n] = [relayed[n] EXCEPT ![p] = Again(@)]
            /\ \A o \in Node \ {n} : flooded'[o] = flooded[o] /\ relayed'[o] = relayed[o]
        BY <1>0, <4>1 DEF GTypes
      <4> TAKE o \in Node
      <4>6. CASE o = n
        BY <4>4, <4>5, <4>6
      <4>7. CASE o # n
        BY <2>3, <4>5, <4>7
      <4> QED BY <4>6, <4>7
    <3> QED BY <3>1, <3>2
  <2> QED BY <1>1, <1>2, <2>1, <2>4, <2>5 DEF OnceInv
<1> QED BY <1>3, <1>4

LEMMA TimerOnce ==
    ASSUME Roomy, GossipAssumption, GTypes, OnceInv, NEW n \in Node, CleanupTimer(n)
    PROVE  OnceInv'
<1>1. /\ UNCHANGED <<now, stamp, net, heard, relayed>>
      /\ delivered' = [delivered EXCEPT ![n] = Cleanup(@)]
      /\ flooded' = [flooded EXCEPT ![n] = Cleanup(@)]
  BY DEF CleanupTimer
<1>2. ASSUME NEW o \in Node
      PROVE  Kept(delivered'[o], heard[o], stamp, now) /\ Kept(flooded'[o], relayed[o], stamp, now)
  <2>1. /\ delivered[o] \in Seq(Entry) /\ flooded[o] \in Seq(Entry)
        /\ heard[o] \in [Packet -> Nat] /\ relayed[o] \in [Packet -> Nat]
        /\ now \in Nat /\ stamp \in [Packet -> Int]
    BY DEF GTypes
  <2>2. Kept(delivered[o], heard[o], stamp, now) /\ Kept(flooded[o], relayed[o], stamp, now)
    BY DEF OnceInv
  <2>3. CASE o # n
    <3>1. delivered'[o] = delivered[o] /\ flooded'[o] = flooded[o]
      BY <1>1, <2>3 DEF GTypes
    <3> QED BY <2>2, <3>1
  <2>4. CASE o = n
    <3>1. delivered'[o] = Cleanup(delivered[o]) /\ flooded'[o] = Cleanup(flooded[o])
      BY <1>1, <2>4 DEF GTypes
    <3>2. Kept(Cleanup(delivered[o]), heard[o], stamp, now) /\ Kept(Cleanup(flooded[o]), relayed[o], stamp, now)
      BY <2>1, <2>2, CleanupKeeps
    <3> QED BY <3>1, <3>2
  <2> QED BY <2>3, <2>4
<1> QED BY <1>1, <1>2 DEF OnceInv, Stamped, Carried

\* A step that leaves the caches and the histories alone and sends nothing new.
LEMMA QuietOnce ==
    ASSUME OnceInv, UNCHANGED <<now, stamp, delivered, flooded, heard, relayed>>,
           \A m \in net' : m \in net \/ stamp[m.pkt] # NoStamp
    PROVE  OnceInv'
<1>1. Stamped' /\ Carried'
  BY DEF OnceInv, Stamped, Carried
<1>2. \A n \in Node : /\ Kept(delivered'[n], heard'[n], stamp', now')
                      /\ Kept(flooded'[n], relayed'[n], stamp', now')
  BY DEF OnceInv
<1> QED BY <1>1, <1>2 DEF OnceInv

LEMMA OnceInvStep == ASSUME Roomy, GossipAssumption, GTypes, OnceInv, [Next]_vars PROVE OnceInv'
<1>1. ASSUME NEW n \in Node, NEW p \in Packet, Broadcast(n, p) PROVE OnceInv'
  BY <1>1, BroadcastKeeps
<1>2. ASSUME NEW n \in Node, NEW p \in Packet, CircuitEmits(p, n) PROVE OnceInv'
  <2>1. /\ UNCHANGED <<now, stamp, delivered, flooded, heard, relayed>>
        /\ stamp[p] # NoStamp
        /\ \A m \in net' : m \in net \/ m.pkt = p
    BY <1>2 DEF CircuitEmits
  <2> QED BY <2>1, QuietOnce
<1>3. ASSUME NEW n \in Node, NEW p \in Packet, NEW s \in Node, Resend(s, n, p) PROVE OnceInv'
  <2>1. /\ UNCHANGED <<now, stamp, delivered, flooded, heard, relayed>>
        /\ relayed[n][p] > 0
        /\ \A m \in net' : m \in net \/ m.pkt = p
    BY <1>3 DEF Resend
  <2>2. stamp[p] # NoStamp
    <3>1. Counted(flooded[n], relayed[n][p], p, stamp, now) /\ relayed[n][p] \in Nat
      BY DEF OnceInv, Kept, GTypes
    <3>2. relayed[n][p] = 1
      BY <2>1, <3>1 DEF Counted
    <3> QED BY <3>1, <3>2 DEF Counted
  <2> QED BY <2>1, <2>2, QuietOnce
<1>4. ASSUME NEW n \in Node, NEW p \in Packet, Resubscribe(n, p) PROVE OnceInv'
  BY <1>4, QuietOnce DEF Resubscribe
<1>5. ASSUME NEW m \in net, HandleGossip(m) \/ HandleExitFluff(m) PROVE OnceInv'
  <2>1. Handle(m)
    BY <1>5 DEF HandleGossip, HandleExitFluff
  <2> QED BY <2>1, HandleOnce
<1>6. ASSUME NEW l, LinkDown(l) \/ LinkUp(l) PROVE OnceInv'
  <2>1. UNCHANGED <<now, stamp, delivered, flooded, heard, relayed>> /\ net' \subseteq net
    BY <1>6 DEF LinkDown, LinkUp
  <2> QED BY <2>1, QuietOnce
<1>7. ASSUME NEW n \in Node, CleanupTimer(n) PROVE OnceInv'
  BY <1>7, TimerOnce
<1>8. ASSUME Tick PROVE OnceInv'
  <2>1. now' = now + 1 /\ UNCHANGED <<stamp, delivered, flooded, heard, relayed, net>>
    BY <1>8 DEF Tick
  <2>2. Carried' /\ Stamped'
    <3>1. Carried'
      BY <2>1 DEF OnceInv, Carried
    <3>2. \A p \in Packet : stamp[p] <= now + Ahead /\ stamp[p] \in Int /\ now \in Nat /\ Ahead \in Nat
      BY DEF OnceInv, Stamped, GTypes, GossipAssumption
    <3> QED BY <2>1, <3>1, <3>2 DEF Stamped
  <2>3. ASSUME NEW n \in Node
        PROVE  Kept(delivered[n], heard[n], stamp, now + 1) /\ Kept(flooded[n], relayed[n], stamp, now + 1)
    <3>1. Kept(delivered[n], heard[n], stamp, now) /\ Kept(flooded[n], relayed[n], stamp, now)
      BY DEF OnceInv
    <3>2. now \in Nat /\ stamp \in [Packet -> Int]
      BY DEF GTypes
    <3> QED BY <3>1, <3>2, LaterKeeps
  <2> QED BY <2>1, <2>2, <2>3 DEF OnceInv
<1>9. ASSUME UNCHANGED vars PROVE OnceInv'
  BY <1>9, QuietOnce DEF vars
<1> QED BY <1>1, <1>2, <1>3, <1>4, <1>5, <1>6, <1>7, <1>8, <1>9 DEF Next

\* However often neighbours, retries and late copies bring a packet, a node
\* relays it once and shows it once, as long as the caches are large enough for
\* the packets there are and the time window, with what an author's clock may
\* run ahead, is no longer than the caches remember (SeenCache, PacketValidator).
THEOREM PacketsPassOnce ==
    ASSUME GossipAssumption, IsFiniteSet(Packet), Cardinality(Packet) <= MaxSize,
           Drift + Ahead <= TTL
    PROVE  Spec => []OnlyOnce
<1>0. Roomy
  BY DEF Roomy
<1>1. Init => GTypes /\ GossipInv /\ OnceInv
  BY GossipInvInit, OnceInvInit DEF GossipInv
<1>2. GossipInv /\ OnceInv /\ [Next]_vars => GossipInv' /\ OnceInv'
  BY <1>0, GossipInvStep, OnceInvStep DEF GossipInv
<1>3. OnceInv => OnlyOnce
  BY DEF OnceInv, Kept, Counted, OnlyOnce
<1> QED BY <1>1, <1>2, <1>3, PTL DEF Spec

-----------------------------------------------------------------------------
(* CacheRelay: what the cache node passes on and stores *)

Id == CachePacket \cup Mark
CacheName == {"flooded", "delivered", "hint"}

Listed(s, x) == \E i \in 1..Len(s) : s[i] = x

\* A SeenCache within its size, of which every id can be evicted.
Evictable(k) ==
    /\ k = [at |-> k.at, order |-> k.order]
    /\ k.order \in Seq(Id) /\ Len(k.order) <= MaxSeen
    /\ \A x \in DOMAIN k.at : Listed(k.order, x)

Handing(g) == [is |-> "packet", key |-> g, put |-> {g}]
Letter == [is : {"put"}, key : Key, put : Batch] \cup {Handing(g) : g \in CachePacket}

\* A packet that is stored, waits to be, or was and is past its day, or could not be.
Handed(g) == g \in swept \cup unkept \/ Archive(g) # {} \/ Listed(mailbox, Handing(g))

CacheTypes ==
    /\ DOMAIN seen = CacheName /\ seen \in [CacheName -> {seen[c] : c \in CacheName}]
    /\ \A c \in CacheName : Evictable(seen[c])
    /\ mailbox \in Seq(Letter)
    /\ IsFiniteSet(entries) /\ row_id \in Nat
    /\ \A r \in entries : r.id \in Nat /\ r.id <= row_id

\* What was broadcast or counts as delivered has been handed over.
HandedOver ==
    /\ \A g \in CachePacket : <<"packet", g>> \in rebroadcast => Handed(g)
    /\ \A g \in CachePacket : g \in DOMAIN seen["delivered"].at => Handed(g)

\* What a PUT stored was within the limits it had read.
Filled(r) == {q \in Upto(r) : q.key = r.key}
Opened(r) == {q.key : q \in Upto(r)}
TopicsBounded ==
    \A r \in entries : /\ "room" \in r.by => Cardinality(Filled(r)) <= PerTopic
                       /\ "topics" \in r.by => Cardinality(Opened(r)) <= MaxKeys

CacheInv == CacheTypes /\ HandedOver /\ TopicsBounded

-----------------------------------------------------------------------------
\* Appending adds one element to those listed.
LEMMA ListedAppend ==
    ASSUME NEW S, NEW s \in Seq(S), NEW y \in S
    PROVE  /\ Append(s, y) \in Seq(S) /\ Len(Append(s, y)) = Len(s) + 1 /\ Len(s) \in Nat
           /\ \A x : Listed(Append(s, y), x) <=> Listed(s, x) \/ x = y
<1> DEFINE d == Append(s, y)
           n == Len(s)
<1>1. /\ d \in Seq(S) /\ Len(d) = n + 1 /\ n \in Nat
      /\ \A i \in 1..n : d[i] = s[i]
      /\ d[n + 1] = y
  BY AppendProperties, LenProperties
<1>2. \A x : Listed(s, x) <=> \E i \in 1..n : s[i] = x
  BY DEF Listed
<1> HIDE DEF d, n
<1>3. 1..(n + 1) = 1..n \cup {n + 1}
  <2>1. n \in Nat
    BY <1>1
  <2> QED BY <2>1
<1>4. ASSUME NEW x PROVE Listed(d, x) <=> Listed(s, x) \/ x = y
  <2>1. Listed(d, x) <=> \E i \in 1..(n + 1) : d[i] = x
    BY <1>1 DEF Listed
  <2> QED BY <1>1, <1>2, <1>3, <2>1
<1> QED BY <1>1, <1>4 DEF d, n

\* Taking the first element leaves the others listed.
LEMMA ListedTail ==
    ASSUME NEW S, NEW s \in Seq(S), s # <<>>
    PROVE  /\ Tail(s) \in Seq(S) /\ Len(Tail(s)) = Len(s) - 1 /\ Len(s) \in Nat
           /\ Head(s) \in S
           /\ \A x : Listed(s, x) => x = Head(s) \/ Listed(Tail(s), x)
<1> DEFINE t == Tail(s)
           n == Len(s)
<1>1. /\ t \in Seq(S) /\ Len(t) = n - 1 /\ n \in Nat
      /\ \A i \in 1..Len(t) : t[i] = s[i + 1]
      /\ Head(s) = s[1] /\ Head(s) \in S
  BY HeadTailProperties, LenProperties
<1>2. \A x : Listed(s, x) <=> \E i \in 1..n : s[i] = x
  BY DEF Listed
<1> HIDE DEF t, n
<1>3. ASSUME NEW x, Listed(s, x), x # Head(s) PROVE Listed(t, x)
  <2>1. PICK i \in 1..n : s[i] = x
    BY <1>2, <1>3
  <2>2. i # 1
    BY <1>1, <1>3, <2>1
  <2>3. i - 1 \in 1..(n - 1) /\ (i - 1) + 1 = i
    BY <1>1, <2>2
  <2>4. t[i - 1] = x
    BY <1>1, <2>1, <2>3
  <2> QED BY <1>1, <2>3, <2>4 DEF Listed
<1> QED BY <1>1, <1>3 DEF t, n

-----------------------------------------------------------------------------
(* SeenCache *)

\* add() of a SeenCache.
LEMMA AddedKeeps ==
    ASSUME CacheRelayAssumption, NEW k, Evictable(k), NEW x \in Id
    PROVE  /\ Evictable(Added(k, x))
           /\ DOMAIN Added(k, x).at \subseteq DOMAIN k.at \cup {x}
<1> DEFINE o == Append(k.order, x)
           a == [y \in DOMAIN k.at \cup {x} |-> IF y = x THEN minute ELSE k.at[y]]
<1>0. MaxSeen \in Nat /\ MaxSeen > 0
  BY DEF CacheRelayAssumption
<1>1. /\ o \in Seq(Id) /\ Len(o) = Len(k.order) + 1 /\ Len(k.order) \in Nat
      /\ \A y : Listed(o, y) <=> Listed(k.order, y) \/ y = x
  BY ListedAppend DEF Evictable
<1>2. DOMAIN a = DOMAIN k.at \cup {x} /\ \A y \in DOMAIN a : Listed(o, y)
  BY <1>1 DEF Evictable
<1>3. Len(k.order) <= MaxSeen
  BY DEF Evictable
<1>4. Added(k, x) = IF Len(o) > MaxSeen
                    THEN [at |-> Drops(a, {Head(o)}), order |-> Tail(o)]
                    ELSE [at |-> a, order |-> o]
  BY DEF Added
<1> HIDE DEF o, a
<1>5. CASE Len(o) > MaxSeen
  <2> DEFINE b == Drops(a, {Head(o)})
             t == Tail(o)
  <2>1. Added(k, x) = [at |-> b, order |-> t]
    BY <1>4, <1>5
  <2>2. DOMAIN b = DOMAIN a \ {Head(o)}
    BY DEF Drops
  <2>3. o # <<>>
    <3>1. Len(o) # 0
      BY <1>1
    <3> QED BY <3>1, EmptySeq
  <2>4. /\ t \in Seq(Id) /\ Len(t) = Len(o) - 1
        /\ \A y : Listed(o, y) => y = Head(o) \/ Listed(t, y)
    BY <1>1, <2>3, ListedTail
  <2> HIDE DEF b, t
  <2>5. \A y \in DOMAIN b : Listed(t, y)
    BY <1>2, <2>2, <2>4
  <2>6. Len(t) <= MaxSeen
    BY <1>0, <1>1, <1>3, <2>4
  <2>7. Added(k, x).at = b /\ Added(k, x).order = t
    BY <2>1
  <2> QED BY <1>2, <2>1, <2>2, <2>4, <2>5, <2>6, <2>7 DEF Evictable
<1>6. CASE ~(Len(o) > MaxSeen)
  <2>1. Added(k, x) = [at |-> a, order |-> o]
    BY <1>4, <1>6
  <2>2. Len(o) <= MaxSeen
    BY <1>0, <1>1, <1>6
  <2>3. Added(k, x).at = a /\ Added(k, x).order = o
    BY <2>1
  <2> QED BY <1>1, <1>2, <2>1, <2>2, <2>3 DEF Evictable
<1> QED BY <1>5, <1>6

\* has() that drops what expired, then add(); and add() alone.
LEMMA NotedKeeps ==
    ASSUME CacheRelayAssumption, NEW c \in CacheName, Evictable(seen[c]), NEW x \in Id
    PROVE  /\ Evictable(Noted(c, x)) /\ DOMAIN Noted(c, x).at \subseteq DOMAIN seen[c].at \cup {x}
           /\ Evictable(Put(c, x))
<1> DEFINE k == seen[c]
           l == [k EXCEPT !.at = Drops(@, {x})]
<1>1. k = [at |-> k.at, order |-> k.order] /\ Evictable(k)
  BY DEF Evictable
<1>2. Noted(c, x) = (IF HasSeen(c, x) THEN k ELSE Added(l, x))
      /\ Put(c, x) = (IF x \in DOMAIN k.at THEN k ELSE Added(k, x))
  BY DEF Noted, Put
<1> HIDE DEF k
<1>3. l = [at |-> Drops(k.at, {x}), order |-> k.order]
  BY <1>1
<1>4. DOMAIN Drops(k.at, {x}) = DOMAIN k.at \ {x}
  BY DEF Drops
<1>5. l.at = Drops(k.at, {x}) /\ l.order = k.order /\ l = [at |-> l.at, order |-> l.order]
  BY <1>3
<1> HIDE DEF l
<1>6. Evictable(l)
  BY <1>1, <1>4, <1>5 DEF Evictable
<1>7. Evictable(Added(l, x)) /\ DOMAIN Added(l, x).at \subseteq DOMAIN l.at \cup {x}
  BY <1>6, AddedKeeps
<1>8. Evictable(Added(k, x))
  BY <1>1, AddedKeeps
<1>9. /\ Evictable(Noted(c, x)) /\ DOMAIN Noted(c, x).at \subseteq DOMAIN k.at \cup {x}
      /\ Evictable(Put(c, x))
  BY <1>1, <1>2, <1>4, <1>5, <1>7, <1>8
<1> QED BY <1>9 DEF k

-----------------------------------------------------------------------------
(* Rows *)

\* put() adds rows to one topic, no more than there are entries, all younger than those
\* that are there, and removes none.
LEMMA RowsInserted ==
    ASSUME CacheTypes, NEW k, NEW E, IsFiniteSet(E), NEW by, Inserts(k, E, by)
    PROVE  /\ IsFiniteSet(entries') /\ entries \subseteq entries' /\ row_id' \in Nat
           /\ row_id <= row_id'
           /\ \A r \in entries' \ entries : /\ r.key = k /\ r.by = by
                                            /\ r.id \in Nat /\ r.id > row_id /\ r.id <= row_id'
           /\ Cardinality(entries' \ entries) <= Cardinality(E)
           /\ E # {} => \E r \in entries' : r.key = k /\ r.by = by
<1> DEFINE n == Cardinality(E)
           row(i) == [id |-> row_id + i, key |-> k, entry |-> SetToSeq(E)[i], at |-> minute, by |-> by]
           New == {row(i) : i \in 1..n}
           f == [i \in 1..n |-> row(i)]
<1>1. n \in Nat /\ (E # {} => n # 0) /\ row_id \in Nat /\ IsFiniteSet(entries)
  BY FS_CardinalityType, FS_EmptySet DEF CacheTypes
<1>2. entries' = entries \cup New /\ row_id' = row_id + n
  BY DEF Inserts
<1>3. \A r \in New : r.key = k /\ r.by = by /\ r.id \in Nat /\ r.id > row_id /\ r.id <= row_id + n
  BY <1>1
<1>4. f \in [1..n -> New] /\ \A r \in New : \E i \in 1..n : f[i] = r
  OBVIOUS
<1>5. n # 0 => row(1) \in New
  BY <1>1
<1> HIDE DEF row, New, f, n
<1>6. IsFiniteSet(New) /\ Cardinality(New) <= n
  <2>1. f \in Surjection(1..n, New)
    BY <1>4 DEF Surjection
  <2>2. IsFiniteSet(1..n) /\ Cardinality(1..n) = n
    BY <1>1, FS_Interval
  <2> QED BY <2>1, <2>2, FS_Surjection
<1>7. IsFiniteSet(entries') /\ entries \subseteq entries'
  BY <1>1, <1>2, <1>6, FS_Union
<1>8. Cardinality(entries' \ entries) <= n
  <2>1. entries' \ entries \subseteq New
    BY <1>2
  <2>2. /\ Cardinality(entries' \ entries) <= Cardinality(New)
        /\ Cardinality(entries' \ entries) \in Nat /\ Cardinality(New) \in Nat
    BY <1>6, <2>1, FS_Subset, FS_CardinalityType
  <2> QED BY <1>1, <1>6, <2>2
<1>9. E # {} => \E r \in entries' : r.key = k /\ r.by = by
  BY <1>1, <1>2, <1>3, <1>5
<1>10. row_id' \in Nat /\ row_id <= row_id'
  BY <1>1, <1>2
<1>11. \A r \in entries' \ entries : /\ r.key = k /\ r.by = by
                                     /\ r.id \in Nat /\ r.id > row_id /\ r.id <= row_id'
  BY <1>2, <1>3
<1> QED BY <1>7, <1>8, <1>9, <1>10, <1>11 DEF n

\* Finitely many rows have finitely many topics.
LEMMA KeysFinite ==
    ASSUME NEW S, IsFiniteSet(S) PROVE IsFiniteSet({q.key : q \in S})
<1> DEFINE T == {q.key : q \in S}
           f == [q \in S |-> q.key]
<1>1. f \in [S -> T] /\ \A t \in T : \E q \in S : f[q] = t
  OBVIOUS
<1> HIDE DEF T, f
<1>2. f \in Surjection(S, T)
  BY <1>1 DEF Surjection
<1>3. IsFiniteSet(T)
  BY <1>2, FS_Surjection
<1> QED BY <1>3 DEF T

\* Rows within the limits that were read leave all topics bounded, for rows that are there
\* do not become older.
LEMMA BoundedGrows ==
    ASSUME CacheRelayAssumption, CacheTypes, TopicsBounded, NEW k, NEW E, IsFiniteSet(E), NEW by,
           Inserts(k, E, by),
           "room" \in by => Cardinality(Rows(k)) + Cardinality(E) <= PerTopic,
           "topics" \in by => Cardinality(Topics) < MaxKeys
    PROVE  TopicsBounded'
<1> DEFINE New == entries' \ entries
<1>0. /\ row_id \in Nat /\ IsFiniteSet(entries) /\ PerTopic \in Nat /\ MaxKeys \in Nat
      /\ \A r \in entries : r.id \in Nat /\ r.id <= row_id
  BY DEF CacheTypes, CacheRelayAssumption
<1>1. /\ IsFiniteSet(entries') /\ entries' = entries \cup New
      /\ \A r \in New : r.key = k /\ r.by = by /\ r.id \in Nat /\ r.id > row_id
      /\ Cardinality(New) <= Cardinality(E) /\ IsFiniteSet(New)
      /\ Cardinality(New) \in Nat /\ Cardinality(E) \in Nat
  BY RowsInserted, FS_Subset, FS_CardinalityType
<1> HIDE DEF New
<1>2. ASSUME NEW r \in entries PROVE Filled(r)' = Filled(r) /\ Opened(r)' = Opened(r)
  <2>1. Upto(r)' = Upto(r)
    BY <1>0, <1>1 DEF Upto
  <2> QED BY <2>1 DEF Filled, Opened
<1>3. ASSUME NEW r \in New, "room" \in by PROVE Cardinality(Filled(r)') <= PerTopic
  <2>1. Filled(r)' \subseteq Rows(k) \cup New
    BY <1>1 DEF Filled, Upto, Rows
  <2>2. IsFiniteSet(Rows(k)) /\ Cardinality(Rows(k)) \in Nat
    BY <1>0, FS_Subset, FS_CardinalityType DEF Rows
  <2>3. /\ IsFiniteSet(Rows(k) \cup New) /\ Cardinality(Rows(k) \cap New) \in Nat
        /\ Cardinality(Rows(k) \cup New)
             = Cardinality(Rows(k)) + Cardinality(New) - Cardinality(Rows(k) \cap New)
    BY <1>1, <2>2, FS_Union, FS_Intersection, FS_CardinalityType
  <2>4. /\ Cardinality(Filled(r)') <= Cardinality(Rows(k) \cup New)
        /\ Cardinality(Filled(r)') \in Nat /\ Cardinality(Rows(k) \cup New) \in Nat
    BY <2>1, <2>3, FS_Subset, FS_CardinalityType
  <2>5. Cardinality(Rows(k)) + Cardinality(E) <= PerTopic
    BY <1>3
  <2> QED BY <1>0, <1>1, <2>2, <2>3, <2>4, <2>5
<1>4. ASSUME NEW r \in New, "topics" \in by PROVE Cardinality(Opened(r)') <= MaxKeys
  <2>1. Opened(r)' \subseteq Topics \cup {k}
    BY <1>1 DEF Opened, Upto, Topics
  <2>2. IsFiniteSet(Topics) /\ Cardinality(Topics) \in Nat
    BY <1>0, KeysFinite, FS_CardinalityType DEF Topics
  <2>3. IsFiniteSet(Topics \cup {k}) /\ Cardinality(Topics \cup {k}) <= Cardinality(Topics) + 1
        /\ Cardinality(Topics \cup {k}) \in Nat
    <3> DEFINE T == Topics
    <3>1. IsFiniteSet(T) /\ Cardinality(T) \in Nat
      BY <2>2
    <3> HIDE DEF T
    <3>2. IsFiniteSet(T \cup {k})
          /\ Cardinality(T \cup {k}) = IF k \in T THEN Cardinality(T) ELSE Cardinality(T) + 1
      BY <3>1, FS_AddElement
    <3>3. Cardinality(T \cup {k}) <= Cardinality(T) + 1 /\ Cardinality(T \cup {k}) \in Nat
      BY <3>1, <3>2
    <3> QED BY <3>2, <3>3 DEF T
  <2>4. Cardinality(Opened(r)') <= Cardinality(Topics \cup {k}) /\ Cardinality(Opened(r)') \in Nat
    BY <2>1, <2>3, FS_Subset, FS_CardinalityType
  <2>5. Cardinality(Topics) < MaxKeys
    BY <1>4
  <2> QED BY <1>0, <2>2, <2>3, <2>4, <2>5
<1>5. ASSUME NEW r \in entries'
      PROVE  /\ "room" \in r.by => Cardinality(Filled(r)') <= PerTopic
             /\ "topics" \in r.by => Cardinality(Opened(r)') <= MaxKeys
  <2>1. CASE r \in entries
    BY <1>2, <2>1 DEF TopicsBounded
  <2>2. CASE r \in New
    BY <1>1, <1>3, <1>4, <2>2
  <2> QED BY <1>1, <2>1, <2>2
<1> QED BY <1>5 DEF TopicsBounded, Filled, Opened, Upto

\* Rows that are deleted leave them bounded.
LEMMA BoundedShrinks ==
    ASSUME CacheRelayAssumption, CacheTypes, TopicsBounded, entries' \subseteq entries
    PROVE  TopicsBounded'
<1>0. IsFiniteSet(entries) /\ PerTopic \in Nat /\ MaxKeys \in Nat
  BY DEF CacheTypes, CacheRelayAssumption
<1>1. ASSUME NEW r \in entries'
      PROVE  /\ "room" \in r.by => Cardinality(Filled(r)') <= PerTopic
             /\ "topics" \in r.by => Cardinality(Opened(r)') <= MaxKeys
  <2>1. Upto(r)' \subseteq Upto(r) /\ IsFiniteSet(Upto(r))
    BY <1>0, FS_Subset DEF Upto
  <2>2. /\ Filled(r)' \subseteq Filled(r) /\ IsFiniteSet(Filled(r))
        /\ Opened(r)' \subseteq Opened(r) /\ IsFiniteSet(Opened(r))
    <3>1. Filled(r)' \subseteq Filled(r) /\ Opened(r)' \subseteq Opened(r)
      BY <2>1 DEF Filled, Opened
    <3>2. IsFiniteSet(Filled(r))
      BY <2>1, FS_Subset DEF Filled
    <3>3. IsFiniteSet(Opened(r))
      BY <2>1, KeysFinite DEF Opened
    <3> QED BY <3>1, <3>2, <3>3
  <2>3. /\ Cardinality(Filled(r)') <= Cardinality(Filled(r)) /\ Cardinality(Filled(r)') \in Nat
        /\ Cardinality(Filled(r)) \in Nat
        /\ Cardinality(Opened(r)') <= Cardinality(Opened(r)) /\ Cardinality(Opened(r)') \in Nat
        /\ Cardinality(Opened(r)) \in Nat
    BY <2>2, FS_Subset, FS_CardinalityType
  <2>4. /\ "room" \in r.by => Cardinality(Filled(r)) <= PerTopic
        /\ "topics" \in r.by => Cardinality(Opened(r)) <= MaxKeys
    BY DEF TopicsBounded
  <2> QED BY <1>0, <2>3, <2>4
<1> QED BY <1>1 DEF TopicsBounded, Filled, Opened, Upto

-----------------------------------------------------------------------------
(* Steps *)

\* What the invariant says of the state is the property.
LEMMA CacheHoldsMeans == ASSUME CacheInv PROVE CacheHolds
<1>1. \A i \in DOMAIN mailbox : mailbox[i] \in ToSet(mailbox)
  BY DEF ToSet
<1>2. DOMAIN mailbox = 1..Len(mailbox)
  BY LenProperties DEF CacheInv, CacheTypes
<1>3. Archived
  <2> SUFFICES ASSUME NEW g \in CachePacket, Listed(mailbox, Handing(g))
               PROVE  \E m \in ToSet(mailbox) : m.is = "packet" /\ m.key = g
    BY DEF Archived, CacheInv, HandedOver, Handed
  <2>1. PICK i \in 1..Len(mailbox) : mailbox[i] = Handing(g)
    BY DEF Listed
  <2>2. mailbox[i] \in ToSet(mailbox) /\ Handing(g).key = g /\ Handing(g).is = "packet"
    BY <1>1, <1>2 DEF Handing
  <2> QED BY <2>1, <2>2
<1>4. ASSUME NEW c \in DOMAIN seen
      PROVE  Len(seen[c].order) <= MaxSeen /\ DOMAIN seen[c].at \subseteq ToSet(seen[c].order)
  <2>1. Evictable(seen[c])
    BY DEF CacheInv, CacheTypes
  <2>2. DOMAIN seen[c].order = 1..Len(seen[c].order)
    BY <2>1, LenProperties DEF Evictable
  <2> QED BY <2>1, <2>2 DEF Evictable, Listed, ToSet
<1>5. Limited
  BY <1>4 DEF Limited, CacheInv, TopicsBounded, Filled, Opened
<1> QED BY <1>3, <1>5 DEF CacheHolds

\* A cache node starts with nothing.
LEMMA CacheStarts == ASSUME CacheRelayAssumption, CacheRelayInit PROVE CacheInv
<1>1. seen = [c \in CacheName |-> NoSeen]
  BY DEF CacheRelayInit, CacheName
<1>2. Len(<<>>) = 0 /\ MaxSeen \in Nat /\ PerTopic \in Nat
  BY EmptySeq DEF CacheRelayAssumption
<1>3. NoSeen.at = <<>> /\ NoSeen.order = <<>> /\ DOMAIN <<>> = {}
  BY DEF NoSeen
<1>4. Evictable(NoSeen)
  BY <1>2, <1>3, EmptySeq DEF Evictable, NoSeen
<1>5. mailbox \in Seq(Letter) /\ entries = {} /\ rebroadcast = {} /\ row_id = 0
  BY EmptySeq DEF CacheRelayInit
<1>6. IsFiniteSet({}) /\ Cardinality({}) = 0
  BY FS_EmptySet
<1>7. CacheTypes
  BY <1>1, <1>4, <1>5, <1>6 DEF CacheTypes
<1>9. TopicsBounded
  BY <1>5 DEF TopicsBounded
<1>10. HandedOver
  BY <1>1, <1>3, <1>5 DEF HandedOver, CacheName
<1> QED BY <1>7, <1>9, <1>10 DEF CacheInv

\* The table and what it says of the packets.
StoreTypes == /\ mailbox \in Seq(Letter) /\ IsFiniteSet(entries) /\ row_id \in Nat
              /\ \A r \in entries : r.id \in Nat /\ r.id <= row_id

\* What changes neither the rows nor the mailbox takes no packet out.
LEMMA SameStore ==
    ASSUME CacheInv, UNCHANGED <<entries, row_id, swept, unkept>>,
           mailbox' = mailbox \/ \E y \in Letter : mailbox' = Append(mailbox, y)
    PROVE  /\ StoreTypes' /\ TopicsBounded'
           /\ \A g : Handed(g) => Handed(g)'
           /\ \A g : mailbox' = Append(mailbox, Handing(g)) /\ Handing(g) \in Letter => Handed(g)'
<1>1. mailbox \in Seq(Letter) /\ StoreTypes /\ TopicsBounded
  BY DEF CacheInv, CacheTypes, StoreTypes
<1>2. \A k : Archive(k)' = Archive(k)
  BY DEF Rows, Archive
<1>3. TopicsBounded'
  BY <1>1 DEF TopicsBounded, Filled, Opened, Upto
<1>4. mailbox' \in Seq(Letter) /\ \A x : Listed(mailbox, x) => Listed(mailbox', x)
  <2>1. CASE mailbox' = mailbox
    BY <1>1, <2>1
  <2>2. CASE \E y \in Letter : mailbox' = Append(mailbox, y)
    <3>1. PICK y \in Letter : mailbox' = Append(mailbox, y)
      BY <2>2
    <3> QED BY <1>1, <3>1, ListedAppend
  <2> QED BY <2>1, <2>2
<1>5. \A g : Handed(g) => Handed(g)'
  BY <1>2, <1>4 DEF Handed, Handing, Listed
<1>6. ASSUME NEW g, mailbox' = Append(mailbox, Handing(g)), Handing(g) \in Letter PROVE Handed(g)'
  <2>1. Listed(mailbox', Handing(g))
    BY <1>1, <1>6, ListedAppend
  <2> QED BY <2>1 DEF Handed, Listed, Handing
<1>7. StoreTypes'
  BY <1>1, <1>4 DEF StoreTypes
<1> QED BY <1>3, <1>5, <1>6, <1>7

\* The caches as they are: what went out and what is stored decide.
LEMMA SameCaches ==
    ASSUME CacheInv, UNCHANGED <<seen, rebroadcast>>, StoreTypes', TopicsBounded',
           \A g \in CachePacket : Handed(g) => Handed(g)'
    PROVE  CacheInv'
<1>1. CacheTypes'
  BY DEF CacheInv, CacheTypes, StoreTypes, Evictable, Listed
<1>2. HandedOver'
  BY DEF CacheInv, HandedOver
<1> QED BY <1>1, <1>2 DEF CacheInv

\* A packet that comes by gossip, or by a stem that turns into it.
LEMMA GossipKeeps ==
    ASSUME CacheRelayAssumption, CacheInv, NEW s, NEW g \in CachePacket, Gossip(s, g)
    PROVE  CacheInv'
<1>1. /\ mailbox' = IF HasSeen("delivered", g) THEN mailbox ELSE Append(mailbox, Handing(g))
      /\ rebroadcast' \subseteq rebroadcast \cup {<<"packet", g>>}
      /\ seen' = [seen EXCEPT !.delivered = Noted("delivered", g), !.flooded = Noted("flooded", g)]
      /\ UNCHANGED <<entries, row_id, swept, unkept>>
  BY DEF Gossip, Delivers, Handing, stored, past
<1>2. Handing(g) \in Letter
  BY DEF Letter
<1>3. /\ StoreTypes' /\ TopicsBounded'
      /\ \A h : Handed(h) => Handed(h)'
      /\ mailbox' = Append(mailbox, Handing(g)) => Handed(g)'
  BY <1>1, <1>2, SameStore
<1>4. Handed(g)'
  <2>1. HasSeen("delivered", g) => Handed(g)
    BY DEF HasSeen, CacheInv, HandedOver
  <2> QED BY <1>1, <1>3, <2>1
<1>5. /\ \A c \in CacheName : Evictable(seen[c])
      /\ DOMAIN seen = CacheName /\ g \in Id
  BY DEF CacheInv, CacheTypes, Id
<1>6. /\ Evictable(Noted("delivered", g)) /\ Evictable(Noted("flooded", g))
      /\ DOMAIN Noted("delivered", g).at \subseteq DOMAIN seen["delivered"].at \cup {g}
  <2>1. "delivered" \in CacheName /\ "flooded" \in CacheName
    BY DEF CacheName
  <2> QED BY <1>5, <2>1, NotedKeeps
<1>7. /\ DOMAIN seen' = CacheName
      /\ \A c \in CacheName : seen'[c] = IF c = "delivered" THEN Noted("delivered", g)
                                         ELSE IF c = "flooded" THEN Noted("flooded", g)
                                         ELSE seen[c]
  BY <1>1, <1>5 DEF CacheInv, CacheTypes
<1>8. (\A c \in CacheName : Evictable(seen[c]))'
  <2>1. \A c \in CacheName : Evictable(seen'[c])
    BY <1>5, <1>6, <1>7
  <2> QED BY <2>1 DEF Evictable, Listed
<1>9. seen' \in [CacheName -> {seen'[c] : c \in CacheName}]
  BY <1>1, <1>7 DEF CacheInv, CacheTypes
<1>10. seen'["delivered"] = Noted("delivered", g)
  BY <1>7 DEF CacheName
<1>11. HandedOver'
  BY <1>1, <1>3, <1>4, <1>6, <1>10 DEF CacheInv, HandedOver
<1> QED BY <1>3, <1>7, <1>8, <1>9, <1>11 DEF CacheInv, CacheTypes, StoreTypes

\* Hints change their own cache and broadcast no packet.
LEMMA HintKeeps ==
    ASSUME CacheRelayAssumption, CacheInv, NEW h \in Mark, NEW k, Evictable(k),
           seen' = [seen EXCEPT !.hint = k], rebroadcast' \subseteq rebroadcast \cup {<<"hint", h>>},
           UNCHANGED <<mailbox, entries, row_id, swept, unkept>>
    PROVE  CacheInv'
<1>1. /\ StoreTypes' /\ TopicsBounded'
      /\ \A g : Handed(g) => Handed(g)'
  BY SameStore
<1>2. DOMAIN seen = CacheName /\ \A c \in CacheName : Evictable(seen[c])
  BY DEF CacheInv, CacheTypes
<1>3. /\ DOMAIN seen' = CacheName
      /\ \A c \in CacheName : seen'[c] = IF c = "hint" THEN k ELSE seen[c]
  BY <1>2 DEF CacheInv, CacheTypes
<1>4. (\A c \in CacheName : Evictable(seen[c]))'
  <2>1. \A c \in CacheName : Evictable(seen'[c])
    BY <1>2, <1>3
  <2> QED BY <2>1 DEF Evictable, Listed
<1>5. seen' \in [CacheName -> {seen'[c] : c \in CacheName}]
  BY <1>3 DEF CacheInv, CacheTypes
<1>6. seen'["delivered"] = seen["delivered"]
  BY <1>3 DEF CacheName
<1>7. \A g \in CachePacket : <<"packet", g>> \in rebroadcast' => <<"packet", g>> \in rebroadcast
  <2>1. \A g \in CachePacket : <<"packet", g>> # <<"hint", h>>
    OBVIOUS
  <2> QED BY <2>1
<1>8. HandedOver'
  BY <1>1, <1>6, <1>7 DEF CacheInv, HandedOver
<1> QED BY <1>1, <1>3, <1>4, <1>5, <1>8 DEF CacheInv, CacheTypes, StoreTypes

\* Rows that are added leave the packets that are stored where they are.
LEMMA Inserted ==
    ASSUME CacheTypes, NEW k, NEW E, IsFiniteSet(E), NEW by, Inserts(k, E, by)
    PROVE  /\ IsFiniteSet(entries') /\ row_id' \in Nat
           /\ (\A r \in entries : r.id \in Nat /\ r.id <= row_id)'
           /\ \A g : Archive(g) \subseteq Archive(g)'
           /\ E # {} /\ "gossip" \in by => Archive(k)' # {}
<1>0. row_id \in Nat /\ \A r \in entries : r.id \in Nat /\ r.id <= row_id
  BY DEF CacheTypes
<1>1. /\ IsFiniteSet(entries') /\ entries \subseteq entries' /\ row_id' \in Nat /\ row_id <= row_id'
      /\ \A r \in entries' \ entries : r.id \in Nat /\ r.id <= row_id'
      /\ E # {} => \E r \in entries' : r.key = k /\ r.by = by
  BY RowsInserted
<1>2. \A r \in entries' : r.id \in Nat /\ r.id <= row_id'
  BY <1>0, <1>1
<1>3. \A g : Archive(g) \subseteq Archive(g)'
  BY <1>1 DEF Archive, Rows
<1>4. E # {} /\ "gossip" \in by => Archive(k)' # {}
  BY <1>1 DEF Archive, Rows
<1> QED BY <1>1, <1>2, <1>3, <1>4

\* A PUT is stored within the room its topic has left, as far as that could be read.
LEMMA StoresKeeps ==
    ASSUME CacheRelayAssumption, CacheInv, NEW m, Stores(m)
    PROVE  /\ IsFiniteSet(entries') /\ row_id' \in Nat
           /\ (\A r \in entries : r.id \in Nat /\ r.id <= row_id)'
           /\ \A g : Archive(g) \subseteq Archive(g)'
           /\ TopicsBounded'
<1>0. CacheTypes /\ TopicsBounded /\ IsFiniteSet(entries)
  BY DEF CacheInv, CacheTypes
<1>1. CASE UNCHANGED stored
  <2>1. entries' = entries /\ row_id' = row_id
    BY <1>1 DEF stored
  <2>2. \A g : Archive(g) = Archive(g)'
    BY <2>1 DEF Archive, Rows
  <2>3. entries' \subseteq entries
    BY <2>1
  <2>4. TopicsBounded'
    BY <1>0, <2>3, BoundedShrinks
  <2> QED BY <1>0, <2>1, <2>2, <2>4 DEF CacheTypes
<1>2. CASE ~UNCHANGED stored
  <2> DEFINE there(reads) == IF reads THEN Rows(m.key) ELSE {}
             topics(counts) == IF counts THEN Cardinality(Topics) ELSE 0
             room(reads) == PerTopic - Cardinality(there(reads))
             checked(reads, counts) == {x \in {"room", "topics"} : IF x = "room" THEN reads
                                                         ELSE there(reads) = {} /\ counts}
  <2>1. PICK reads \in BOOLEAN, counts \in BOOLEAN, E \in SUBSET (m.put \cap Good) :
          /\ ~(there(reads) = {} /\ topics(counts) >= MaxKeys)
          /\ Cardinality(E) <= room(reads)
          /\ Inserts(m.key, E, checked(reads, counts))
    BY <1>2 DEF Stores, RoomBeside
  <2> DEFINE by == checked(reads, counts)
  <2>2. "room" \in by => reads
    OBVIOUS
  <2>3. "topics" \in by => there(reads) = {} /\ counts
    OBVIOUS
  <2>4. IsFiniteSet(E)
    BY FS_Subset DEF CacheRelayAssumption
  <2>5. /\ Cardinality(E) \in Nat /\ Cardinality(Rows(m.key)) \in Nat /\ Cardinality(Topics) \in Nat
        /\ PerTopic \in Nat /\ MaxKeys \in Nat
    <3>1. IsFiniteSet(Rows(m.key)) /\ IsFiniteSet(Topics)
      BY <1>0, FS_Subset, KeysFinite DEF Rows, Topics
    <3> QED BY <2>4, <3>1, FS_CardinalityType DEF CacheRelayAssumption
  <2>6. "room" \in by => Cardinality(Rows(m.key)) + Cardinality(E) <= PerTopic
    <3> SUFFICES ASSUME "room" \in by PROVE Cardinality(Rows(m.key)) + Cardinality(E) <= PerTopic
      OBVIOUS
    <3>1. Cardinality(E) <= PerTopic - Cardinality(Rows(m.key))
      BY <2>1, <2>2
    <3> QED BY <2>5, <3>1
  <2>7. "topics" \in by => Cardinality(Topics) < MaxKeys
    <3> SUFFICES ASSUME "topics" \in by PROVE Cardinality(Topics) < MaxKeys
      OBVIOUS
    <3>1. ~(Cardinality(Topics) >= MaxKeys)
      BY <2>1, <2>3
    <3> QED BY <2>5, <3>1
  <2>8. Inserts(m.key, E, by)
    BY <2>1
  <2> HIDE DEF by
  <2>9. TopicsBounded'
    BY <1>0, <2>4, <2>6, <2>7, <2>8, BoundedGrows
  <2> QED BY <1>0, <2>4, <2>8, <2>9, Inserted
<1> QED BY <1>1, <1>2

\* The mailbox takes its next message.
LEMMA HandleDhtKeeps ==
    ASSUME CacheRelayAssumption, CacheInv, HandleDht
    PROVE  CacheInv'
<1>0. PICK m : m = Head(mailbox)
  OBVIOUS
<1>1. /\ mailbox # <<>> /\ mailbox' = Tail(mailbox)
      /\ \/ m.is = "put" /\ Stores(m) /\ UNCHANGED unkept
         \/ m.is = "packet" /\ Inserts(m.key, m.put, {"gossip"}) /\ UNCHANGED unkept
         \/ m.is = "packet" /\ unkept' = unkept \cup {m.key} /\ UNCHANGED stored
      /\ UNCHANGED <<seen, rebroadcast, swept>>
  BY <1>0 DEF HandleDht
<1>2. mailbox \in Seq(Letter) /\ CacheTypes /\ StoreTypes /\ TopicsBounded
  BY DEF CacheInv, CacheTypes, StoreTypes
<1>3. /\ mailbox' \in Seq(Letter) /\ m \in Letter
      /\ \A x : Listed(mailbox, x) => x = m \/ Listed(mailbox', x)
  BY <1>0, <1>1, <1>2, ListedTail
<1>4. ASSUME NEW g, Archive(g) \subseteq Archive(g)', unkept \subseteq unkept',
             m = Handing(g) => Archive(g)' # {} \/ g \in unkept'
      PROVE  Handed(g) => Handed(g)'
  <2>1. Listed(mailbox, Handing(g)) => Archive(g)' # {} \/ g \in unkept' \/ Listed(mailbox', Handing(g))
    BY <1>3, <1>4
  <2> QED BY <1>1, <1>4, <2>1 DEF Handed, Handing, Listed
<1>5. CASE m.is = "put" /\ Stores(m) /\ UNCHANGED unkept
  <2>1. \A g : m # Handing(g)
    <3>1. \A g : Handing(g).is = "packet"
      BY DEF Handing
    <3> QED BY <1>5, <3>1
  <2>2. /\ IsFiniteSet(entries') /\ row_id' \in Nat
        /\ (\A r \in entries : r.id \in Nat /\ r.id <= row_id)'
        /\ \A g : Archive(g) \subseteq Archive(g)'
        /\ TopicsBounded'
    BY <1>5, StoresKeeps
  <2>3. \A g \in CachePacket : Handed(g) => Handed(g)'
    BY <1>4, <1>5, <2>1, <2>2
  <2>4. StoreTypes'
    BY <1>3, <2>2 DEF StoreTypes
  <2> QED BY <1>1, <2>2, <2>3, <2>4, SameCaches
<1>6. CASE m.is = "packet" /\ Inserts(m.key, m.put, {"gossip"}) /\ UNCHANGED unkept
  <2>1. PICK g \in CachePacket : m = Handing(g)
    BY <1>3, <1>6 DEF Letter
  <2>2. m.key = g /\ m.put = {g}
    BY <2>1 DEF Handing
  <2>3. IsFiniteSet({g}) /\ {g} # {}
    BY FS_Singleton
  <2> DEFINE by == {"gossip"}
  <2>4. Inserts(g, {g}, by)
    BY <1>6, <2>2
  <2>5. "room" \notin by /\ "topics" \notin by /\ "gossip" \in by
    OBVIOUS
  <2> HIDE DEF by
  <2>6. /\ IsFiniteSet(entries') /\ row_id' \in Nat
        /\ (\A r \in entries : r.id \in Nat /\ r.id <= row_id)'
        /\ \A h : Archive(h) \subseteq Archive(h)'
        /\ Archive(g)' # {}
    BY <1>2, <2>3, <2>4, <2>5, Inserted
  <2>7. TopicsBounded'
    BY <1>2, <2>3, <2>4, <2>5, BoundedGrows
  <2>8. \A h \in CachePacket : m = Handing(h) => h = g
    BY <2>2 DEF Handing
  <2>9. \A h \in CachePacket : Handed(h) => Handed(h)'
    BY <1>4, <1>6, <2>6, <2>8
  <2>10. StoreTypes'
    BY <1>3, <2>6 DEF StoreTypes
  <2> QED BY <1>1, <2>7, <2>9, <2>10, SameCaches
<1>7. CASE m.is = "packet" /\ unkept' = unkept \cup {m.key} /\ UNCHANGED stored
  <2>1. entries' = entries /\ row_id' = row_id
    BY <1>7 DEF stored
  <2>2. \A g : Archive(g) = Archive(g)'
    BY <2>1 DEF Archive, Rows
  <2>3. \A g \in CachePacket : m = Handing(g) => g \in unkept'
    BY <1>7 DEF Handing
  <2>4. \A g \in CachePacket : Handed(g) => Handed(g)'
    BY <1>4, <1>7, <2>2, <2>3
  <2>5. StoreTypes'
    BY <1>2, <1>3, <2>1 DEF StoreTypes
  <2>6. TopicsBounded'
    BY <1>2, <2>1, BoundedShrinks
  <2> QED BY <1>1, <2>4, <2>5, <2>6, SameCaches
<1> QED BY <1>1, <1>5, <1>6, <1>7

\* cleanup() deletes what is past its day and nothing else.
LEMMA CleanUpKeeps ==
    ASSUME CacheRelayAssumption, CacheInv, CleanUp
    PROVE  CacheInv'
<1> DEFINE old == {r \in entries : minute - r.at > Keep}
<1>1. /\ entries' = entries \ old
      /\ swept' = swept \cup {r.key : r \in {q \in old : "gossip" \in q.by}}
      /\ UNCHANGED <<seen, mailbox, row_id, rebroadcast, unkept>>
  BY DEF CleanUp
<1>2. CacheTypes /\ StoreTypes /\ TopicsBounded
  BY DEF CacheInv, CacheTypes, StoreTypes
<1> HIDE DEF old
<1>3. entries' \subseteq entries
  BY <1>1
<1>4. TopicsBounded'
  BY <1>2, <1>3, BoundedShrinks
<1>5. StoreTypes'
  BY <1>1, <1>2, <1>3, FS_Subset DEF StoreTypes
<1>6. ASSUME NEW g \in CachePacket, Handed(g) PROVE Handed(g)'
  <2>1. CASE Archive(g) # {}
    <3>1. PICK r \in entries : r.key = g /\ "gossip" \in r.by
      BY <2>1 DEF Archive, Rows
    <3>2. r \in old \/ r \in entries'
      BY <1>1
    <3>3. g \in swept' \/ Archive(g)' # {}
      BY <1>1, <3>1, <3>2 DEF Archive, Rows
    <3> QED BY <3>3 DEF Handed
  <2>2. CASE ~(Archive(g) # {})
    BY <1>1, <1>6, <2>2 DEF Handed, Listed, Handing
  <2> QED BY <2>1, <2>2
<1> QED BY <1>1, <1>4, <1>5, <1>6, SameCaches

\* Every step keeps the invariant.
LEMMA CacheGoesOn ==
    ASSUME CacheRelayAssumption, CacheInv, [CacheRelayNext]_cache_relay
    PROVE  CacheInv'
<1>1. ASSUME UNCHANGED <<seen, mailbox, entries, row_id, rebroadcast, swept, unkept>> PROVE CacheInv'
  <2>1. /\ StoreTypes' /\ TopicsBounded'
        /\ \A g : Handed(g) => Handed(g)'
    BY <1>1, SameStore
  <2> QED BY <1>1, <2>1, SameCaches
<1>2. ASSUME NEW s \in Sender, NEW g \in CachePacket, Gossip(s, g) \/ StemFluff(s, g) PROVE CacheInv'
  BY <1>2, GossipKeeps DEF StemFluff
<1>3. ASSUME NEW s \in Sender, NEW g \in CachePacket, StemForward(s, g) PROVE CacheInv'
  BY <1>1, <1>3 DEF StemForward, stored, past
<1>4. "hint" \in CacheName /\ Mark \subseteq Id /\ Evictable(seen["hint"])
  BY DEF CacheName, Id, CacheInv, CacheTypes
<1>5. ASSUME NEW s \in Sender, NEW h \in Mark, HintFluff(s, h) PROVE CacheInv'
  <2>1. Evictable(Put("hint", h))
    BY <1>4, NotedKeeps
  <2>2. /\ seen' = [seen EXCEPT !.hint = Put("hint", h)] /\ rebroadcast' \subseteq rebroadcast \cup {<<"hint", h>>}
        /\ UNCHANGED <<mailbox, entries, row_id, swept, unkept>>
    BY <1>5 DEF HintFluff, stored, past
  <2> QED BY <2>1, <2>2, HintKeeps
<1>6. ASSUME NEW s \in Sender, NEW h \in Mark, NEW ttl \in {0, 1}, HintRelay(s, h, ttl) PROVE CacheInv'
  <2>1. Evictable(Noted("hint", h))
    BY <1>4, NotedKeeps
  <2>2. /\ seen' = [seen EXCEPT !.hint = Noted("hint", h)] /\ rebroadcast' \subseteq rebroadcast \cup {<<"hint", h>>}
        /\ UNCHANGED <<mailbox, entries, row_id, swept, unkept>>
    BY <1>6 DEF HintRelay, stored, past
  <2> QED BY <2>1, <2>2, HintKeeps
<1>7. ASSUME NEW s \in Sender, NEW k \in Key, NEW E \in Batch,
             PutArrivesAtCache(s, k, E)
      PROVE  CacheInv'
  <2> DEFINE y == [is |-> "put", key |-> k, put |-> E]
  <2>1. y \in Letter
    BY DEF Letter
  <2>2. mailbox' = Append(mailbox, y) /\ UNCHANGED <<seen, entries, row_id, rebroadcast, swept, unkept>>
    BY <1>7 DEF PutArrivesAtCache, stored, past
  <2> HIDE DEF y
  <2>3. /\ StoreTypes' /\ TopicsBounded'
        /\ \A g : Handed(g) => Handed(g)'
    BY <2>1, <2>2, SameStore
  <2> QED BY <2>2, <2>3, SameCaches
<1>8. ASSUME NEW s \in Sender, CostsOnly(s) \/ Joins(s) \/ Forgotten(s) PROVE CacheInv'
  BY <1>1, <1>8 DEF CostsOnly, Joins, Forgotten, stored, past
<1>9. CASE MinutePasses \/ UNCHANGED cache_relay
  BY <1>1, <1>9 DEF MinutePasses, cache_relay, stored, past
<1> QED BY <1>2, <1>3, <1>5, <1>6, <1>7, <1>8, <1>9, HandleDhtKeeps, CleanUpKeeps DEF CacheRelayNext

\* For any packets, hints, limits and topics, those that name a packet too, and whichever
\* queries fail: the cache node has stored, until its day is over, whatever it broadcast
\* but for what the table did not take; its SeenCaches stay within their size, and a PUT
\* fills no topic beyond the limit, nor opens one too many, when it could read how full the
\* table is (deliver_to_mailbox, SeenCache.has and add, handle_dht_message, cleanup).
THEOREM CacheKeepsItsPromise ==
    ASSUME CacheRelayAssumption PROVE CacheRelaySpec => []CacheHolds
<1>1. CacheRelayInit => CacheInv
  BY CacheStarts
<1>2. CacheInv /\ [CacheRelayNext]_cache_relay => CacheInv'
  BY CacheGoesOn
<1>3. CacheInv => CacheHolds
  BY CacheHoldsMeans
<1> QED BY <1>1, <1>2, <1>3, PTL DEF CacheRelaySpec

-----------------------------------------------------------------------------
(* CachePeers: the table of a cache node *)

\* A sequence, of whatever.
List(s) == \E A : s \in Seq(A)

LEMMA ListEmpty == List(<<>>) /\ ToSet(<<>>) = {}
<1>1. <<>> \in Seq({}) /\ Len(<<>>) = 0
  BY EmptySeq
<1>2. DOMAIN <<>> = {}
  OBVIOUS
<1> QED BY <1>1, <1>2 DEF List, ToSet

LEMMA ListAppend ==
    ASSUME NEW s, NEW x, List(s)
    PROVE  List(Append(s, x)) /\ ToSet(Append(s, x)) = ToSet(s) \cup {x} /\ Append(s, x) # <<>>
<1>1. PICK A : s \in Seq(A)
  BY DEF List
<1> DEFINE B == A \cup {x}
           t == Append(s, x)
           n == Len(s)
<1>2. s \in Seq(B) /\ x \in B
  BY <1>1, SeqMonotonic
<1> HIDE DEF B
<1>3. /\ t \in Seq(B) /\ Len(t) = n + 1 /\ n \in Nat
      /\ \A i \in 1..n : t[i] = s[i]
      /\ t[n + 1] = x /\ t # <<>>
  BY <1>2, AppendProperties, LenProperties
<1>4. DOMAIN t = 1..(n + 1) /\ DOMAIN s = 1..n
  BY <1>2, <1>3, LenProperties
<1> HIDE DEF t, n
<1>5. ToSet(t) = ToSet(s) \cup {x}
  <2>1. 1..(n + 1) = 1..n \cup {n + 1}
    BY <1>3
  <2> QED BY <1>3, <1>4, <2>1 DEF ToSet
<1> QED BY <1>3, <1>5 DEF List, t

LEMMA ListTail ==
    ASSUME NEW s, List(s), s # <<>>
    PROVE  /\ List(Tail(s)) /\ ToSet(s) = ToSet(Tail(s)) \cup {Head(s)}
<1>1. PICK A : s \in Seq(A)
  BY DEF List
<1> DEFINE t == Tail(s)
           n == Len(s)
<1>2. /\ t \in Seq(A) /\ Len(t) = n - 1 /\ n \in Nat \ {0}
      /\ \A i \in 1..(n - 1) : t[i] = s[i + 1]
      /\ Head(s) = s[1]
  BY <1>1, HeadTailProperties, EmptySeq, LenProperties
<1>3. DOMAIN t = 1..(n - 1) /\ DOMAIN s = 1..n
  BY <1>1, <1>2, LenProperties
<1> HIDE DEF t, n
<1>4. ToSet(s) \subseteq ToSet(t) \cup {Head(s)}
  <2> SUFFICES ASSUME NEW i \in 1..n, i # 1 PROVE s[i] \in ToSet(t)
    BY <1>2, <1>3 DEF ToSet
  <2>1. i - 1 \in 1..(n - 1) /\ (i - 1) + 1 = i
    BY <1>2
  <2>2. t[i - 1] = s[i]
    BY <1>2, <2>1
  <2> QED BY <1>3, <2>1, <2>2 DEF ToSet
<1>5. ToSet(t) \cup {Head(s)} \subseteq ToSet(s)
  <2>1. 1 \in 1..n
    BY <1>2
  <2>2. ASSUME NEW i \in 1..(n - 1) PROVE t[i] \in ToSet(s)
    <3>1. i + 1 \in 1..n
      BY <1>2
    <3> QED BY <1>2, <1>3, <3>1 DEF ToSet
  <2> QED BY <1>2, <1>3, <2>1, <2>2 DEF ToSet
<1> QED BY <1>2, <1>4, <1>5 DEF List, t

LEMMA ListConcat ==
    ASSUME NEW s, NEW t, List(s), List(t)
    PROVE  List(s \o t) /\ ToSet(s \o t) = ToSet(s) \cup ToSet(t)
<1>1. PICK A : s \in Seq(A)
  BY DEF List
<1>2. PICK B : t \in Seq(B)
  BY DEF List
<1> DEFINE C == A \cup B
           u == s \o t
           m == Len(s)
           n == Len(t)
<1>3. s \in Seq(C) /\ t \in Seq(C)
  BY <1>1, <1>2, SeqMonotonic
<1> HIDE DEF C
<1>4. /\ u \in Seq(C) /\ m \in Nat /\ n \in Nat /\ Len(u) = m + n
      /\ \A i \in 1..(m + n) : u[i] = IF i <= m THEN s[i] ELSE t[i - m]
  BY <1>3, ConcatProperties, LenProperties
<1>5. DOMAIN u = 1..(m + n) /\ DOMAIN s = 1..m /\ DOMAIN t = 1..n
  BY <1>3, <1>4, LenProperties
<1> HIDE DEF u, m, n
<1>6. ToSet(u) \subseteq ToSet(s) \cup ToSet(t)
  <2> SUFFICES ASSUME NEW i \in 1..(m + n) PROVE u[i] \in ToSet(s) \cup ToSet(t)
    BY <1>5 DEF ToSet
  <2>1. CASE i <= m
    <3>1. i \in 1..m
      BY <1>4, <2>1
    <3> QED BY <1>4, <1>5, <2>1, <3>1 DEF ToSet
  <2>2. CASE ~(i <= m)
    <3>1. i - m \in 1..n
      BY <1>4, <2>2
    <3> QED BY <1>4, <1>5, <2>2, <3>1 DEF ToSet
  <2> QED BY <2>1, <2>2
<1>7. ToSet(s) \subseteq ToSet(u)
  <2> SUFFICES ASSUME NEW i \in 1..m PROVE s[i] \in ToSet(u)
    BY <1>5 DEF ToSet
  <2>1. i \in 1..(m + n) /\ i <= m
    BY <1>4
  <2> QED BY <1>4, <1>5, <2>1 DEF ToSet
<1>8. ToSet(t) \subseteq ToSet(u)
  <2> SUFFICES ASSUME NEW i \in 1..n PROVE t[i] \in ToSet(u)
    BY <1>5 DEF ToSet
  <2>1. i + m \in 1..(m + n) /\ ~(i + m <= m) /\ (i + m) - m = i
    BY <1>4
  <2>2. u[i + m] = t[i]
    BY <1>4, <2>1
  <2> QED BY <1>4, <1>5, <2>1, <2>2 DEF ToSet
<1> QED BY <1>4, <1>6, <1>7, <1>8 DEF List, u

-----------------------------------------------------------------------------
Conn == [peer : Remote \cup {NoActor.peer}, is : {"none", "deaf", "starting", "open", "ended"},
         initiator : BOOLEAN]

\* The queues carry what is about peers, and every connection belongs to one.
PeersTypes ==
    /\ List(events) /\ List(control) /\ List(orders)
    /\ \A m \in ToSet(events) \cup ToSet(control) \cup ToSet(orders) : m.peer \in Remote
    /\ table \in [Remote -> Nat] /\ actor \in [Session -> Conn]
    /\ \A s \in Session : actor[s].is # "none" => actor[s].peer \in Remote
    /\ inbox = [s \in Session |-> inbox[s]] /\ \A s \in Session : List(inbox[s])
    /\ spent.session \in Nat
    /\ spent = [session |-> spent.session, challenge |-> spent.challenge]

Closing(s) == \E m \in ToSet(inbox[s]) : m.do = "close"

\* Whom the table holds was spawned for that peer and was not told to close, and what was
\* not spawned yet was told nothing.
TableHolds ==
    /\ \A p \in Remote : table[p] # 0 =>
         /\ table[p] \in Session /\ table[p] <= spent.session
         /\ actor[table[p]].peer = p /\ actor[table[p]].is # "none" /\ ~Closing(table[p])
    /\ \A s \in Session : s > spent.session => actor[s].is = "none" /\ inbox[s] = <<>>

\* The connections whose end is on its way to the table.
Ends == {m \in ToSet(events) \cup ToSet(control) : m.is \in {"disconnected", "gone"}}
News == {<<m.peer, m.session>> : m \in Ends}
NewsTrue == \A m \in Ends : m.session \in Session /\ actor[m.session].is = "ended"

NotForgotten ==
    \A s \in Session :
      /\ Lives(s) => table[actor[s].peer] = s \/ Closing(s)
      /\ actor[s].is = "ended" /\ table[actor[s].peer] = s => <<actor[s].peer, s>> \in News

CachePeersInv == PeersTypes /\ TableHolds /\ NotForgotten /\ NewsTrue

LEMMA PairsEqual ==
    ASSUME NEW a, NEW b, NEW c, NEW d, <<a, b>> = <<c, d>> PROVE a = c /\ b = d
  OBVIOUS

LEMMA TableTrueMeans == ASSUME PeersTypes, NotForgotten PROVE TableTrue
<1>1. ToSet(events \o control) = ToSet(events) \cup ToSet(control)
  BY ListConcat DEF PeersTypes
<1>2. ASSUME NEW s \in Session, <<actor[s].peer, s>> \in News
      PROVE  \E m \in ToSet(events \o control) :
               m.is \in {"disconnected", "gone"} /\ m.peer = actor[s].peer /\ m.session = s
  <2>1. PICK m \in ToSet(events) \cup ToSet(control) :
          m.is \in {"disconnected", "gone"} /\ <<actor[s].peer, s>> = <<m.peer, m.session>>
    BY <1>2 DEF News, Ends
  <2>2. actor[s].peer = m.peer /\ s = m.session
    BY <2>1, PairsEqual
  <2> QED BY <1>1, <2>1, <2>2
<1> QED BY <1>2 DEF NotForgotten, TableTrue, Closing

LEMMA CachePeersStarts == ASSUME CachePeersAssumption, CachePeersInit PROVE CachePeersInv
<1>1. List(<<>>) /\ ToSet(<<>>) = {}
  BY ListEmpty
<1>2. NoActor \in Conn /\ NoActor.is = "none"
  BY DEF NoActor, Conn
<1>3. PeersTypes
  BY <1>1, <1>2 DEF CachePeersInit, PeersTypes
<1>4. TableHolds
  BY <1>2 DEF CachePeersInit, TableHolds
<1>5. NotForgotten
  BY <1>2 DEF CachePeersInit, NotForgotten, Lives
<1>6. NewsTrue
  BY <1>1 DEF CachePeersInit, NewsTrue, Ends
<1> QED BY <1>3, <1>4, <1>5, <1>6 DEF CachePeersInv

\* What neither spawns nor ends a connection, and forgets no news.
LEMMA NewsKeep ==
    ASSUME TableHolds, NotForgotten, UNCHANGED <<table, actor, inbox>>,
           spent'.session = spent.session, News \subseteq News'
    PROVE  TableHolds' /\ NotForgotten'
<1>1. TableHolds'
  BY DEF TableHolds, Closing
<1>2. NotForgotten'
  BY DEF NotForgotten, Lives, Closing
<1> QED BY <1>1, <1>2

\* A queue that grows.
LEMMA EventAdded ==
    ASSUME List(events), NEW e, events' = Append(events, e), control' = control
    PROVE  /\ List(events') /\ ToSet(events') = ToSet(events) \cup {e} /\ News \subseteq News'
           /\ Ends' \subseteq Ends \cup {e} /\ (e.is \notin {"disconnected", "gone"} => Ends' = Ends)
           /\ e.is = "disconnected" => <<e.peer, e.session>> \in News'
<1>1. List(events') /\ ToSet(events') = ToSet(events) \cup {e}
  BY ListAppend
<1> QED BY <1>1 DEF News, Ends

\* A connection is spawned; the one before it is told to close.
LEMMA SpawnKeeps ==
    ASSUME CachePeersAssumption, PeersTypes, TableHolds, NotForgotten,
           NEW p \in Remote, NEW is \in {"deaf", "starting"}, NEW initiator \in BOOLEAN,
           Spawn(p, is, initiator), News \subseteq News',
           inbox' = IF table[p] = 0 THEN inbox
                    ELSE [inbox EXCEPT ![table[p]] = Append(@, [do |-> "close", c |-> 0])]
    PROVE  /\ table' \in [Remote -> Nat] /\ actor' \in [Session -> Conn]
           /\ \A s \in Session : actor'[s].is # "none" => actor'[s].peer \in Remote
           /\ inbox' = [s \in Session |-> inbox'[s]] /\ \A s \in Session : List(inbox'[s])
           /\ spent'.session \in Nat
           /\ spent' = [session |-> spent'.session, challenge |-> spent'.challenge]
           /\ TableHolds' /\ NotForgotten'
<1> DEFINE s0 == spent.session + 1
           close == [do |-> "close", c |-> 0]
           conn == [peer |-> p, is |-> is, initiator |-> initiator]
<1>1. /\ s0 \in Session /\ spent.session \in Nat
      /\ spent' = [session |-> s0, challenge |-> spent.challenge]
      /\ actor' = [actor EXCEPT ![s0] = conn] /\ table' = [table EXCEPT ![p] = s0]
  BY DEF Spawn, PeersTypes
<1>2. s0 \in Nat /\ s0 # 0 /\ s0 > spent.session /\ ~(s0 <= spent.session)
  BY <1>1
<1> HIDE DEF s0
<1>3. conn \in Conn /\ conn.peer = p /\ conn.is # "none" /\ conn.is # "ended"
  BY DEF Conn
<1>4. /\ table' \in [Remote -> Nat] /\ actor' \in [Session -> Conn]
      /\ \A q \in Remote : table'[q] = IF q = p THEN s0 ELSE table[q]
      /\ \A s \in Session : actor'[s] = IF s = s0 THEN conn ELSE actor[s]
  <2> HIDE DEF conn
  <2> QED BY <1>1, <1>2, <1>3 DEF PeersTypes
<1>5. \A s \in Session :
        inbox'[s] = IF table[p] # 0 /\ s = table[p] THEN Append(inbox[s], close) ELSE inbox[s]
  BY DEF PeersTypes
<1>6. /\ inbox' = [s \in Session |-> inbox'[s]]
      /\ \A s \in Session : List(inbox'[s]) /\ ToSet(inbox[s]) \subseteq ToSet(inbox'[s])
  <2>1. inbox' = [s \in Session |-> inbox'[s]]
    BY DEF PeersTypes
  <2> HIDE DEF close
  <2>2. \A s \in Session : List(inbox'[s]) /\ ToSet(inbox[s]) \subseteq ToSet(inbox'[s])
    BY <1>5, ListAppend DEF PeersTypes
  <2> QED BY <2>1, <2>2
<1>7. table[p] # 0 => /\ table[p] \in Session /\ table[p] # s0
                      /\ close \in ToSet(inbox'[table[p]]) /\ actor[table[p]].peer = p
  <2> HIDE DEF close
  <2> QED BY <1>2, <1>5, ListAppend DEF PeersTypes, TableHolds
<1>8. inbox'[s0] = <<>>
  BY <1>1, <1>2, <1>5, <1>7 DEF TableHolds
<1>9. \A q \in Remote : q # p /\ table[q] # 0 => table[q] # s0 /\ inbox'[table[q]] = inbox[table[q]]
  <2> SUFFICES ASSUME NEW q \in Remote, q # p, table[q] # 0
               PROVE  table[q] # s0 /\ inbox'[table[q]] = inbox[table[q]]
    OBVIOUS
  <2>1. table[q] \in Session /\ table[q] <= spent.session /\ actor[table[q]].peer = q
    BY DEF TableHolds
  <2>2. table[q] # s0
    BY <1>2, <2>1
  <2>3. table[p] # 0 => table[q] # table[p]
    BY <1>7, <2>1
  <2> QED BY <1>5, <2>1, <2>2, <2>3
<1> HIDE DEF conn, close
<1>10. TableHolds'
  <2>1. ASSUME NEW q \in Remote, table'[q] # 0
        PROVE  /\ table'[q] \in Session /\ table'[q] <= s0
               /\ actor'[table'[q]].peer = q /\ actor'[table'[q]].is # "none"
               /\ \A m \in ToSet(inbox'[table'[q]]) : m.do # "close"
    <3>1. CASE q = p
      <4>1. table'[q] = s0 /\ actor'[s0] = conn /\ s0 <= s0
        BY <1>1, <1>2, <1>4, <3>1
      <4>2. ToSet(inbox'[s0]) = {}
        BY <1>8, ListEmpty
      <4> QED BY <1>1, <1>3, <3>1, <4>1, <4>2 DEF Closing
    <3>2. CASE q # p
      <4>1. table'[q] = table[q] /\ table[q] # 0
        BY <1>4, <2>1, <3>2
      <4>2. /\ table[q] \in Session /\ table[q] <= spent.session /\ actor[table[q]].peer = q
            /\ actor[table[q]].is # "none" /\ ~Closing(table[q])
        BY <4>1 DEF TableHolds
      <4>3. table[q] # s0 /\ inbox'[table[q]] = inbox[table[q]]
        BY <1>9, <3>2, <4>1
      <4>4. table[q] <= s0
        BY <1>1, <4>2 DEF s0, Session
      <4> QED BY <1>4, <4>1, <4>2, <4>3, <4>4 DEF Closing
    <3> QED BY <3>1, <3>2
  <2>2. ASSUME NEW s \in Session, s > s0 PROVE actor'[s].is = "none" /\ inbox'[s] = <<>>
    <3>1. s > spent.session /\ s # s0
      BY <1>1, <2>2 DEF s0, Session
    <3>2. actor[s].is = "none" /\ inbox[s] = <<>>
      BY <3>1 DEF TableHolds
    <3>3. ~(table[p] # 0 /\ s = table[p])
      BY <3>2 DEF TableHolds
    <3> QED BY <1>4, <1>5, <3>1, <3>2, <3>3
  <2> QED BY <1>1, <2>1, <2>2 DEF TableHolds, Closing
<1>11. NotForgotten'
  <2>1. ASSUME NEW s \in Session, Lives(s)' PROVE table'[actor'[s].peer] = s \/ Closing(s)'
    <3>1. CASE s = s0
      BY <1>3, <1>4, <3>1
    <3>2. CASE s # s0
      <4>1. actor'[s] = actor[s] /\ Lives(s)
        BY <1>4, <2>1, <3>2 DEF Lives
      <4>2. actor[s].peer \in Remote
        BY <4>1 DEF Lives, PeersTypes
      <4>3. CASE Closing(s)
        BY <1>6, <4>3 DEF Closing
      <4>4. CASE table[actor[s].peer] = s
        <5>1. CASE actor[s].peer = p
          <6>1. table[p] = s /\ s # 0
            BY <4>4, <5>1 DEF Session
          <6> QED BY <1>7, <6>1 DEF Closing, close
        <5>2. CASE actor[s].peer # p
          BY <1>4, <4>1, <4>2, <4>4, <5>2
        <5> QED BY <5>1, <5>2
      <4> QED BY <4>1, <4>3, <4>4 DEF NotForgotten
    <3> QED BY <3>1, <3>2
  <2>2. ASSUME NEW s \in Session, actor'[s].is = "ended", table'[actor'[s].peer] = s
        PROVE  <<actor'[s].peer, s>> \in News'
    <3>1. s # s0 /\ actor'[s] = actor[s]
      BY <1>3, <1>4, <2>2
    <3>2. actor[s].peer \in Remote
      BY <2>2, <3>1 DEF PeersTypes
    <3>3. table[actor[s].peer] = s
      BY <1>4, <2>2, <3>1, <3>2
    <3> QED BY <2>2, <3>1, <3>3 DEF NotForgotten
  <2> QED BY <2>1, <2>2 DEF NotForgotten
<1>12. \A s \in Session : actor'[s].is # "none" => actor'[s].peer \in Remote
  BY <1>3, <1>4 DEF PeersTypes
<1> QED BY <1>1, <1>2, <1>4, <1>6, <1>10, <1>11, <1>12

\* Something is written into the inbox of whom the table holds.
LEMMA Written ==
    ASSUME PeersTypes, TableHolds, NEW p \in Remote, NEW m, table[p] # 0,
           inbox' = [inbox EXCEPT ![table[p]] = Append(@, m)]
    PROVE  /\ inbox' = [s \in Session |-> inbox'[s]]
           /\ \A s \in Session : List(inbox'[s])
           /\ \A s \in Session :
                ToSet(inbox'[s]) = IF s = table[p] THEN ToSet(inbox[s]) \cup {m} ELSE ToSet(inbox[s])
           /\ \A s \in Session : s > spent.session => inbox'[s] = inbox[s]
<1>1. table[p] \in Session /\ table[p] <= spent.session /\ spent.session \in Nat
  BY DEF TableHolds, PeersTypes
<1>2. \A s \in Session : inbox'[s] = IF s = table[p] THEN Append(inbox[s], m) ELSE inbox[s]
  BY <1>1 DEF PeersTypes
<1>3. inbox' = [s \in Session |-> inbox'[s]]
  BY DEF PeersTypes
<1>4. \A s \in Session : s > spent.session => s # table[p]
  BY <1>1 DEF Session
<1>5. \A s \in Session : List(Append(inbox[s], m)) /\ ToSet(Append(inbox[s], m)) = ToSet(inbox[s]) \cup {m}
  BY ListAppend DEF PeersTypes
<1> QED BY <1>2, <1>3, <1>4, <1>5 DEF PeersTypes

LEMMA TakeOrderKeeps == ASSUME CachePeersInv, TakeOrder PROVE CachePeersInv'
<1> USE DEF CachePeersInv
<1> DEFINE o == Head(orders)
           s0 == table[o.peer]
           hello == [do |-> "hello", c |-> o.c]
<1>1. /\ orders # <<>> /\ orders' = Tail(orders)
      /\ inbox' = IF s0 = 0 THEN inbox ELSE [inbox EXCEPT ![s0] = Append(@, hello)]
      /\ UNCHANGED <<table, actor, events, control, spent>>
  BY DEF TakeOrder
<1>2. List(orders') /\ ToSet(orders) = ToSet(orders') \cup {o}
  BY <1>1, ListTail DEF PeersTypes
<1>3. o.peer \in Remote
  BY <1>2 DEF PeersTypes
<1>4. News' = News
  BY <1>1 DEF News, Ends
<1>5. hello.do # "close"
  OBVIOUS
<1> HIDE DEF hello
<1>6. /\ inbox' = [s \in Session |-> inbox'[s]]
      /\ \A s \in Session : List(inbox'[s])
      /\ \A s \in Session : ToSet(inbox[s]) \subseteq ToSet(inbox'[s])
                            /\ ToSet(inbox'[s]) \subseteq ToSet(inbox[s]) \cup {hello}
      /\ \A s \in Session : s > spent.session => inbox'[s] = inbox[s]
  <2>1. CASE s0 = 0
    BY <1>1, <2>1 DEF PeersTypes
  <2>2. CASE s0 # 0
    <3>1. /\ inbox' = [s \in Session |-> inbox'[s]] /\ \A s \in Session : List(inbox'[s])
          /\ \A s \in Session :
               ToSet(inbox'[s]) = IF s = s0 THEN ToSet(inbox[s]) \cup {hello} ELSE ToSet(inbox[s])
          /\ \A s \in Session : s > spent.session => inbox'[s] = inbox[s]
      BY <1>1, <1>3, <2>2, Written
    <3> HIDE DEF s0
    <3> QED BY <3>1
  <2> QED BY <2>1, <2>2
<1>7. PeersTypes'
  BY <1>1, <1>2, <1>6 DEF PeersTypes
<1>8. \A s \in Session : Closing(s)' <=> Closing(s)
  BY <1>5, <1>6 DEF Closing
<1>9. TableHolds'
  BY <1>1, <1>6, <1>8 DEF TableHolds
<1>10. NotForgotten'
  BY <1>1, <1>4, <1>8 DEF NotForgotten, Lives
<1>11. NewsTrue'
  BY <1>1 DEF NewsTrue, Ends
<1> QED BY <1>7, <1>9, <1>10, <1>11

LEMMA DropPeerKeeps ==
    ASSUME CachePeersInv, NEW p \in Remote, DropPeer(p), UNCHANGED <<actor, spent>>,
           News \subseteq News'
    PROVE  /\ table' \in [Remote -> Nat]
           /\ inbox' = [s \in Session |-> inbox'[s]] /\ \A s \in Session : List(inbox'[s])
           /\ TableHolds' /\ NotForgotten'
<1> USE DEF CachePeersInv
<1> DEFINE close == [do |-> "close", c |-> 0]
<1>1. /\ table' = [table EXCEPT ![p] = 0]
      /\ inbox' = IF table[p] = 0 THEN inbox ELSE [inbox EXCEPT ![table[p]] = Append(@, close)]
  BY DEF DropPeer
<1>2. close.do = "close"
  OBVIOUS
<1> HIDE DEF close
<1>3. table' \in [Remote -> Nat] /\ \A q \in Remote : table'[q] = IF q = p THEN 0 ELSE table[q]
  BY <1>1 DEF PeersTypes
<1>4. /\ inbox' = [s \in Session |-> inbox'[s]]
      /\ \A s \in Session : List(inbox'[s])
      /\ \A s \in Session :
           ToSet(inbox'[s]) = IF table[p] # 0 /\ s = table[p] THEN ToSet(inbox[s]) \cup {close}
                              ELSE ToSet(inbox[s])
      /\ \A s \in Session : s > spent.session => inbox'[s] = inbox[s]
  <2>1. CASE table[p] = 0
    BY <1>1, <2>1 DEF PeersTypes
  <2>2. CASE table[p] # 0
    BY <1>1, <2>2, Written
  <2> QED BY <2>1, <2>2
<1>5. TableHolds'
  <2>1. ASSUME NEW q \in Remote, table'[q] # 0
        PROVE  /\ table'[q] \in Session /\ table'[q] <= spent.session
               /\ actor[table'[q]].peer = q /\ actor[table'[q]].is # "none"
               /\ \A m \in ToSet(inbox'[table'[q]]) : m.do # "close"
    <3>1. q # p /\ table'[q] = table[q]
      BY <1>3, <2>1
    <3>2. /\ table[q] \in Session /\ table[q] <= spent.session /\ actor[table[q]].peer = q
          /\ actor[table[q]].is # "none" /\ ~Closing(table[q])
      BY <2>1, <3>1 DEF TableHolds
    <3>3. ~(table[p] # 0 /\ table[q] = table[p])
      BY <3>1, <3>2 DEF TableHolds
    <3>4. ToSet(inbox'[table[q]]) = ToSet(inbox[table[q]])
      BY <1>4, <3>2, <3>3
    <3> QED BY <3>1, <3>2, <3>4 DEF Closing
  <2> QED BY <1>4, <2>1 DEF TableHolds, Closing
<1>6. NotForgotten'
  <2>1. ASSUME NEW s \in Session, Lives(s) PROVE table'[actor[s].peer] = s \/ Closing(s)'
    <3>1. actor[s].peer \in Remote
      BY <2>1 DEF Lives, PeersTypes
    <3>2. CASE Closing(s)
      BY <1>4, <3>2 DEF Closing
    <3>3. CASE table[actor[s].peer] = s /\ actor[s].peer = p
      <4>1. table[p] = s /\ table[p] # 0
        BY <3>3 DEF Session
      <4> QED BY <1>2, <1>4, <4>1 DEF Closing
    <3>4. CASE table[actor[s].peer] = s /\ actor[s].peer # p
      BY <1>3, <3>1, <3>4
    <3> QED BY <2>1, <3>2, <3>3, <3>4 DEF NotForgotten
  <2>2. ASSUME NEW s \in Session, actor[s].is = "ended", table'[actor[s].peer] = s
        PROVE  <<actor[s].peer, s>> \in News'
    <3>1. actor[s].peer \in Remote /\ s # 0
      BY <2>2 DEF PeersTypes, Session
    <3>2. table[actor[s].peer] = s
      BY <1>3, <2>2, <3>1
    <3> QED BY <2>2, <3>2 DEF NotForgotten
  <2> QED BY <2>1, <2>2 DEF NotForgotten, Lives
<1> QED BY <1>3, <1>4, <1>5, <1>6

LEMMA DisconnectedKeeps ==
    ASSUME CachePeersInv, NEW p \in Remote, NEW s, Disconnected(p, s), UNCHANGED <<actor, spent>>,
           actor[s].is = "ended", News \ {<<p, s>>} \subseteq News'
    PROVE  table' \in [Remote -> Nat] /\ TableHolds' /\ NotForgotten'
<1> USE DEF CachePeersInv
<1>1. /\ table' = IF table[p] = s THEN [table EXCEPT ![p] = 0] ELSE table
      /\ inbox' = inbox
  BY DEF Disconnected
<1>2. table' \in [Remote -> Nat]
      /\ \A q \in Remote : table'[q] = IF q = p /\ table[p] = s THEN 0 ELSE table[q]
  BY <1>1 DEF PeersTypes
<1>3. TableHolds'
  <2>1. \A q \in Remote : table'[q] # 0 => table'[q] = table[q]
    BY <1>2
  <2> QED BY <1>1, <2>1 DEF TableHolds, Closing
<1>4. NotForgotten'
  <2>1. ASSUME NEW v \in Session, Lives(v) PROVE table'[actor[v].peer] = v \/ Closing(v)'
    <3>1. actor[v].peer \in Remote /\ v # s
      BY <2>1 DEF Lives, PeersTypes
    <3>2. CASE Closing(v)
      BY <1>1, <3>2 DEF Closing
    <3>3. CASE table[actor[v].peer] = v
      BY <1>2, <3>1, <3>3
    <3> QED BY <2>1, <3>2, <3>3 DEF NotForgotten
  <2>2. ASSUME NEW v \in Session, actor[v].is = "ended", table'[actor[v].peer] = v
        PROVE  <<actor[v].peer, v>> \in News'
    <3>1. actor[v].peer \in Remote /\ v # 0
      BY <2>2 DEF PeersTypes, Session
    <3>2. table[actor[v].peer] = v /\ ~(actor[v].peer = p /\ table[p] = s)
      BY <1>2, <2>2, <3>1
    <3>3. <<actor[v].peer, v>> \in News /\ ~(actor[v].peer = p /\ v = s)
      BY <2>2, <3>2 DEF NotForgotten
    <3>4. <<actor[v].peer, v>> # <<p, s>>
      BY <3>3, PairsEqual
    <3> QED BY <3>3, <3>4
  <2> QED BY <2>1, <2>2 DEF NotForgotten, Lives
<1> QED BY <1>2, <1>3, <1>4

LEMMA TakeControlKeeps == ASSUME CachePeersInv, TakeControl PROVE CachePeersInv'
<1> DEFINE k == Head(control)
<1>1. /\ control # <<>> /\ control' = Tail(control)
      /\ UNCHANGED <<actor, waiting, replies, events, orders, challenge, verified, joined, spent>>
      /\ \/ k.is = "drop" /\ DropPeer(k.peer)
         \/ k.is = "mark" /\ MarkVerified(k.peer)
         \/ k.is = "gone" /\ Disconnected(k.peer, k.session)
  BY DEF TakeControl
<1>2. List(control') /\ ToSet(control) = ToSet(control') \cup {k}
  BY <1>1, ListTail DEF CachePeersInv, PeersTypes
<1> HIDE DEF k
<1>3. k.peer \in Remote /\ (k.is = "gone" => k \in Ends)
  BY <1>2 DEF CachePeersInv, PeersTypes, Ends
<1>4. Ends' \subseteq Ends /\ Ends \ {k} \subseteq Ends' /\ (k.is # "gone" /\ k.is # "disconnected" => Ends' = Ends)
  BY <1>1, <1>2 DEF Ends
<1>5. /\ News \ {<<k.peer, k.session>>} \subseteq News'
      /\ k.is # "gone" /\ k.is # "disconnected" => News' = News
  BY <1>4 DEF News
<1>6. NewsTrue'
  BY <1>1, <1>4 DEF CachePeersInv, NewsTrue
<1>7. ASSUME table' \in [Remote -> Nat], inbox' = [s \in Session |-> inbox'[s]],
             \A s \in Session : List(inbox'[s])
      PROVE  PeersTypes'
  BY <1>1, <1>2, <1>7 DEF CachePeersInv, PeersTypes
<1>8. CASE k.is = "drop" /\ DropPeer(k.peer)
  <2>1. News \subseteq News'
    BY <1>5, <1>8
  <2>2. /\ table' \in [Remote -> Nat] /\ inbox' = [s \in Session |-> inbox'[s]]
        /\ \A s \in Session : List(inbox'[s])
        /\ TableHolds' /\ NotForgotten'
    BY <1>1, <1>3, <1>8, <2>1, DropPeerKeeps
  <2> QED BY <1>6, <1>7, <2>2 DEF CachePeersInv
<1>9. CASE k.is = "mark" /\ MarkVerified(k.peer)
  <2>1. UNCHANGED <<table, inbox>> /\ News \subseteq News'
    BY <1>5, <1>9 DEF MarkVerified
  <2>2. TableHolds' /\ NotForgotten'
    BY <1>1, <2>1, NewsKeep DEF CachePeersInv
  <2>3. PeersTypes'
    BY <1>7, <2>1 DEF CachePeersInv, PeersTypes
  <2> QED BY <1>6, <2>2, <2>3 DEF CachePeersInv
<1>10. CASE k.is = "gone" /\ Disconnected(k.peer, k.session)
  <2>1. actor[k.session].is = "ended"
    BY <1>3, <1>10 DEF CachePeersInv, NewsTrue
  <2>2. table' \in [Remote -> Nat] /\ TableHolds' /\ NotForgotten' /\ inbox' = inbox
    BY <1>1, <1>3, <1>5, <1>10, <2>1, DisconnectedKeeps DEF Disconnected
  <2>3. PeersTypes'
    BY <1>7, <2>2 DEF CachePeersInv, PeersTypes
  <2> QED BY <1>6, <2>2, <2>3 DEF CachePeersInv
<1> QED BY <1>1, <1>8, <1>9, <1>10

\* A connection ends that is told to, or is lost: the first is not in the table.
LEMMA EndsKeeps ==
    ASSUME CachePeersInv, NEW s \in Session, Lives(s), actor' = [actor EXCEPT ![s].is = "ended"],
           UNCHANGED <<table, spent>>, News \subseteq News',
           Closing(s) \/ <<actor[s].peer, s>> \in News',
           \A v \in Session : v # s => inbox'[v] = inbox[v],
           spent.session < s => inbox'[s] = <<>>,
           ToSet(inbox'[s]) \subseteq ToSet(inbox[s])
    PROVE  /\ actor' \in [Session -> Conn]
           /\ \A v \in Session : actor'[v].is # "none" => actor'[v].peer \in Remote
           /\ TableHolds' /\ NotForgotten' /\ \A m \in Ends : actor'[m.session].is = "ended"
<1> USE DEF CachePeersInv
<1>1. actor[s].is # "none" /\ actor[s].is # "ended" /\ actor[s].peer \in Remote
  BY DEF Lives, PeersTypes
<1>2. /\ actor' \in [Session -> Conn]
      /\ \A v \in Session : /\ actor'[v].peer = actor[v].peer
                            /\ actor'[v].is = IF v = s THEN "ended" ELSE actor[v].is
  BY DEF PeersTypes, Conn
<1>3. TableHolds'
  <2>1. ASSUME NEW q \in Remote, table[q] # 0
        PROVE  /\ table[q] \in Session /\ table[q] <= spent.session
               /\ actor'[table[q]].peer = q /\ actor'[table[q]].is # "none"
               /\ \A m \in ToSet(inbox'[table[q]]) : m.do # "close"
    BY <1>1, <1>2, <2>1 DEF TableHolds, Closing
  <2>2. \A v \in Session : v > spent.session => v # s
    BY <1>1 DEF TableHolds
  <2> QED BY <1>2, <2>1, <2>2 DEF TableHolds, Closing
<1>4. NotForgotten'
  <2>1. ASSUME NEW v \in Session, Lives(v)' PROVE table[actor[v].peer] = v \/ Closing(v)'
    <3>1. v # s /\ Lives(v)
      BY <1>2, <2>1 DEF Lives
    <3> QED BY <3>1 DEF NotForgotten, Closing
  <2>2. ASSUME NEW v \in Session, actor'[v].is = "ended", table[actor[v].peer] = v
        PROVE  <<actor[v].peer, v>> \in News'
    <3>1. CASE v = s
      <4>1. ~Closing(s)
        BY <1>1, <2>2, <3>1 DEF TableHolds, Session
      <4> QED BY <3>1, <4>1
    <3>2. CASE v # s
      BY <1>2, <2>2, <3>2 DEF NotForgotten
    <3> QED BY <3>1, <3>2
  <2> QED BY <1>2, <2>1, <2>2 DEF NotForgotten
<1>5. \A m \in Ends : actor'[m.session].is = "ended"
  BY <1>2 DEF NewsTrue
<1>6. \A v \in Session : actor'[v].is # "none" => actor'[v].peer \in Remote
  BY <1>1, <1>2 DEF PeersTypes
<1> QED BY <1>2, <1>3, <1>4, <1>5, <1>6

\* The steps that spawn a connection.
LEMMA SpawningKeeps ==
    ASSUME CachePeersAssumption, CachePeersInv, NEW p \in Remote,
           InitiateConnection(p) \/ HandleOffer(p) \/ HandleCandidate(p)
    PROVE  CachePeersInv'
<1> DEFINE reset == [is |-> "reset", peer |-> p]
           told == IF table[p] = 0 THEN inbox
                   ELSE [inbox EXCEPT ![table[p]] = Append(@, [do |-> "close", c |-> 0])]
<1>1. /\ \E is \in {"deaf", "starting"}, initiator \in BOOLEAN : Spawn(p, is, initiator)
      /\ inbox' = told /\ events' \in {events, Append(events, reset)}
      /\ control' = control /\ orders' = orders
  <2>1. CASE InitiateConnection(p)
    BY <2>1 DEF InitiateConnection
  <2>2. CASE HandleOffer(p)
    BY <2>2 DEF HandleOffer
  <2>3. CASE HandleCandidate(p)
    BY <2>3 DEF HandleCandidate
  <2> QED BY <2>1, <2>2, <2>3
<1>2. reset.is = "reset" /\ reset.peer = p
  OBVIOUS
<1> HIDE DEF reset
<1>3. /\ List(events') /\ ToSet(events') \subseteq ToSet(events) \cup {reset}
      /\ News \subseteq News' /\ Ends' = Ends
  <2>1. CASE events' = events
    BY <1>1, <2>1 DEF CachePeersInv, PeersTypes, News, Ends
  <2>2. CASE events' = Append(events, reset)
    BY <1>1, <1>2, <2>2, EventAdded DEF CachePeersInv, PeersTypes
  <2> QED BY <1>1, <2>1, <2>2
<1>4. PICK is \in {"deaf", "starting"}, initiator \in BOOLEAN : Spawn(p, is, initiator)
  BY <1>1
<1>5. /\ table' \in [Remote -> Nat] /\ actor' \in [Session -> Conn]
      /\ \A s \in Session : actor'[s].is # "none" => actor'[s].peer \in Remote
      /\ inbox' = [s \in Session |-> inbox'[s]] /\ \A s \in Session : List(inbox'[s])
      /\ spent'.session \in Nat
      /\ spent' = [session |-> spent'.session, challenge |-> spent'.challenge]
      /\ TableHolds' /\ NotForgotten'
  BY <1>1, <1>3, <1>4, SpawnKeeps DEF CachePeersInv
<1>6. PeersTypes'
  <2>1. /\ List(events') /\ List(control') /\ List(orders')
        /\ \A m \in ToSet(events') \cup ToSet(control') \cup ToSet(orders') : m.peer \in Remote
    BY <1>1, <1>2, <1>3 DEF CachePeersInv, PeersTypes
  <2> QED BY <1>5, <2>1 DEF PeersTypes
<1>7. NewsTrue'
  <2> SUFFICES ASSUME NEW m \in Ends PROVE m.session \in Session /\ actor'[m.session].is = "ended"
    BY <1>3 DEF NewsTrue
  <2>1. m.session \in Session /\ actor[m.session].is = "ended"
    BY DEF CachePeersInv, NewsTrue
  <2>2. m.session # spent.session + 1
    BY <2>1 DEF CachePeersInv, TableHolds, PeersTypes
  <2> QED BY <1>4, <2>1, <2>2 DEF Spawn, CachePeersInv, PeersTypes
<1> QED BY <1>5, <1>6, <1>7 DEF CachePeersInv

LEMMA ChannelOpensKeeps ==
    ASSUME CachePeersInv, NEW s \in Session, ChannelOpens(s) PROVE CachePeersInv'
<1> DEFINE e == [is |-> "connected", peer |-> actor[s].peer]
<1>1. /\ actor[s].is = "starting" /\ actor' = [actor EXCEPT ![s].is = "open"]
      /\ events' = Append(events, e)
      /\ UNCHANGED <<table, inbox, control, orders, spent>>
  BY DEF ChannelOpens
<1>2. e.is = "connected" /\ e.peer = actor[s].peer
  OBVIOUS
<1> HIDE DEF e
<1>3. /\ List(events') /\ ToSet(events') = ToSet(events) \cup {e} /\ News \subseteq News'
      /\ Ends' = Ends
  BY <1>1, <1>2, EventAdded DEF CachePeersInv, PeersTypes
<1>4. actor[s].peer \in Remote
  BY <1>1 DEF CachePeersInv, PeersTypes
<1>5. /\ actor' \in [Session -> Conn]
      /\ \A v \in Session : /\ actor'[v].peer = actor[v].peer
                            /\ actor'[v].is = IF v = s THEN "open" ELSE actor[v].is
  BY <1>1 DEF CachePeersInv, PeersTypes, Conn
<1>6. PeersTypes'
  <2>1. /\ List(events') /\ List(control') /\ List(orders')
        /\ \A m \in ToSet(events') \cup ToSet(control') \cup ToSet(orders') : m.peer \in Remote
    BY <1>1, <1>2, <1>3, <1>4 DEF CachePeersInv, PeersTypes
  <2>2. \A v \in Session : actor'[v].is # "none" => actor'[v].peer \in Remote
    BY <1>4, <1>5 DEF CachePeersInv, PeersTypes
  <2> QED BY <1>1, <1>5, <2>1, <2>2 DEF CachePeersInv, PeersTypes
<1>7. TableHolds'
  BY <1>1, <1>5 DEF CachePeersInv, TableHolds, Closing
<1>8. NotForgotten'
  <2>1. \A v \in Session : Lives(v)' <=> Lives(v)
    BY <1>1, <1>5 DEF Lives
  <2>2. \A v \in Session : Closing(v)' <=> Closing(v)
    BY <1>1 DEF Closing
  <2> QED BY <1>1, <1>3, <1>5, <2>1, <2>2 DEF CachePeersInv, NotForgotten
<1>9. NewsTrue'
  BY <1>1, <1>3, <1>5 DEF CachePeersInv, NewsTrue
<1> QED BY <1>6, <1>7, <1>8, <1>9 DEF CachePeersInv

LEMMA LostKeeps ==
    ASSUME CachePeersInv, NEW s \in Session, Lost(s) PROVE CachePeersInv'
<1> DEFINE e == [is |-> "disconnected", peer |-> actor[s].peer, session |-> s]
<1>1. /\ Lives(s) /\ actor' = [actor EXCEPT ![s].is = "ended"]
      /\ events' = Append(events, e)
      /\ UNCHANGED <<table, inbox, control, orders, spent>>
  BY DEF Lost
<1>2. e.is = "disconnected" /\ e.peer = actor[s].peer /\ e.session = s
  OBVIOUS
<1> HIDE DEF e
<1>3. /\ List(events') /\ ToSet(events') = ToSet(events) \cup {e} /\ News \subseteq News'
      /\ Ends' \subseteq Ends \cup {e} /\ <<e.peer, e.session>> \in News'
  BY <1>1, <1>2, EventAdded DEF CachePeersInv, PeersTypes
<1>4. actor[s].peer \in Remote /\ actor[s].is # "none"
  BY <1>1 DEF CachePeersInv, PeersTypes, Lives
<1>5. /\ actor' \in [Session -> Conn]
      /\ \A v \in Session : actor'[v].is # "none" => actor'[v].peer \in Remote
      /\ TableHolds' /\ NotForgotten' /\ \A m \in Ends : actor'[m.session].is = "ended"
  <2>1. spent.session < s => inbox'[s] = <<>>
    BY <1>1 DEF CachePeersInv, PeersTypes, TableHolds, Session
  <2> QED BY <1>1, <1>2, <1>3, <2>1, EndsKeeps
<1>6. PeersTypes'
  <2>1. /\ List(events') /\ List(control') /\ List(orders')
        /\ \A m \in ToSet(events') \cup ToSet(control') \cup ToSet(orders') : m.peer \in Remote
    BY <1>1, <1>2, <1>3, <1>4 DEF CachePeersInv, PeersTypes
  <2> QED BY <1>1, <1>5, <2>1 DEF CachePeersInv, PeersTypes
<1>7. NewsTrue'
  <2>1. actor'[s].is = "ended"
    BY <1>1 DEF CachePeersInv, PeersTypes, Conn
  <2> QED BY <1>2, <1>3, <1>5, <2>1 DEF CachePeersInv, NewsTrue
<1> QED BY <1>5, <1>6, <1>7 DEF CachePeersInv

LEMMA ObeysKeeps ==
    ASSUME CachePeersInv, NEW s \in Session, Obeys(s) PROVE CachePeersInv'
<1> DEFINE m == Head(inbox[s])
<1>1. /\ Lives(s) /\ inbox[s] # <<>> /\ inbox' = [inbox EXCEPT ![s] = Tail(@)]
      /\ UNCHANGED <<table, events, control, orders, spent>>
      /\ IF m.do = "close" THEN actor' = [actor EXCEPT ![s].is = "ended"] ELSE actor' = actor
  BY DEF Obeys
<1>2. List(Tail(inbox[s])) /\ ToSet(inbox[s]) = ToSet(Tail(inbox[s])) \cup {m}
  BY <1>1, ListTail DEF CachePeersInv, PeersTypes
<1> HIDE DEF m
<1>3. /\ inbox' = [v \in Session |-> inbox'[v]]
      /\ \A v \in Session : inbox'[v] = IF v = s THEN Tail(inbox[s]) ELSE inbox[v]
  BY <1>1 DEF CachePeersInv, PeersTypes
<1>4. \A v \in Session : List(inbox'[v])
  BY <1>2, <1>3 DEF CachePeersInv, PeersTypes
<1>5. /\ List(events') /\ List(control') /\ List(orders')
      /\ \A x \in ToSet(events') \cup ToSet(control') \cup ToSet(orders') : x.peer \in Remote
  BY <1>1 DEF CachePeersInv, PeersTypes
<1>6. News' = News /\ Ends' = Ends
  BY <1>1 DEF News, Ends
<1>7. ~(spent.session < s)
  BY <1>1 DEF CachePeersInv, PeersTypes, TableHolds, Session
<1>8. CASE m.do = "close"
  <2>1. Closing(s) /\ ToSet(inbox'[s]) \subseteq ToSet(inbox[s])
    BY <1>2, <1>3, <1>8 DEF Closing
  <2>2. /\ actor' \in [Session -> Conn]
        /\ \A v \in Session : actor'[v].is # "none" => actor'[v].peer \in Remote
        /\ TableHolds' /\ NotForgotten' /\ \A x \in Ends : actor'[x.session].is = "ended"
    BY <1>1, <1>3, <1>6, <1>7, <1>8, <2>1, EndsKeeps
  <2>3. PeersTypes'
    BY <1>1, <1>3, <1>4, <1>5, <2>2 DEF CachePeersInv, PeersTypes
  <2>4. NewsTrue'
    BY <1>6, <2>2 DEF CachePeersInv, NewsTrue
  <2> QED BY <2>2, <2>3, <2>4 DEF CachePeersInv
<1>9. CASE m.do # "close"
  <2>1. actor' = actor
    BY <1>1, <1>9
  <2>2. \A v \in Session : Closing(v)' <=> Closing(v)
    BY <1>2, <1>3, <1>9 DEF Closing
  <2>3. PeersTypes'
    BY <1>1, <1>3, <1>4, <1>5, <2>1 DEF CachePeersInv, PeersTypes
  <2>4. TableHolds'
    <3>1. \A v \in Session : v > spent.session => inbox'[v] = inbox[v]
      BY <1>3, <1>7
    <3> QED BY <1>1, <2>1, <2>2, <3>1 DEF CachePeersInv, TableHolds
  <2>5. NotForgotten'
    BY <1>1, <1>6, <2>1, <2>2 DEF CachePeersInv, NotForgotten, Lives
  <2>6. NewsTrue'
    BY <1>6, <2>1 DEF CachePeersInv, NewsTrue
  <2> QED BY <2>3, <2>4, <2>5, <2>6 DEF CachePeersInv
<1> QED BY <1>8, <1>9

LEMMA AnswersKeeps ==
    ASSUME CachePeersInv, NEW s \in Session, NEW good \in BOOLEAN, Answers(s, good)
    PROVE  CachePeersInv'
<1> DEFINE e == [is |-> "join", peer |-> actor[s].peer, session |-> s, c |-> Head(replies[s]),
                 good |-> good]
<1>1. /\ actor[s].is = "open" /\ events' = Append(events, e)
      /\ UNCHANGED <<table, actor, inbox, control, orders, spent>>
  BY DEF Answers
<1>2. e.is = "join" /\ e.peer = actor[s].peer
  OBVIOUS
<1> HIDE DEF e
<1>3. /\ List(events') /\ ToSet(events') = ToSet(events) \cup {e} /\ News \subseteq News'
      /\ Ends' = Ends
  BY <1>1, <1>2, EventAdded DEF CachePeersInv, PeersTypes
<1>4. actor[s].peer \in Remote
  BY <1>1 DEF CachePeersInv, PeersTypes
<1>5. PeersTypes'
  BY <1>1, <1>2, <1>3, <1>4 DEF CachePeersInv, PeersTypes
<1>6. TableHolds' /\ NotForgotten'
  BY <1>1, <1>3, NewsKeep DEF CachePeersInv
<1>7. NewsTrue'
  BY <1>1, <1>3 DEF CachePeersInv, NewsTrue
<1> QED BY <1>5, <1>6, <1>7 DEF CachePeersInv

LEMMA TakeEventKeeps == ASSUME CachePeersInv, TakeEvent PROVE CachePeersInv'
<1> DEFINE e == Head(events)
           gone == [is |-> "gone", peer |-> e.peer, session |-> e.session]
           mark == [is |-> "mark", peer |-> e.peer]
           drop == [is |-> "drop", peer |-> e.peer]
           order == [peer |-> e.peer, c |-> spent.challenge + 1]
<1>1. /\ events # <<>> /\ events' = Tail(events)
      /\ UNCHANGED <<table, marked, actor, inbox, waiting, replies>>
      /\ \/ e.is = "connected" /\ BeginHandshake(e.peer)
         \/ e.is = "disconnected" /\ GossipDisconnected(e.peer, e.session)
         \/ e.is = "reset" /\ Forget(e.peer) /\ UNCHANGED <<control, orders, joined, spent>>
         \/ e.is = "join" /\ HandleJoin(e.peer, e)
  BY DEF TakeEvent
<1>2. List(events') /\ ToSet(events) = ToSet(events') \cup {e}
  BY <1>1, ListTail DEF CachePeersInv, PeersTypes
<1>3. /\ gone.is = "gone" /\ gone.peer = e.peer /\ gone.session = e.session
      /\ mark.is = "mark" /\ mark.peer = e.peer /\ drop.is = "drop" /\ drop.peer = e.peer
      /\ order.peer = e.peer
  OBVIOUS
<1>4. /\ orders' \in {orders, Append(orders, order)}
      /\ spent'.session = spent.session
      /\ spent' = [session |-> spent'.session, challenge |-> spent'.challenge]
      /\ IF e.is = "disconnected" THEN control' = Append(control, gone)
         ELSE control' \in {control, Append(control, mark), Append(control, drop)}
  <2>1. CASE e.is = "connected" /\ BeginHandshake(e.peer)
    BY <2>1 DEF BeginHandshake, CachePeersInv, PeersTypes
  <2>2. CASE e.is = "disconnected" /\ GossipDisconnected(e.peer, e.session)
    BY <2>2 DEF GossipDisconnected, CachePeersInv, PeersTypes
  <2>3. CASE e.is = "reset" /\ Forget(e.peer) /\ UNCHANGED <<control, orders, joined, spent>>
    BY <2>3 DEF CachePeersInv, PeersTypes
  <2>4. CASE e.is = "join" /\ HandleJoin(e.peer, e)
    BY <2>4 DEF HandleJoin, CachePeersInv, PeersTypes
  <2> QED BY <1>1, <2>1, <2>2, <2>3, <2>4
<1> HIDE DEF e, gone, mark, drop, order
<1>5. e.peer \in Remote
  BY <1>2 DEF CachePeersInv, PeersTypes
<1>6. List(orders') /\ ToSet(orders') \subseteq ToSet(orders) \cup {order}
  BY <1>4, ListAppend DEF CachePeersInv, PeersTypes
<1>7. /\ List(control') /\ ToSet(control) \subseteq ToSet(control')
      /\ ToSet(control') \subseteq ToSet(control) \cup {gone, mark, drop}
      /\ e.is = "disconnected" => gone \in ToSet(control')
      /\ e.is # "disconnected" => ToSet(control') \subseteq ToSet(control) \cup {mark, drop}
  <2>0. \A x : /\ List(Append(control, x))
               /\ ToSet(Append(control, x)) = ToSet(control) \cup {x}
    BY ListAppend DEF CachePeersInv, PeersTypes
  <2>1. CASE control' = Append(control, gone) /\ e.is = "disconnected"
    BY <2>0, <2>1
  <2>2. CASE control' = control /\ e.is # "disconnected"
    BY <2>2 DEF CachePeersInv, PeersTypes
  <2>3. CASE control' = Append(control, mark) /\ e.is # "disconnected"
    BY <2>0, <2>3
  <2>4. CASE control' = Append(control, drop) /\ e.is # "disconnected"
    BY <2>0, <2>4
  <2> QED BY <1>4, <2>1, <2>2, <2>3, <2>4
<1>8. PeersTypes'
  <2>1. /\ List(events') /\ List(control') /\ List(orders')
        /\ \A m \in ToSet(events') \cup ToSet(control') \cup ToSet(orders') : m.peer \in Remote
    BY <1>2, <1>3, <1>5, <1>6, <1>7 DEF CachePeersInv, PeersTypes
  <2> QED BY <1>1, <1>4, <2>1 DEF CachePeersInv, PeersTypes
<1>9. News \subseteq News'
  <2> SUFFICES ASSUME NEW m \in Ends PROVE <<m.peer, m.session>> \in News'
    BY DEF News
  <2>1. CASE m = e
    <3>1. m.is \in {"disconnected", "gone"}
      BY DEF Ends
    <3>2. CASE e.is = "disconnected"
      <4>1. gone \in Ends'
        BY <1>3, <1>7, <3>2 DEF Ends
      <4> QED BY <1>3, <2>1, <4>1 DEF News
    <3>3. CASE e.is # "disconnected"
      <4>1. e.is \in {"connected", "reset", "join"}
        BY <1>1, <3>3
      <4> QED BY <2>1, <3>1, <3>3, <4>1
    <3> QED BY <3>2, <3>3
  <2>2. CASE m # e
    <3>1. m \in Ends'
      BY <1>2, <1>7, <2>2 DEF Ends
    <3> QED BY <3>1 DEF News
  <2> QED BY <2>1, <2>2
<1>10. NewsTrue'
  <2> SUFFICES ASSUME NEW m \in Ends' PROVE m.session \in Session /\ actor[m.session].is = "ended"
    BY <1>1 DEF NewsTrue
  <2>1. CASE m \in Ends
    BY <2>1 DEF CachePeersInv, NewsTrue
  <2>2. CASE m \notin Ends
    <3>1. m = gone /\ e.is = "disconnected"
      BY <1>2, <1>3, <1>7, <2>2 DEF Ends
    <3>2. e \in Ends
      BY <1>2, <3>1 DEF Ends
    <3> QED BY <1>3, <3>1, <3>2 DEF CachePeersInv, NewsTrue
  <2> QED BY <2>1, <2>2
<1>11. TableHolds' /\ NotForgotten'
  BY <1>1, <1>4, <1>9, NewsKeep DEF CachePeersInv
<1> QED BY <1>8, <1>10, <1>11 DEF CachePeersInv

LEMMA CachePeersGoOn ==
    ASSUME CachePeersAssumption, CachePeersInv, [CachePeersNext]_cache_peers PROVE CachePeersInv'
<1>1. CASE UNCHANGED cache_peers
  BY <1>1 DEF cache_peers, CachePeersInv, PeersTypes, TableHolds, NotForgotten, NewsTrue, Ends, News,
              Closing, Lives
<1> QED
  BY <1>1, SpawningKeeps, ChannelOpensKeeps, LostKeeps, ObeysKeeps, AnswersKeeps,
     TakeOrderKeeps, TakeControlKeeps, TakeEventKeeps
  DEF CachePeersNext

\* For any number of peers and connections, whatever order the queues are read in: a
\* connection that lives is in the table or was told to close, and one in the table that
\* has ended is about to be removed (peer_manager.rs, webrtc_peer.rs).
THEOREM TableIsTrue == ASSUME CachePeersAssumption PROVE CachePeersSpec => []TableTrue
<1>1. CachePeersInit => CachePeersInv
  BY CachePeersStarts
<1>2. CachePeersInv /\ [CachePeersNext]_cache_peers => CachePeersInv'
  BY CachePeersGoOn
<1>3. CachePeersInv => TableTrue
  BY TableTrueMeans DEF CachePeersInv
<1> QED BY <1>1, <1>2, <1>3, PTL DEF CachePeersSpec

=============================================================================
