------------------------- MODULE NeighbourProofs --------------------------
(***************************************************************************)
(* Proofs about what a node does with its neighbours: HintRouter, Conduct, *)
(* OnionCircuit and OnionRelay, each for any value of its constants.       *)
(***************************************************************************)
EXTENDS HintRouter, Conduct, OnionCircuit, OnionRelay, FiniteSetTheorems,
        SequenceTheorems, WellFoundedInduction, TLAPS

-----------------------------------------------------------------------------
(* HintRouter: hints on their way to their readers *)

HintTypes ==
    /\ flooded \subseteq Hint /\ received \subseteq Hint /\ delivered \subseteq Hint
    /\ recentHints \in Seq(Hint)
    /\ stored \subseteq Hint /\ own \subseteq Hint /\ arrived \subseteq Hint
    /\ opened \in [Hint -> 0..2] /\ counted \in [Hint -> 0..2]

Known == arrived \cup stored

\* Everything the router did with a hint, but for writing it, it did after the hint came
\* in; and what the caches remember is what was done.
Sourced ==
    /\ flooded \subseteq Known /\ Range(recentHints) \subseteq Known
    /\ \A h \in Hint : opened[h] > 0 => h \in Known
    /\ \A h \in delivered : opened[h] > 0 \/ h \in own
    /\ \A h \in Hint \ forgotten : /\ opened[h] > 0 \/ h \in own => h \in delivered
                                   /\ counted[h] > 0 => h \in received

HintInv == HintTypes /\ Sourced /\ NoneMissed /\ OnceEach

-----------------------------------------------------------------------------
\* More adds one to what is in S, up to two.
LEMMA MoreShape ==
    ASSUME NEW f \in [Hint -> 0..2], NEW S
    PROVE  /\ More(f, S) \in [Hint -> 0..2]
           /\ \A h \in Hint : /\ h \in S => More(f, S)[h] > 0
                              /\ h \in S /\ f[h] = 0 => More(f, S)[h] = 1
                              /\ h \notin S => More(f, S)[h] = f[h]
                              /\ More(f, S)[h] > 0 => h \in S \/ f[h] > 0
  BY DEF More

\* Only the hint remembered is new in the buffer.
LEMMA RememberShape ==
    ASSUME recentHints \in Seq(Hint), NEW h \in Hint, Remember(h)
    PROVE  /\ recentHints' \in Seq(Hint)
           /\ Range(recentHints') \subseteq Range(recentHints) \cup {h}
<1> DEFINE all == Append(recentHints, h)
<1>1. /\ all \in Seq(Hint) /\ Len(all) = Len(recentHints) + 1
      /\ \A i \in 1..Len(all) : all[i] \in Range(recentHints) \cup {h}
  BY DEF Range
<1>2. Range(all) \subseteq Range(recentHints) \cup {h}
  BY <1>1 DEF Range
<1>3. /\ Tail(all) \in Seq(Hint)
      /\ \A i \in 1..Len(Tail(all)) : Tail(all)[i] = all[i + 1] /\ i + 1 \in 1..Len(all)
  BY <1>1
<1>4. Range(Tail(all)) \subseteq Range(all)
  BY <1>1, <1>3 DEF Range
<1>5. recentHints' \in {recentHints, all, Tail(all)}
  BY DEF Remember, Remembered
<1> HIDE DEF all
<1> QED BY <1>1, <1>2, <1>3, <1>4, <1>5

LEMMA HintInvInit == HintInit => HintInv
  BY HintRouterAssumption
  DEF HintInit, HintInv, HintTypes, Sourced, Known, NoneMissed, OnceEach, Range

\* A hint that comes in, by whatever way, is buffered and tried with the keys there are.
LEMMA ComesIn ==
    ASSUME HintInv, NEW h \in Hint, Remember(h), TryOpen({h}, keys),
           Known' = Known \cup {h},
           own' = own /\ keys' = keys /\ forgotten' = forgotten,
           flooded' \in {flooded, flooded \cup {h}},
           arrived' \subseteq Hint /\ stored' \subseteq Hint,
           \/ received' = received /\ counted' = counted
           \/ /\ h \notin received /\ received' = received \cup {h}
              /\ counted' = More(counted, {h})
    PROVE  HintInv'
<1> DEFINE S == Opens({h}, keys)
<1>1. /\ recentHints' \in Seq(Hint)
      /\ Range(recentHints') \subseteq Range(recentHints) \cup {h}
  BY RememberShape DEF HintInv, HintTypes
<1>2. /\ S = {h} \/ S = {}
      /\ S = {h} <=> h \notin delivered /\ KeyOf[h] \in keys
  BY DEF Opens, OpenHint
<1>3. delivered' = delivered \cup S /\ opened' = More(opened, S)
  BY DEF TryOpen
<1>4. /\ opened' \in [Hint -> 0..2]
      /\ \A x \in Hint : /\ x \in S => opened'[x] > 0
                         /\ x \in S /\ opened[x] = 0 => opened'[x] = 1
                         /\ x \notin S => opened'[x] = opened[x]
                         /\ opened'[x] > 0 => x \in S \/ opened[x] > 0
  BY <1>3, MoreShape DEF HintInv, HintTypes
<1>5. /\ counted' \in [Hint -> 0..2]
      /\ \A x \in Hint : \/ counted'[x] = counted[x]
                         \/ x = h /\ h \notin received /\ h \in received'
                              /\ (counted[h] = 0 => counted'[h] = 1)
      /\ received \subseteq received' /\ received' \subseteq Hint
  BY MoreShape DEF HintInv, HintTypes
<1> HIDE DEF S
<1>6. HintTypes'
  BY <1>1, <1>2, <1>3, <1>4, <1>5 DEF HintInv, HintTypes
<1>7. Sourced'
  <2>1. flooded' \subseteq Known' /\ Range(recentHints') \subseteq Known'
    BY <1>1 DEF HintInv, Sourced
  <2>2. \A x \in Hint : opened'[x] > 0 => x \in Known'
    BY <1>2, <1>4 DEF HintInv, Sourced
  <2>3. \A x \in delivered' : opened'[x] > 0 \/ x \in own'
    BY <1>2, <1>3, <1>4 DEF HintInv, HintTypes, Sourced
  <2>4. ASSUME NEW x \in Hint \ forgotten'
        PROVE  /\ opened'[x] > 0 \/ x \in own' => x \in delivered'
               /\ counted'[x] > 0 => x \in received'
    BY <1>2, <1>3, <1>4, <1>5 DEF HintInv, HintTypes, Sourced
  <2> QED BY <2>1, <2>2, <2>3, <2>4 DEF Sourced
<1>8. NoneMissed'
  <2> SUFFICES ASSUME NEW x \in Range(recentHints'), KeyOf[x] \in keys'
               PROVE  opened'[x] > 0 \/ x \in own'
    BY DEF NoneMissed
  <2>1. CASE x = h
    <3>1. CASE h \in delivered
      BY <2>1, <3>1, <1>2, <1>4 DEF HintInv, Sourced
    <3>2. CASE h \notin delivered
      <4>1. h \in S
        BY <2>1, <3>2, <1>2
      <4> QED BY <2>1, <4>1, <1>4
    <3> QED BY <3>1, <3>2
  <2>2. CASE x # h
    <3>1. x \in Range(recentHints)
      BY <2>2, <1>1
    <3>2. x \in Hint
      BY <3>1 DEF HintInv, HintTypes, Range
    <3> QED BY <2>2, <3>1, <3>2, <1>2, <1>4 DEF HintInv, NoneMissed
  <2> QED BY <2>1, <2>2
<1>9. OnceEach'
  <2>1. \A x \in own' : x \in flooded' => x \in arrived' \cup stored'
    BY DEF HintInv, Sourced, Known
  <2>2. ASSUME NEW x \in Hint \ forgotten'
        PROVE  opened'[x] <= (IF x \in own' THEN 0 ELSE 1) /\ counted'[x] <= 1
    <3>1. x \in Hint \ forgotten /\ opened[x] \in 0..2 /\ counted[x] \in 0..2
      BY DEF HintInv, HintTypes
    <3>2. counted'[x] <= 1
      BY <3>1, <1>5 DEF HintInv, OnceEach, Sourced
    <3>3. opened'[x] <= (IF x \in own' THEN 0 ELSE 1)
      BY <3>1, <1>2, <1>4 DEF HintInv, OnceEach, Sourced
    <3> QED BY <3>2, <3>3
  <2> QED BY <2>1, <2>2 DEF OnceEach
<1> QED BY <1>6, <1>7, <1>8, <1>9 DEF HintInv

LEMMA HintInvNext == HintInv /\ [HintNext]_hint_vars => HintInv'
<1> SUFFICES ASSUME HintInv, [HintNext]_hint_vars
             PROVE  HintInv'
  OBVIOUS
<1> USE HintRouterAssumption
<1>1. ASSUME NEW k \in Key, AddKey(k) PROVE HintInv'
  <2> DEFINE S == Opens(Range(recentHints), keys')
  <2>1. delivered' = delivered \cup S /\ opened' = More(opened, S)
    BY <1>1 DEF AddKey, TryOpen
  <2>2. /\ opened' \in [Hint -> 0..2]
        /\ \A x \in Hint : /\ x \in S => opened'[x] > 0
                           /\ x \in S /\ opened[x] = 0 => opened'[x] = 1
                           /\ x \notin S => opened'[x] = opened[x]
                           /\ opened'[x] > 0 => x \in S \/ opened[x] > 0
    BY <2>1, MoreShape DEF HintInv, HintTypes
  <2>3. /\ S \subseteq Range(recentHints) /\ S \cap delivered = {}
        /\ \A x \in Range(recentHints) : KeyOf[x] \in keys' => x \in S \/ x \in delivered
        /\ Range(recentHints) \subseteq Hint
    BY DEF Opens, OpenHint, HintInv, HintTypes, Range
  <2> HIDE DEF S
  <2>4. HintTypes'
    BY <1>1, <2>1, <2>2, <2>3 DEF AddKey, HintInv, HintTypes
  <2>5. Sourced'
    BY <1>1, <2>1, <2>2, <2>3 DEF AddKey, HintInv, HintTypes, Sourced, Known
  <2>6. NoneMissed'
    BY <1>1, <2>1, <2>2, <2>3 DEF AddKey, HintInv, HintTypes, Sourced, NoneMissed
  <2>7. OnceEach'
    BY <1>1, <2>1, <2>2, <2>3 DEF AddKey, HintInv, HintTypes, Sourced, OnceEach
  <2> QED BY <2>4, <2>5, <2>6, <2>7 DEF HintInv
<1>2. ASSUME NEW k \in Key, RemoveKey(k) PROVE HintInv'
  BY <1>2 DEF RemoveKey, HintInv, HintTypes, Sourced, Known, NoneMissed, OnceEach
<1>3. ASSUME NEW h \in Hint, Originate(h) PROVE HintInv'
  BY <1>3 DEF Originate, HintInv, HintTypes, Sourced, Known, NoneMissed, OnceEach
<1>4. ASSUME NEW c \in HintCopy, HandleHint(c) PROVE HintInv'
  <2> DEFINE h == HintId(c)
  <2>0. h \in Hint
    BY DEF HintCopy, HintId
  <2>1. CASE h \in received
    BY <1>4, <2>0, <2>1 DEF HandleHint, HintInv, HintTypes, Sourced, Known, NoneMissed, OnceEach
  <2>2. CASE h \notin received
    <3>1. /\ Remember(h) /\ TryOpen({h}, keys) /\ flooded' = flooded \cup {h}
          /\ arrived' = arrived \cup {h} /\ UNCHANGED <<keys, stored, own, forgotten>>
          /\ received' = received \cup {h} /\ counted' = More(counted, {h})
      BY <1>4, <2>2 DEF HandleHint, TakeIn, Flood
    <3> HIDE DEF h
    <3> QED BY <2>0, <2>2, <3>1, ComesIn DEF Known, HintInv, HintTypes
  <2> QED BY <2>1, <2>2
<1>5. ASSUME NEW c \in HintCopy, HandleExitHint(c) PROVE HintInv'
  <2> DEFINE h == HintId(c)
  <2>1. /\ h \in Hint /\ Remember(h) /\ TryOpen({h}, keys) /\ flooded' = flooded \cup {h}
        /\ arrived' = arrived \cup {h} /\ UNCHANGED <<keys, received, stored, own, counted, forgotten>>
    BY <1>5 DEF HandleExitHint, TakeIn, Flood, HintCopy, HintId
  <2> HIDE DEF h
  <2> QED BY <2>1, ComesIn DEF Known, HintInv, HintTypes
<1>6. ASSUME NEW c \in HintCopy, IngestLocal(c) PROVE HintInv'
  <2> DEFINE h == HintId(c)
  <2>1. /\ h \in Hint /\ stored' = stored \cup {h}
        /\ UNCHANGED <<keys, flooded, received, own, counted, arrived, forgotten>>
        /\ \/ Remember(h) /\ TryOpen({h}, keys)
           \/ UNCHANGED <<recentHints, recentIds, delivered, opened>>
    BY <1>6 DEF IngestLocal, TakeIn, HintCopy, HintId
  <2> HIDE DEF h
  <2>2. CASE Remember(h) /\ TryOpen({h}, keys)
    BY <2>1, <2>2, ComesIn DEF Known, HintInv, HintTypes
  <2>3. CASE UNCHANGED <<recentHints, recentIds, delivered, opened>>
    BY <2>1, <2>3 DEF HintInv, HintTypes, Sourced, Known, NoneMissed, OnceEach
  <2> QED BY <2>1, <2>2, <2>3
<1>7. ASSUME NEW h \in Hint, Reflood(h) PROVE HintInv'
  BY <1>7 DEF Reflood, Flood, HintInv, HintTypes, Sourced, Known, NoneMissed, OnceEach
<1>8. ASSUME NEW h \in Hint, Expire(h) PROVE HintInv'
  BY <1>8 DEF Expire, HintInv, HintTypes, Sourced, Known, NoneMissed, OnceEach
<1>9. CASE UNCHANGED hint_vars
  BY <1>9 DEF hint_vars, HintInv, HintTypes, Sourced, Known, NoneMissed, OnceEach
<1> QED
  BY <1>1, <1>2, <1>3, <1>4, <1>5, <1>6, <1>7, <1>8, <1>9 DEF HintNext

\* Any hints, keys and buffer: what is buffered and can be opened has been, in whatever
\* order hint and key came (addKey, remember, tryOpen).
THEOREM NothingMissed == HintSpec => []NoneMissed
<1>1. HintInv => NoneMissed
  BY DEF HintInv
<1> QED BY <1>1, HintInvInit, HintInvNext, PTL DEF HintSpec

\* Any hints, keys and buffer: a hint is announced once while no cache forgot it, the
\* node's own never, and an own one is not sent before it came back (tryOpen, originate).
THEOREM AnnouncedOnce == HintSpec => []OnceEach
<1>1. HintInv => OnceEach
  BY DEF HintInv
<1> QED BY <1>1, HintInvInit, HintInvNext, PTL DEF HintSpec

-----------------------------------------------------------------------------
(* Conduct: what a neighbour may do *)

ConductTypes ==
    /\ clock \in Nat /\ ban \in Nat /\ link \in {"none", "open", "verified"}
    /\ admitted \in Seq(Nat)
    /\ bucket.tokens \in 0..Capacity /\ bucket.last \in {-1} \cup 0..clock
    /\ bucket = [tokens |-> bucket.tokens, last |-> bucket.last]
    /\ rtt \in Nat /\ pinged \in {-1} \cup 0..clock
    /\ \A p \in pings : p.at \in 0..clock

\* Whoever is banned has no connection.
NoneBanned == Banned => link = "none"

\* How old a ping can be that is not forgotten, and the last round of pings.
PingsRecent ==
    /\ rtt <= 3 * PingEvery
    /\ pinged >= 0 => clock - pinged <= PingEvery
    /\ \A p \in pings : pinged >= 0 /\ pinged - p.at <= 2 * PingEvery

\* What was dispatched since the i-th frame, with what is in the bucket, is not more than
\* the burst and what was refilled since.
Dispatched(i) == Len(admitted) - i + 1
Paid ==
    /\ bucket.last = -1 => admitted = <<>>
    /\ \A i \in 1..Len(admitted) :
         /\ admitted[i] <= bucket.last
         /\ Dispatched(i) + bucket.tokens <= Capacity + Refill * (bucket.last - admitted[i])
    /\ \A i, j \in 1..Len(admitted) :
         i <= j => j - i + 1 <= Capacity + Refill * (admitted[j] - admitted[i])

ConductInv == ConductTypes /\ NoneBanned /\ PingsRecent /\ Paid

LEMMA Refills ==
    ASSUME NEW r \in Nat, NEW a \in Int, NEW b \in Int, NEW c \in Int
    PROVE  r * (b - a) + (c - b) * r = r * (c - a) /\ (c >= b => (c - b) * r \in Nat)
<1>1. r * (b - a) = r * b - r * a /\ (c - b) * r = r * c - r * b /\ r * (c - a) = r * c - r * a
  OBVIOUS
<1>2. r * b \in Int /\ r * a \in Int /\ r * c \in Int
  OBVIOUS
<1>3. c >= b => (c - b) * r \in Nat
  <2> SUFFICES ASSUME c >= b PROVE (c - b) * r \in Nat
    OBVIOUS
  <2>1. c - b \in Nat
    OBVIOUS
  <2> DEFINE d == c - b
  <2> HIDE DEF d
  <2>2. \A e \in Nat : e * r \in Nat
    OBVIOUS
  <2> QED BY <2>1, <2>2
<1> QED BY <1>1, <1>2, <1>3

LEMMA Sooner ==
    ASSUME NEW m \in Int, NEW t \in Int, NEW k \in Int, NEW y \in Int, NEW c \in Int, NEW g \in Int,
           NEW x \in Int, m + t <= c + x, x + g = y, k <= t + g
    PROVE  m + k <= c + y
  OBVIOUS

LEMMA ConductStarts == ASSUME ConductAssumption, ConductInit PROVE ConductInv
<1>1. <<>> \in Seq(Nat) /\ Len(<<>>) = 0
  BY EmptySeq
<1>2. Capacity \in Nat /\ PingEvery \in Nat
  BY DEF ConductAssumption
<1>3. ConductTypes
  BY <1>1, <1>2 DEF ConductInit, ConductTypes, NoBucket
<1>4. NoneBanned /\ PingsRecent
  BY <1>2 DEF ConductInit, NoneBanned, Banned, PingsRecent
<1>5. Paid
  BY <1>1 DEF ConductInit, Paid
<1> QED BY <1>3, <1>4, <1>5 DEF ConductInv

\* The bucket after it is refilled.
LEMMA RefilledPays ==
    ASSUME ConductAssumption, ConductTypes, Paid
    PROVE  /\ Refilled.tokens \in 0..Capacity /\ Refilled.last = clock
           /\ Refilled = [tokens |-> Refilled.tokens, last |-> Refilled.last]
           /\ \A i \in 1..Len(admitted) :
                Dispatched(i) + Refilled.tokens <= Capacity + Refill * (clock - admitted[i])
<1>0. /\ Capacity \in Nat /\ Refill \in Nat /\ clock \in Nat /\ Len(admitted) \in Nat
      /\ \A i \in 1..Len(admitted) : admitted[i] \in Nat
  BY LenProperties, ElementOfSeq DEF ConductAssumption, ConductTypes
<1>1. CASE bucket.last = -1
  <2>1. Refilled = [tokens |-> Capacity, last |-> clock]
    BY <1>1 DEF Refilled
  <2>2. Len(admitted) = 0
    BY <1>1, EmptySeq DEF Paid
  <2> QED BY <1>0, <2>1, <2>2
<1>2. CASE bucket.last # -1
  <2> DEFINE gain == (clock - bucket.last) * Refill
             t == bucket.tokens + gain
             k == IF t < Capacity THEN t ELSE Capacity
  <2>1. Refilled = [tokens |-> k, last |-> clock]
    BY <1>2 DEF Refilled
  <2>2. bucket.tokens \in 0..Capacity /\ bucket.last \in Nat /\ bucket.last <= clock
    BY <1>0, <1>2 DEF ConductTypes
  <2>3. gain \in Nat
    BY <1>0, <2>2, Refills
  <2> HIDE DEF gain
  <2>4. k \in 0..Capacity /\ k <= bucket.tokens + gain
    BY <1>0, <2>2, <2>3
  <2> HIDE DEF k
  <2>5. ASSUME NEW i \in 1..Len(admitted)
        PROVE  Dispatched(i) + k <= Capacity + Refill * (clock - admitted[i])
    <3> DEFINE x == Refill * (bucket.last - admitted[i])
               y == Refill * (clock - admitted[i])
    <3>1. Dispatched(i) + bucket.tokens <= Capacity + x
      BY DEF Paid
    <3>2. x + gain = y
      <4>1. admitted[i] \in Int /\ bucket.last \in Int /\ clock \in Int /\ Refill \in Nat
        BY <1>0, <2>2
      <4>2. \A r \in Nat : \A a, e, f \in Int : r * (e - a) + (f - e) * r = r * (f - a)
        BY Refills
      <4>3. Refill * (bucket.last - admitted[i]) + (clock - bucket.last) * Refill
              = Refill * (clock - admitted[i])
        BY <4>1, <4>2
      <4> QED BY <4>3 DEF gain
    <3>3. x \in Int /\ Dispatched(i) \in Int
      <4>1. admitted[i] \in Nat /\ bucket.last - admitted[i] \in Int
        BY <1>0, <2>2
      <4>2. \A e \in Int : Refill * e \in Int
        BY <1>0
      <4>3. Len(admitted) - i + 1 \in Int
        BY <1>0
      <4> QED BY <4>1, <4>2, <4>3 DEF Dispatched
    <3> HIDE DEF x, y
    <3>4. Dispatched(i) + k <= Capacity + y
      <4>1. y \in Int /\ k \in Int /\ bucket.tokens \in Int /\ gain \in Int /\ Capacity \in Int
        BY <1>0, <2>2, <2>3, <2>4, <3>2, <3>3
      <4> QED BY <2>4, <3>1, <3>2, <3>3, <4>1, Sooner
    <3> QED BY <3>4 DEF y
  <2> QED BY <2>1, <2>4, <2>5
<1> QED BY <1>1, <1>2

\* What a frame that is dispatched, or not, does to the bucket and to the history.
LEMMA UnderstoodKeeps ==
    ASSUME ConductAssumption, ConductTypes, Paid, NEW handshake, Understood(handshake)
    PROVE  /\ admitted' \in Seq(Nat) /\ bucket'.tokens \in 0..Capacity /\ bucket'.last = clock
           /\ bucket' = [tokens |-> bucket'.tokens, last |-> bucket'.last]
           /\ Paid'
<1> DEFINE b == Refilled
           taken == [b EXCEPT !.tokens = @ - 1]
           more == Append(admitted, clock)
           n == Len(admitted)
           k == bucket'.tokens
           Gain(e) == Refill * (clock - e)
<1>0. /\ Capacity \in Nat /\ Refill \in Nat /\ clock \in Nat /\ n \in Nat
      /\ \A i \in 1..n : admitted[i] \in Nat /\ admitted[i] <= clock
  <2>1. \A i \in 1..n : admitted[i] \in Nat /\ admitted[i] <= bucket.last
    BY ElementOfSeq DEF ConductTypes, Paid
  <2>2. Capacity \in Nat /\ Refill \in Nat /\ clock \in Nat /\ n \in Nat
    BY LenProperties DEF ConductAssumption, ConductTypes
  <2>3. bucket.last <= clock /\ bucket.last \in Int
    BY <2>2 DEF ConductTypes
  <2> HIDE DEF n
  <2> QED BY <2>1, <2>2, <2>3
<1>1. /\ b.tokens \in 0..Capacity /\ b.last = clock /\ b = [tokens |-> b.tokens, last |-> b.last]
      /\ \A i \in 1..n : n - i + 1 + b.tokens <= Capacity + Gain(admitted[i])
  BY RefilledPays DEF Dispatched
<1>2. taken = [tokens |-> b.tokens - 1, last |-> clock]
  <2> HIDE DEF b
  <2> QED BY <1>1
<1>3. more \in Seq(Nat) /\ Len(more) = n + 1
  BY <1>0, AppendProperties DEF ConductTypes
<1>4. (\A i \in 1..n : more[i] = admitted[i]) /\ more[n + 1] = clock
  BY <1>0, AppendProperties DEF ConductTypes
<1>5. \A e \in Nat : Gain(e) \in Int /\ Gain(clock) = 0
  <2>1. \A e \in Int : Refill * e \in Int /\ Refill * 0 = 0
    BY <1>0
  <2>2. \A e \in Nat : clock - e \in Int
    BY <1>0
  <2>3. clock - clock = 0
    BY <1>0
  <2> QED BY <2>1, <2>2, <2>3
<1>6. \/ bucket' = b /\ b.tokens < 1 /\ admitted' = admitted
      \/ bucket' = taken /\ ~(b.tokens < 1) /\ admitted' \in {admitted, more}
  BY DEF Understood
<1> HIDE DEF b, taken, more, n, Gain
<1>7. /\ k \in 0..Capacity /\ bucket'.last = clock /\ bucket' = [tokens |-> k, last |-> clock]
      /\ k <= b.tokens
  BY <1>0, <1>1, <1>2, <1>6
<1>8. bucket'.last # -1
  BY <1>0, <1>7
<1>9. ASSUME admitted' = admitted PROVE Paid'
  <2>1. ASSUME NEW i \in 1..n PROVE n - i + 1 + k <= Capacity + Gain(admitted[i])
    <3> DEFINE y == Gain(admitted[i])
    <3>1. n - i + 1 + b.tokens <= Capacity + y /\ y \in Int
      BY <1>0, <1>1, <1>5
    <3> HIDE DEF y, k
    <3>2. k \in Int /\ b.tokens \in Int /\ Capacity \in Int /\ n - i + 1 \in Int
      BY <1>0, <1>1, <1>7
    <3>3. n - i + 1 + k <= Capacity + y
      BY <1>7, <3>1, <3>2
    <3> QED BY <3>3 DEF y
  <2>2. \A i, j \in 1..n : i <= j => j - i + 1 <= Capacity + Refill * (admitted[j] - admitted[i])
    BY DEF Paid, n
  <2> QED BY <1>0, <1>7, <1>8, <1>9, <2>1, <2>2 DEF Paid, Dispatched, n, Gain
<1>10. ASSUME admitted' = more, k = b.tokens - 1 PROVE Paid'
  <2>1. ASSUME NEW i \in 1..(n + 1)
        PROVE  /\ more[i] \in Nat /\ more[i] <= clock
               /\ (n + 1) - i + 1 + k <= Capacity + Gain(more[i])
    <3>1. CASE i = n + 1
      <4>1. more[i] = clock /\ Gain(clock) = 0
        BY <1>0, <1>4, <1>5, <3>1
      <4>2. (n + 1) - i + 1 + k <= Capacity
        <5> HIDE DEF k
        <5>1. k \in Int /\ b.tokens \in Int /\ b.tokens <= Capacity /\ k = b.tokens - 1
          BY <1>0, <1>1, <1>7, <1>10
        <5> QED BY <1>0, <3>1, <5>1
      <4> QED BY <1>0, <4>1, <4>2
    <3>2. CASE i \in 1..n
      <4> DEFINE y == Gain(admitted[i])
      <4>1. n - i + 1 + b.tokens <= Capacity + y
        BY <1>1, <3>2
      <4>2. admitted[i] \in Nat /\ admitted[i] <= clock
        BY <1>0, <3>2
      <4>3. y \in Int
        BY <1>5, <4>2
      <4>4. more[i] = admitted[i]
        BY <1>4, <3>2
      <4> HIDE DEF y, k
      <4>5. k \in Int /\ b.tokens \in Int /\ Capacity \in Int /\ n \in Int /\ i \in Int
        BY <1>0, <1>1, <1>7
      <4>6. k = b.tokens - 1
        BY <1>10
      <4>7. (n + 1) - i + 1 + k <= Capacity + y
        BY <4>1, <4>3, <4>5, <4>6
      <4> QED BY <4>2, <4>4, <4>7 DEF y
    <3> QED BY <1>0, <3>1, <3>2
  <2>2. ASSUME NEW i \in 1..(n + 1), NEW j \in 1..(n + 1), i <= j
        PROVE  j - i + 1 <= Capacity + Refill * (more[j] - more[i])
    <3>1. CASE j = n + 1
      <4>1. more[j] = clock
        BY <1>4, <3>1
      <4> DEFINE y == Gain(more[i])
      <4>2. (n + 1) - i + 1 + k <= Capacity + y /\ y \in Int
        BY <1>5, <2>1
      <4> HIDE DEF y, k
      <4>3. k \in Nat /\ Capacity \in Int /\ n \in Int /\ i \in Int
        BY <1>0, <1>7
      <4>4. j - i + 1 <= Capacity + y
        BY <3>1, <4>2, <4>3
      <4> QED BY <4>1, <4>4 DEF y, Gain
    <3>2. CASE j \in 1..n
      <4>1. i \in 1..n
        BY <1>0, <2>2, <3>2
      <4>2. j - i + 1 <= Capacity + Refill * (admitted[j] - admitted[i])
        BY <2>2, <3>2, <4>1 DEF Paid, n
      <4>3. more[i] = admitted[i] /\ more[j] = admitted[j]
        BY <1>4, <3>2, <4>1
      <4> QED BY <4>2, <4>3
    <3>3. j = n + 1 \/ j \in 1..n
      BY <1>0
    <3> QED BY <3>1, <3>2, <3>3
  <2>3. Len(admitted') = n + 1
    BY <1>3, <1>10
  <2> QED BY <1>7, <1>8, <1>10, <2>1, <2>2, <2>3 DEF Paid, Dispatched, Gain
<1>11. admitted' \in Seq(Nat)
  BY <1>3, <1>6 DEF ConductTypes
<1>12. Paid'
  <2>1. b.tokens - 1 = taken.tokens
    BY <1>2
  <2> QED BY <1>6, <1>9, <1>10, <2>1
<1> QED BY <1>7, <1>11, <1>12

\* Steps that dispatch nothing and leave the bucket, or take it away.
LEMMA BucketKeeps ==
    ASSUME ConductAssumption, Paid,
           UNCHANGED <<bucket, admitted>> \/ (bucket' = NoBucket /\ admitted' = <<>>)
    PROVE  Paid'
<1>1. CASE UNCHANGED <<bucket, admitted>>
  BY <1>1 DEF Paid, Dispatched
<1>2. CASE bucket' = NoBucket /\ admitted' = <<>>
  <2>1. Len(admitted') = 0
    BY <1>2, EmptySeq
  <2> QED BY <1>2, <2>1 DEF Paid
<1> QED BY <1>1, <1>2

LEMMA LiftedKeeps ==
    ASSUME Lifted, clock' = clock, clock \in Nat, ban \in Nat
    PROVE  ban' \in Nat /\ (Banned' => Banned)
  BY DEF Lifted, Banned

LEMMA ConductGoesOn == ASSUME ConductAssumption, ConductInv, [ConductNext]_conduct PROVE ConductInv'
<1> USE DEF ConductInv
<1>0. /\ Capacity \in Nat /\ PingEvery \in Nat /\ BanFor \in Nat /\ clock \in Nat /\ ban \in Nat
      /\ rtt \in Nat /\ pinged \in Int
  BY DEF ConductAssumption, ConductTypes
<1>g. Gone => /\ admitted' \in Seq(Nat) /\ bucket'.tokens \in 0..Capacity /\ bucket'.last = -1
              /\ bucket' = [tokens |-> bucket'.tokens, last |-> bucket'.last]
              /\ link' = "none"
  <2>1. <<>> \in Seq(Nat)
    BY EmptySeq
  <2> QED BY <1>0, <2>1 DEF Gone, NoBucket
<1>1. CASE Connects
  <2>1. ConductTypes'
    BY <1>0, <1>1, LiftedKeeps DEF Connects, ConductTypes
  <2>2. NoneBanned'
    BY <1>0, <1>1, LiftedKeeps DEF Connects, NoneBanned
  <2>3. PingsRecent' /\ Paid'
    BY <1>1, BucketKeeps DEF Connects, PingsRecent
  <2> QED BY <2>1, <2>2, <2>3
<1>2. CASE Verifies
  <2>1. ConductTypes'
    BY <1>2 DEF Verifies, ConductTypes
  <2>2. NoneBanned'
    BY <1>2 DEF Verifies, NoneBanned, Banned
  <2>3. PingsRecent' /\ Paid'
    BY <1>2, BucketKeeps DEF Verifies, PingsRecent
  <2> QED BY <2>1, <2>2, <2>3
<1>3. CASE Leaves
  <2>1. ConductTypes'
    BY <1>0, <1>3, <1>g DEF Leaves, ConductTypes
  <2>2. NoneBanned' /\ PingsRecent'
    BY <1>3, <1>g DEF Leaves, NoneBanned, PingsRecent
  <2>3. Paid'
    BY <1>3, BucketKeeps DEF Leaves, Gone
  <2> QED BY <2>1, <2>2, <2>3
<1>4. CASE TooLong
  <2>1. ConductTypes'
    BY <1>0, <1>4, LiftedKeeps DEF TooLong, ConductTypes
  <2>2. NoneBanned'
    BY <1>0, <1>4, LiftedKeeps DEF TooLong, NoneBanned
  <2>3. PingsRecent' /\ Paid'
    BY <1>4, BucketKeeps DEF TooLong, PingsRecent
  <2> QED BY <2>1, <2>2, <2>3
<1>5. CASE NotUnderstood
  <2>1. ban' \in Nat
    <3>1. CASE link = "verified"
      BY <1>0, <1>5, <3>1 DEF NotUnderstood, RecordViolation
    <3>2. CASE link # "verified"
      BY <1>0, <1>5, <3>2, LiftedKeeps DEF NotUnderstood
    <3> QED BY <3>1, <3>2
  <2>2. ConductTypes'
    BY <1>0, <1>5, <1>g, <2>1 DEF NotUnderstood, ConductTypes
  <2>3. NoneBanned' /\ PingsRecent'
    BY <1>5, <1>g DEF NotUnderstood, NoneBanned, PingsRecent
  <2>4. Paid'
    BY <1>5, BucketKeeps DEF NotUnderstood, Gone
  <2> QED BY <2>2, <2>3, <2>4
<1>6. ASSUME NEW handshake \in BOOLEAN, Understood(handshake) PROVE ConductInv'
  <2>1. /\ admitted' \in Seq(Nat) /\ bucket'.tokens \in 0..Capacity /\ bucket'.last = clock
        /\ bucket' = [tokens |-> bucket'.tokens, last |-> bucket'.last] /\ Paid'
    BY <1>6, UnderstoodKeeps
  <2>2. Lifted /\ UNCHANGED <<clock, link, pings, pinged, rtt>>
    BY <1>6 DEF Understood
  <2>3. ConductTypes'
    BY <1>0, <2>1, <2>2, LiftedKeeps DEF ConductTypes
  <2>4. NoneBanned' /\ PingsRecent'
    BY <1>0, <2>2, LiftedKeeps DEF NoneBanned, PingsRecent
  <2> QED BY <2>1, <2>3, <2>4
<1>7. CASE PingAll
  <2>1. UNCHANGED <<clock, link, bucket, scored, ban, rtt, admitted>> /\ pinged' = clock
    BY <1>7 DEF PingAll
  <2>2. \A p \in pings' : p.at \in 0..clock /\ clock - p.at <= 2 * PingEvery
    BY <1>0, <1>7 DEF PingAll, ConductTypes
  <2>3. ConductTypes'
    BY <1>0, <2>1, <2>2 DEF ConductTypes
  <2>4. PingsRecent'
    BY <1>0, <2>1, <2>2 DEF PingsRecent
  <2>5. NoneBanned' /\ Paid'
    BY <2>1, BucketKeeps DEF NoneBanned, Banned
  <2> QED BY <2>3, <2>4, <2>5
<1>8. ASSUME NEW p \in pings, HandlePong(p) PROVE ConductInv'
  <2>1. UNCHANGED <<clock, link, bucket, scored, ban, pinged, admitted>> /\ pings' \subseteq pings
        /\ rtt' = clock - p.at
    BY <1>8 DEF HandlePong
  <2>2. p.at \in 0..clock /\ pinged >= 0 /\ pinged - p.at <= 2 * PingEvery
        /\ clock - pinged <= PingEvery
    BY DEF ConductTypes, PingsRecent
  <2>3. rtt' \in Nat /\ rtt' <= 3 * PingEvery
    BY <1>0, <2>1, <2>2
  <2>4. ConductTypes'
    BY <2>1, <2>3 DEF ConductTypes
  <2>5. PingsRecent'
    BY <2>1, <2>3 DEF PingsRecent
  <2>6. NoneBanned' /\ Paid'
    BY <2>1, BucketKeeps DEF NoneBanned, Banned
  <2> QED BY <2>4, <2>5, <2>6
<1>9. CASE ClockTicks
  <2>1. clock' = clock + 1 /\ UNCHANGED <<link, bucket, scored, ban, pings, pinged, rtt, admitted>>
        /\ (pinged >= 0 => clock - pinged < PingEvery)
    BY <1>9 DEF ClockTicks
  <2>2. ConductTypes'
    <3>1. 0..clock \subseteq 0..(clock + 1) /\ clock + 1 \in Nat
      BY <1>0
    <3> DEFINE c == clock + 1
    <3>2. clock' = c /\ c \in Nat /\ 0..clock \subseteq 0..c
      BY <2>1, <3>1
    <3> HIDE DEF c
    <3> QED BY <2>1, <3>2 DEF ConductTypes
  <2>3. PingsRecent'
    BY <1>0, <2>1 DEF PingsRecent
  <2>4. NoneBanned' /\ Paid'
    BY <1>0, <2>1, BucketKeeps DEF NoneBanned, Banned
  <2> QED BY <2>2, <2>3, <2>4
<1>10. CASE UNCHANGED conduct
  <2>1. UNCHANGED <<clock, link, bucket, scored, ban, pings, pinged, rtt, admitted>>
    BY <1>10 DEF conduct
  <2> QED BY <2>1, BucketKeeps DEF ConductTypes, NoneBanned, Banned, PingsRecent
<1> QED BY <1>1, <1>2, <1>3, <1>4, <1>5, <1>6, <1>7, <1>8, <1>9, <1>10 DEF ConductNext

\* For every rate, burst, ban and interval of pings: a connection gets no more dispatched in
\* any stretch of time than the burst and what was refilled in it, a banned peer has no
\* connection, and no round trip is taken from a forgotten ping (RateLimiter.allow,
\* PeerMisbehaviorManager.isBanned, Heartbeat.pingAll).
THEOREM NeighboursAreHeldToTheirShare ==
    ASSUME ConductAssumption PROVE ConductSpec => []WellConducted
<1>1. ConductInit => ConductInv
  BY ConductStarts
<1>2. ConductInv /\ [ConductNext]_conduct => ConductInv'
  BY ConductGoesOn
<1>3. ConductInv => WellConducted
  <2> SUFFICES ASSUME ConductInv PROVE WellConducted
    OBVIOUS
  <2>1. DOMAIN admitted = 1..Len(admitted)
    BY LenProperties DEF ConductInv, ConductTypes
  <2> QED BY <2>1 DEF ConductInv, Paid, NoneBanned, PingsRecent, WellConducted
<1> QED BY <1>1, <1>2, <1>3, PTL DEF ConductSpec

-----------------------------------------------------------------------------
(* OnionCircuit: packets on their way to an exit *)

Cell == [msg : Msg, exit : Node, guard : Node, n : Nat]
Call == [st : {"idle", "waiting", "ok", "failed"}, attempt : Nat, tried : SUBSET Node]

CircuitTypes ==
    /\ peers \subseteq Node /\ guard \in Node \cup {None} /\ table \subseteq Node
    /\ queue \in Seq(Cell) /\ cells \subseteq Cell
    /\ sends \in [Msg -> Call]
    /\ announced \in [Node -> SUBSET Node]

Behind(c)    == c.exit \in announced[c.guard] /\ c.exit # c.guard
Differ(c, d) == c.msg # d.msg \/ c.n # d.n

\* The table holds what the guard of the moment has named, and the cells that wait have
\* an exit their guard named.
Named ==
    /\ guard \in Node => table \subseteq announced[guard]
    /\ guard = None => table = {}
    /\ \A c \in cells : Behind(c)
    /\ \A i \in 1..Len(queue) : Behind(queue[i])

\* The attempts of a message are numbered, and a number is used for one cell.
Once ==
    /\ \A c \in cells : c.n <= sends[c.msg].attempt
    /\ \A i \in 1..Len(queue) : queue[i].n <= sends[queue[i].msg].attempt
    /\ \A c \in cells, i \in 1..Len(queue) : Differ(c, queue[i])
    /\ \A i, j \in 1..Len(queue) : i # j => Differ(queue[i], queue[j])
    /\ \A c, d \in cells : c # d => Differ(c, d)

CircuitInv == CircuitTypes /\ Named /\ Once

-----------------------------------------------------------------------------
LEMMA CircuitInvInit == Init => CircuitInv
  BY OnionCircuitAssumption DEF Init, CircuitInv, CircuitTypes, Named, Once, Call, None

\* Whoever becomes the guard, the table is his.
LEMMA PinKeeps ==
    ASSUME CircuitTypes, Named, NEW g \in Guards, Pin(g), announced' = announced
    PROVE  /\ g \in Node \cup {None} /\ guard' = g /\ table' \subseteq Node
           /\ guard' \in Node => table' \subseteq announced'[guard']
           /\ guard' = None => table' = {}
<1>1. g \in Node \cup {None}
  BY DEF Guards, CircuitTypes
<1> QED BY <1>1 DEF Pin, TableOf, CircuitTypes, Named

\* An exit behind g is one g has named, and not g.
LEMMA ExitsNamed ==
    ASSUME CircuitTypes, Named, NEW g \in Node, NEW T, NEW x \in Exits(g, T)
    PROVE  x \in Node /\ x \in announced[g] /\ x # g
<1>1. x \in TableOf(g) \ {g}
  BY DEF Exits
<1> QED BY <1>1 DEF TableOf, CircuitTypes, Named

\* One attempt: it fails, or a cell with a number of its own joins the queue.
LEMMA AttemptKeeps ==
    ASSUME CircuitInv, NEW m \in Msg, Attempt(m),
           UNCHANGED <<peers, cells, announced>>
    PROVE  CircuitInv'
<1> USE DEF CircuitInv
<1>1. PICK g \in Guards :
        /\ Pin(g)
        /\ \/ Finish(m, "failed")
           \/ /\ g # None
              /\ \E x \in Exits(g, sends[m].tried) :
                   /\ sends' = [sends EXCEPT ![m] =
                                  [st |-> "waiting", attempt |-> sends[m].attempt + 1,
                                   tried |-> sends[m].tried \cup {x}]]
                   /\ queue' = Append(queue, [msg |-> m, exit |-> x, guard |-> g,
                                              n |-> sends[m].attempt + 1])
  BY DEF Attempt
<1>2. /\ guard' \in Node \cup {None} /\ g \in Node \cup {None} /\ table' \subseteq Node
      /\ guard' \in Node => table' \subseteq announced'[guard']
      /\ guard' = None => table' = {}
  BY <1>1, PinKeeps
<1>3. sends[m] \in Call /\ sends[m].attempt \in Nat /\ sends[m].tried \subseteq Node
  BY DEF CircuitTypes, Call
<1>4. CASE Finish(m, "failed")
  <2>1. /\ queue' = queue /\ sends' \in [Msg -> Call]
        /\ \A y \in Msg : sends'[y].attempt = sends[y].attempt
    BY <1>3, <1>4 DEF Finish, CircuitTypes, Call
  <2>2. CircuitTypes'
    BY <1>2, <2>1 DEF CircuitTypes
  <2>3. Named'
    BY <1>2, <2>1 DEF Named, Behind
  <2>4. Once'
    <3>0. cells \subseteq Cell /\ \A i \in 1..Len(queue) : queue[i] \in Cell
      BY DEF CircuitTypes
    <3>1. \A c \in cells : c.msg \in Msg
      BY <3>0 DEF Cell
    <3>2. \A i \in 1..Len(queue) : queue[i].msg \in Msg
      BY <3>0 DEF Cell
    <3>3. \A c \in cells : c.n <= sends'[c.msg].attempt
      BY <2>1, <3>1 DEF Once
    <3>4. \A i \in 1..Len(queue) : queue[i].n <= sends'[queue[i].msg].attempt
      BY <2>1, <3>2 DEF Once
    <3> QED BY <2>1, <3>3, <3>4 DEF Once, Differ
  <2> QED BY <2>2, <2>3, <2>4
<1>5. CASE /\ g # None
           /\ \E x \in Exits(g, sends[m].tried) :
                /\ sends' = [sends EXCEPT ![m] =
                               [st |-> "waiting", attempt |-> sends[m].attempt + 1,
                                tried |-> sends[m].tried \cup {x}]]
                /\ queue' = Append(queue, [msg |-> m, exit |-> x, guard |-> g,
                                           n |-> sends[m].attempt + 1])
  <2>1. PICK x \in Exits(g, sends[m].tried) :
          /\ sends' = [sends EXCEPT ![m] =
                         [st |-> "waiting", attempt |-> sends[m].attempt + 1,
                          tried |-> sends[m].tried \cup {x}]]
          /\ queue' = Append(queue, [msg |-> m, exit |-> x, guard |-> g,
                                     n |-> sends[m].attempt + 1])
    BY <1>5
  <2> DEFINE new == [msg |-> m, exit |-> x, guard |-> g, n |-> sends[m].attempt + 1]
  <2>2. g \in Node /\ x \in Node /\ x \in announced[g] /\ x # g
    BY <1>2, <1>5, ExitsNamed
  <2>3. new \in Cell /\ Behind(new) /\ new.msg = m /\ new.n = sends[m].attempt + 1
    BY <1>3, <2>2 DEF Cell, Behind
  <2>4. /\ queue' \in Seq(Cell) /\ Len(queue') = Len(queue) + 1 /\ Len(queue) \in Nat
        /\ \A i \in 1..Len(queue) : queue'[i] = queue[i] /\ queue[i] \in Cell
        /\ queue'[Len(queue) + 1] = new
    BY <2>1, <2>3 DEF CircuitTypes
  <2>5. /\ sends' \in [Msg -> Call]
        /\ \A y \in Msg : sends'[y].attempt >= sends[y].attempt /\ sends[y].attempt \in Nat
                          /\ sends'[y].attempt \in Nat
        /\ sends'[m].attempt = sends[m].attempt + 1
    BY <1>3, <2>1, <2>2 DEF CircuitTypes, Call
  <2> HIDE DEF new
  <2>6. \A i \in 1..Len(queue') : i \in 1..Len(queue) \/ i = Len(queue) + 1
    BY <2>4
  <2>7. CircuitTypes'
    BY <1>2, <2>4, <2>5 DEF CircuitTypes
  <2>8. Named'
    <3>1. \A i \in 1..Len(queue') : Behind(queue'[i])
      BY <2>3, <2>4, <2>6 DEF Named
    <3>2. \A c \in cells' : Behind(c)
      BY DEF Named
    <3> QED BY <1>2, <3>1, <3>2 DEF Named, Behind
  <2>9. Once'
    <3>1. \A c \in cells : c \in Cell /\ c.n \in Nat /\ c.msg \in Msg
      BY DEF CircuitTypes, Cell
    <3>2. \A i \in 1..Len(queue) : queue[i].n \in Nat /\ queue[i].msg \in Msg
      BY <2>4 DEF Cell
    <3>3. \A c \in cells : Differ(c, new)
      BY <2>3, <2>5, <3>1 DEF Once, Differ
    <3>4. \A i \in 1..Len(queue) : Differ(queue[i], new) /\ Differ(new, queue[i])
      BY <2>3, <2>5, <3>2 DEF Once, Differ
    <3>5. \A c \in cells' : c.n <= sends'[c.msg].attempt
      BY <2>5, <3>1 DEF Once
    <3>6. \A i \in 1..Len(queue') : queue'[i].n <= sends'[queue'[i].msg].attempt
      <4>1. \A i \in 1..Len(queue) : queue[i].n <= sends'[queue[i].msg].attempt
        BY <2>5, <3>2 DEF Once
      <4>2. new.n <= sends'[new.msg].attempt
        BY <1>3, <2>3, <2>5
      <4> QED BY <2>4, <2>6, <4>1, <4>2
    <3>7. \A c \in cells', i \in 1..Len(queue') : Differ(c, queue'[i])
      BY <2>4, <2>6, <3>3 DEF Once
    <3>8. \A i, j \in 1..Len(queue') : i # j => Differ(queue'[i], queue'[j])
      BY <2>4, <2>6, <3>4 DEF Once
    <3> QED BY <3>5, <3>6, <3>7, <3>8 DEF Once, Differ
  <2> QED BY <2>7, <2>8, <2>9
<1> QED BY <1>1, <1>4, <1>5

\* A set of natural numbers that is not empty has a least element.
LEMMA Least ==
    ASSUME NEW T, T \subseteq Nat, T # {}
    PROVE  \E x \in T : \A y \in T : ~(y < x)
<1>1. \E x \in T : \A y \in T : ~(<<y, x>> \in OpToRel(<, Nat))
  BY NatLessThanWellFounded, WFMin
<1> QED BY <1>1 DEF OpToRel

\* The cell that leaves is one of the queue, with a new exit if its guard is not the
\* guard of the moment; those before it are dropped.
LEMMA TakenShape ==
    ASSUME CircuitTypes, NEW g \in Node
    PROVE  \E k \in 1..(Len(queue) + 1) :
             /\ Taken(g).rest = SubSeq(queue, k + 1, Len(queue))
             /\ \A c \in Taken(g).items :
                  /\ k <= Len(queue)
                  /\ \/ queue[k].guard = g /\ c = queue[k]
                     \/ \E x \in Exits(g, {}) :
                          c = [queue[k] EXCEPT !.guard = g, !.exit = x]
<1> DEFINE pool  == Exits(g, {})
           Ok(i) == queue[i].guard = g \/ pool # {}
           Good(i) == /\ \A j \in 1..(i - 1) : ~Ok(j)
                      /\ i <= Len(queue) => Ok(i)
           k == CHOOSE i \in 1..(Len(queue) + 1) : Good(i)
           T == {i \in 1..(Len(queue) + 1) : i = Len(queue) + 1 \/ Ok(i)}
<1>1. Len(queue) \in Nat
  BY DEF CircuitTypes
<1>2. T \subseteq Nat /\ T # {}
  <2>1. Len(queue) + 1 \in T
    BY <1>1
  <2> QED BY <1>1, <2>1
<1>3. PICK l \in T : \A y \in T : ~(y < l)
  <2> HIDE DEF T
  <2> QED BY <1>2, Least
<1>4. l \in 1..(Len(queue) + 1) /\ Good(l)
  BY <1>1, <1>3
<1>5. k \in 1..(Len(queue) + 1) /\ Good(k)
  <2> HIDE DEF Good
  <2> QED BY <1>4
<1> DEFINE Moved(y) == [queue[k] EXCEPT !.guard = g, !.exit = y]
           items == IF k > Len(queue) THEN {}
                    ELSE IF queue[k].guard = g THEN {queue[k]} ELSE {Moved(y) : y \in pool}
           rest == SubSeq(queue, k + 1, Len(queue))
<1>6. Taken(g) = [items |-> items, rest |-> rest]
  BY DEF Taken
<1> HIDE DEF k, Good, T, Moved, Ok
<1>7. ASSUME NEW c \in items
      PROVE  /\ k <= Len(queue)
             /\ \/ queue[k].guard = g /\ c = queue[k]
                \/ \E x \in Exits(g, {}) : c = Moved(x)
  <2>1. k <= Len(queue)
    BY <1>1, <1>5, <1>7
  <2> QED BY <1>7, <2>1
<1> HIDE DEF items, rest
<1>8. Taken(g).items = items /\ Taken(g).rest = rest
  BY <1>6
<1> USE DEF rest, Moved
<1> QED BY <1>5, <1>7, <1>8

\* A slot: the cell that leaves has an exit its guard named, and it has left the queue.
LEMMA EmitKeeps ==
    ASSUME CircuitInv, EmitCell
    PROVE  CircuitInv'
<1> USE DEF CircuitInv
<1>1. /\ UNCHANGED <<peers, sends, announced>>
      /\ \E g \in Guards :
           /\ Pin(g)
           /\ IF g = None THEN UNCHANGED <<queue, cells>>
              ELSE /\ queue' = Taken(g).rest
                   /\ IF Taken(g).items = {} THEN cells' = cells
                      ELSE \E c \in Taken(g).items : cells' = cells \cup {c}
  BY DEF EmitCell
<1>2. PICK g \in Guards :
        /\ Pin(g)
        /\ IF g = None THEN UNCHANGED <<queue, cells>>
           ELSE /\ queue' = Taken(g).rest
                /\ \/ cells' = cells
                   \/ \E c \in Taken(g).items : cells' = cells \cup {c}
  BY <1>1
<1>3. /\ guard' \in Node \cup {None} /\ g \in Node \cup {None} /\ table' \subseteq Node
      /\ guard' \in Node => table' \subseteq announced'[guard']
      /\ guard' = None => table' = {}
  BY <1>1, <1>2, PinKeeps
<1>4. CASE g = None
  <2>1. UNCHANGED <<queue, cells>>
    BY <1>2, <1>4
  <2>2. CircuitTypes'
    BY <1>1, <1>3, <2>1 DEF CircuitTypes
  <2>3. Named'
    BY <1>1, <1>3, <2>1 DEF Named, Behind
  <2>4. Once'
    BY <1>1, <2>1 DEF Once, Differ
  <2> QED BY <2>2, <2>3, <2>4
<1>5. CASE g # None
  <2>1. g \in Node
    BY <1>3, <1>5
  <2>2. PICK k \in 1..(Len(queue) + 1) :
          /\ Taken(g).rest = SubSeq(queue, k + 1, Len(queue))
          /\ \A c \in Taken(g).items :
               /\ k <= Len(queue)
               /\ \/ queue[k].guard = g /\ c = queue[k]
                  \/ \E x \in Exits(g, {}) :
                       c = [queue[k] EXCEPT !.guard = g, !.exit = x]
    BY <2>1, TakenShape
  <2>3. Len(queue) \in Nat /\ \A i \in 1..Len(queue) : queue[i] \in Cell
    BY DEF CircuitTypes
  <2>4. /\ queue' \in Seq(Cell)
        /\ \A i \in 1..Len(queue') : queue'[i] = queue[k + i] /\ k + i \in 1..Len(queue)
    <3>1. queue' = SubSeq(queue, k + 1, Len(queue))
      BY <1>2, <1>5, <2>2
    <3>2. \A i \in (k + 1)..Len(queue) : queue[i] \in Cell
      BY <2>3
    <3> QED BY <2>3, <3>1, <3>2, SubSeqProperties
  <2>5. ASSUME NEW c \in Taken(g).items
        PROVE  /\ k \in 1..Len(queue) /\ c \in Cell /\ Behind(c)
               /\ c.msg = queue[k].msg /\ c.n = queue[k].n
    <3>1. k \in 1..Len(queue)
      <4>1. k <= Len(queue)
        BY <2>2, <2>5, Zenon
      <4> QED BY <2>3, <4>1
    <3>2. CASE c = queue[k]
      BY <2>3, <3>1, <3>2 DEF Named
    <3>3. CASE \E x \in Exits(g, {}) : c = [queue[k] EXCEPT !.guard = g, !.exit = x]
      <4>1. PICK x \in Exits(g, {}) : c = [queue[k] EXCEPT !.guard = g, !.exit = x]
        BY <3>3
      <4>2. x \in Node /\ x \in announced[g] /\ x # g
        BY <2>1, ExitsNamed
      <4>3. queue[k] \in Cell
        BY <2>3, <3>1
      <4>4. /\ c \in Cell /\ c.guard = g /\ c.exit = x
            /\ c.msg = queue[k].msg /\ c.n = queue[k].n
        BY <2>1, <4>1, <4>2, <4>3 DEF Cell
      <4> QED BY <3>1, <4>2, <4>4 DEF Behind
    <3> QED BY <2>2, <2>5, <3>1, <3>2, <3>3
  <2>6. ASSUME NEW c \in Taken(g).items
        PROVE  /\ c.n <= sends[c.msg].attempt
               /\ \A i \in 1..Len(queue') : Differ(c, queue'[i])
               /\ \A d \in cells : Differ(c, d) /\ Differ(d, c)
    <3>1. \A i \in 1..Len(queue') : k # k + i
      BY <2>3
    <3> QED BY <2>4, <2>5, <2>6, <3>1 DEF Once, Differ
  <2>7. \A c \in cells' : c \in cells \/ c \in Taken(g).items
    BY <1>2, <1>5
  <2>8. \A c, d \in cells' : c # d => c \in cells \/ d \in cells
    BY <1>2, <1>5
  <2>9. CircuitTypes'
    BY <1>1, <1>3, <2>4, <2>5, <2>7 DEF CircuitTypes
  <2>10. Named'
    <3>1. \A i \in 1..Len(queue') : Behind(queue'[i])
      BY <2>4 DEF Named
    <3>2. \A c \in cells' : Behind(c)
      BY <2>5, <2>7 DEF Named
    <3> QED BY <1>1, <1>3, <3>1, <3>2 DEF Named, Behind
  <2>11. Once'
    <3>1. \A c \in cells' : c.n <= sends[c.msg].attempt
      BY <2>6, <2>7 DEF Once
    <3>2. \A i \in 1..Len(queue') : queue'[i].n <= sends[queue'[i].msg].attempt
      <4> TAKE i \in 1..Len(queue')
      <4>1. queue[k + i].n <= sends[queue[k + i].msg].attempt
        BY <2>4 DEF Once
      <4> QED BY <2>4, <4>1
    <3>3. \A c \in cells', i \in 1..Len(queue') : Differ(c, queue'[i])
      BY <2>4, <2>6, <2>7 DEF Once
    <3>4. \A i, j \in 1..Len(queue') : i # j => Differ(queue'[i], queue'[j])
      <4>1. \A i, j \in 1..Len(queue') : i # j => k + i # k + j
        BY <2>3
      <4> QED BY <2>4, <4>1 DEF Once
    <3>5. \A c, d \in cells' : c # d => Differ(c, d)
      BY <2>6, <2>7, <2>8 DEF Once
    <3> QED BY <1>1, <3>1, <3>2, <3>3, <3>4, <3>5 DEF Once, Differ
  <2> QED BY <2>9, <2>10, <2>11
<1> QED BY <1>4, <1>5

\* What happens to the table, the neighbours and the mesh touches no cell.
LEMMA CellsStay ==
    ASSUME CircuitInv, UNCHANGED cells,
           queue' = queue \/ queue' = <<>>,
           sends' \in [Msg -> Call],
           \A m \in Msg : sends'[m].attempt = sends[m].attempt,
           peers' \subseteq Node, guard' \in Node \cup {None}, table' \subseteq Node,
           announced' \in [Node -> SUBSET Node],
           \A n \in Node : announced[n] \subseteq announced'[n],
           guard' \in Node => table' \subseteq announced'[guard'],
           guard' = None => table' = {}
    PROVE  CircuitInv'
<1>1. /\ cells \subseteq Cell /\ queue' \in Seq(Cell)
      /\ \A i \in 1..Len(queue') : /\ i \in 1..Len(queue) /\ queue'[i] = queue[i]
                                   /\ queue[i] \in Cell
  <2>1. queue \in Seq(Cell) /\ cells \subseteq Cell
    BY DEF CircuitInv, CircuitTypes
  <2>2. CASE queue' = queue
    BY <2>1, <2>2
  <2>3. CASE queue' = <<>>
    BY <2>1, <2>3
  <2> QED BY <2>2, <2>3
<1>2. \A c \in Cell : c.msg \in Msg /\ c.guard \in Node
  BY DEF Cell
<1>3. CircuitTypes'
  BY <1>1 DEF CircuitInv, CircuitTypes
<1>4. Named'
  <2>1. \A c \in cells : c.exit \in announced'[c.guard] /\ c.exit # c.guard
    BY <1>1, <1>2 DEF CircuitInv, Named, Behind
  <2>2. \A i \in 1..Len(queue') : /\ queue'[i].exit \in announced'[queue'[i].guard]
                                  /\ queue'[i].exit # queue'[i].guard
    BY <1>1, <1>2 DEF CircuitInv, Named, Behind
  <2> QED BY <2>1, <2>2 DEF Named, Behind
<1>5. Once'
  <2>1. \A c \in cells : c.n <= sends'[c.msg].attempt
    BY <1>1, <1>2 DEF CircuitInv, Once
  <2>2. \A i \in 1..Len(queue') : queue'[i].n <= sends'[queue'[i].msg].attempt
    BY <1>1, <1>2 DEF CircuitInv, Once
  <2> QED BY <1>1, <2>1, <2>2 DEF CircuitInv, Once, Differ
<1> QED BY <1>3, <1>4, <1>5 DEF CircuitInv

\* A step that only pins the guard.
LEMMA PinningKeeps ==
    ASSUME CircuitInv, \E g \in Guards : Pin(g),
           UNCHANGED <<peers, queue, sends, cells, announced>>
    PROVE  CircuitInv'
<1>1. PICK g \in Guards : Pin(g)
  OBVIOUS
<1>2. /\ guard' \in Node \cup {None} /\ table' \subseteq Node
      /\ guard' \in Node => table' \subseteq announced'[guard']
      /\ guard' = None => table' = {}
  BY <1>1, PinKeeps DEF CircuitInv
<1> QED BY <1>2, CellsStay DEF CircuitInv, CircuitTypes

LEMMA FinishKeeps ==
    ASSUME CircuitInv, NEW m \in Msg, NEW how \in {"ok", "failed"}, Finish(m, how),
           UNCHANGED <<peers, guard, table, cells, announced>>
    PROVE  CircuitInv'
<1>1. /\ sends' \in [Msg -> Call] /\ \A y \in Msg : sends'[y].attempt = sends[y].attempt
      /\ queue' = queue
  BY DEF Finish, CircuitInv, CircuitTypes, Call
<1> QED BY <1>1, CellsStay DEF CircuitInv, CircuitTypes, Named

LEMMA CircuitInvNext == CircuitInv /\ [Next]_vars => CircuitInv'
<1> SUFFICES ASSUME CircuitInv, [Next]_vars
             PROVE  CircuitInv'
  OBVIOUS
<1> USE OnionCircuitAssumption
<1>1. ASSUME NEW m \in Msg, Send(m) PROVE CircuitInv'
  BY <1>1, AttemptKeeps, FinishKeeps DEF Send
<1>2. ASSUME NEW m \in Msg, Echo(m) PROVE CircuitInv'
  BY <1>2, FinishKeeps DEF Echo
<1>3. ASSUME NEW m \in Msg, EchoTimeout(m) PROVE CircuitInv'
  BY <1>3, AttemptKeeps, FinishKeeps DEF EchoTimeout
<1>4. CASE EmitCell
  BY <1>4, EmitKeeps
<1>5. CASE AskGuard
  BY <1>5, PinningKeeps DEF AskGuard
<1>6. ASSUME NEW n \in Node, NEW known \in SUBSET Node, PexResponse(n, known)
      PROVE  CircuitInv'
  <2>1. /\ announced' = [announced EXCEPT ![n] = @ \cup known]
        /\ table' = IF n = guard THEN table \cup known ELSE table
        /\ UNCHANGED <<peers, guard, queue, sends, cells>>
    BY <1>6 DEF PexResponse
  <2>2. /\ announced' \in [Node -> SUBSET Node] /\ table' \subseteq Node
        /\ \A x \in Node : announced[x] \subseteq announced'[x]
        /\ known \subseteq announced'[n]
    BY <2>1 DEF CircuitInv, CircuitTypes
  <2>3. guard \in Node => table' \subseteq announced'[guard]
    BY <2>1, <2>2 DEF CircuitInv, Named
  <2>4. guard = None => table' = {}
    BY <2>1 DEF CircuitInv, Named
  <2> QED BY <2>1, <2>2, <2>3, <2>4, CellsStay DEF CircuitInv, CircuitTypes
<1>7. ASSUME NEW n \in Node, TableExpires(n) \/ PeerChange(n) PROVE CircuitInv'
  BY <1>7, CellsStay DEF TableExpires, PeerChange, CircuitInv, CircuitTypes, Named
<1>8. CASE Start
  BY <1>8, PinningKeeps DEF Start
<1>9. CASE Stop
  BY <1>9, CellsStay DEF Stop, CircuitInv, CircuitTypes, Named
<1>10. ASSUME NEW c \in cells, CellArrives(c) PROVE CircuitInv'
  BY <1>10, CellsStay DEF CellArrives, CircuitInv, CircuitTypes, Named
<1>11. CASE UNCHANGED vars
  BY <1>11, CellsStay DEF vars, CircuitInv, CircuitTypes, Named
<1> QED
  BY <1>1, <1>2, <1>3, <1>4, <1>5, <1>6, <1>7, <1>8, <1>9, <1>10, <1>11 DEF Next

\* Any nodes, messages and limits: a cell leaves for an exit its guard has named, and
\* for each attempt once, whatever happens to the guard while it waits (emitCell,
\* onGuardChange, handleGuardPex).
THEOREM ExitsAreNamed == Spec => []ExitBehindGuard
<1>1. CircuitInv => ExitBehindGuard
  BY DEF CircuitInv, Named, Once, Behind, Differ, ExitBehindGuard
<1> QED BY <1>1, CircuitInvInit, CircuitInvNext, PTL DEF Spec

-----------------------------------------------------------------------------
(* OnionRelay: cells of other circuits *)

SeenEntries == [id : 1..Cells, at : Nat, n : Nat]
Work == [cell : SeenEntries, from : Neighbours, to : Neighbours \cup {Me}]

\* What waits, what was done, and the cells they are for.
RelayTypes ==
    /\ links \subseteq Neighbours /\ acts \in Seq(Work) /\ IsFiniteSet(pending)
    /\ perPeer \in [Neighbours -> Nat] /\ entered \in Nat /\ instant \in Nat
    /\ \A w \in pending : w.from \in Neighbours /\ w.cell \in SeenEntries /\ w.to # w.from
    /\ \A w \in pending : w = [cell |-> w.cell, from |-> w.from, to |-> w.to]

\* The counts are those of the work that waits.
Counted ==
    /\ \A s \in Neighbours : perPeer[s] = Cardinality(HeldFor(s)) /\ perPeer[s] =< MaxHeldPerPeer
    /\ Cardinality(pending) =< MaxHeld

\* The cache keeps its limit, and its entries differ in their number.
SeenWell ==
    /\ seen \subseteq SeenEntries /\ IsFiniteSet(seen) /\ Cardinality(seen) =< MaxSeenCells
    /\ \A e \in seen : e.n =< entered
    /\ \A e, f \in seen : e.n = f.n => e = f

Acted == CellsOf(pending \cup Done)
LetGo(e) == instant - e.at > CellTtl \/ entered - e.n >= MaxSeenCells

\* A cell that is acted on is remembered until its time or so many others have come; the
\* next with its id came after that.
Past ==
    /\ \A c \in Acted : c \in SeenEntries /\ c.n =< entered /\ (c \in seen \/ LetGo(c))
    /\ \A c, d \in Acted : FarApart(c, d)

\* An arrival is acted on once.
ActedOnce ==
    /\ \A v, w \in pending : v.cell = w.cell => v = w
    /\ \A i \in 1..Len(acts) : /\ acts[i].to # acts[i].from
                               /\ \A w \in pending : w.cell # acts[i].cell
    /\ \A i, j \in 1..Len(acts) : acts[i].cell = acts[j].cell => i = j

RelayInv == RelayTypes /\ Counted /\ SeenWell /\ Past /\ ActedOnce

LEMMA RelayStarts == ASSUME RelayAssumption, RelayInit PROVE RelayInv
<1>1. <<>> \in Seq(Work) /\ Len(<<>>) = 0 /\ DOMAIN <<>> = {}
  BY EmptySeq
<1>2. IsFiniteSet(pending) /\ Cardinality(pending) = 0 /\ \A s : Cardinality(HeldFor(s)) = 0
  <2>1. \A s : HeldFor(s) = {} /\ pending = {}
    BY DEF RelayInit, HeldFor
  <2> QED BY <2>1, FS_EmptySet
<1>3. MaxHeld \in Nat /\ MaxHeldPerPeer \in Nat /\ MaxSeenCells \in Nat
  BY DEF RelayAssumption
<1>4. RelayTypes
  BY <1>1, <1>2 DEF RelayInit, RelayTypes
<1>5. Counted
  BY <1>2, <1>3 DEF RelayInit, Counted
<1>6. ActedOnce
  BY <1>1 DEF RelayInit, ActedOnce
<1>7. SeenWell
  BY <1>3, FS_EmptySet DEF RelayInit, SeenWell
<1>8. Past
  BY <1>1 DEF RelayInit, Past, Acted, CellsOf, Done
<1> QED BY <1>4, <1>5, <1>6, <1>7, <1>8 DEF RelayInv

\* A cell that is put into the cache: one entry more, the oldest less when there is no room,
\* and that one has MaxSeenCells after it, itself counted.
LEMMA SeenAdded ==
    ASSUME RelayAssumption, SeenWell, entered \in Nat, instant \in Nat, NEW id \in 1..Cells,
           AddSeen(id)
    PROVE  /\ SeenWell' /\ NewEntry(id) \in SeenEntries
           /\ \A e \in seen \cup {NewEntry(id)} : e \in seen' \/ entered' - e.n >= MaxSeenCells
<1> DEFINE new == NewEntry(id)
           all == seen \cup {new}
           old == Oldest(all)
<1>1. entered' = entered + 1 /\ entered \in Nat /\ MaxSeenCells \in Nat /\ entered' \in Nat
      /\ new.n = entered + 1 /\ new \in SeenEntries
  BY DEF AddSeen, NewEntry, SeenEntries, RelayAssumption
<1>2. /\ all \subseteq SeenEntries /\ \A e \in all : e.n =< entered' /\ e.n \in Nat
      /\ \A e, f \in all : e.n = f.n => e = f
  BY <1>1 DEF SeenWell, SeenEntries
<1>3. /\ IsFiniteSet(all) /\ Cardinality(all) = Cardinality(seen) + 1
      /\ Cardinality(seen) \in Nat /\ Cardinality(seen) =< MaxSeenCells
  <2>1. new \notin seen
    BY <1>1 DEF SeenWell
  <2> QED BY <2>1, FS_AddElement, FS_CardinalityType DEF SeenWell
<1>4. seen' = IF Cardinality(all) > MaxSeenCells THEN all \ {old} ELSE all
  BY DEF AddSeen
<1> HIDE DEF new, all
<1>5. old \in all /\ \A f \in all : old.n =< f.n
  <2> DEFINE nums == {e.n : e \in all}
  <2>1. nums \subseteq Nat /\ nums # {}
    BY <1>2 DEF all
  <2> HIDE DEF nums
  <2>2. PICK m \in nums : \A k \in nums : ~(k < m)
    BY <2>1, Least
  <2>3. \E e \in all : \A f \in all : e.n =< f.n
    BY <1>2, <2>1, <2>2 DEF nums
  <2> QED BY <2>3 DEF Oldest
<1> HIDE DEF old
<1>6. Cardinality(all) =< entered' - old.n + 1
  <2> DEFINE span == old.n..entered'
             nr == [e \in all |-> e.n]
  <2>1. old.n \in Int /\ entered' \in Int /\ old.n =< entered'
    BY <1>1, <1>2, <1>5
  <2>2. IsFiniteSet(span) /\ Cardinality(span) = entered' - old.n + 1
    <3> DEFINE a == old.n
               b == entered'
    <3>1. a \in Int /\ b \in Int /\ a =< b
      BY <2>1
    <3> HIDE DEF a, b
    <3>2. IsFiniteSet(a..b) /\ Cardinality(a..b) = IF a > b THEN 0 ELSE b - a + 1
      BY <3>1, FS_Interval
    <3>3. IsFiniteSet(a..b) /\ Cardinality(a..b) = b - a + 1
      BY <3>1, <3>2
    <3> QED BY <3>3 DEF a, b
  <2>3. nr \in Injection(all, span)
    <3>1. \A e \in all : e.n \in span
      BY <1>1, <1>2, <1>5
    <3> HIDE DEF span
    <3>2. nr \in [all -> span]
      BY <3>1
    <3>3. \A e, f \in all : nr[e] = nr[f] => e = f
      BY <1>2
    <3> QED BY <3>2, <3>3 DEF Injection, IsInjective
  <2> HIDE DEF span, nr
  <2>4. Cardinality(all) =< Cardinality(span)
    BY <1>3, <2>2, <2>3, FS_Injection DEF ExistsInjection
  <2> QED BY <2>2, <2>4
<1>7. CASE Cardinality(all) > MaxSeenCells
  <2>1. /\ seen' = all \ {old} /\ IsFiniteSet(seen') /\ Cardinality(seen') = Cardinality(all) - 1
    BY <1>3, <1>4, <1>5, <1>7, FS_RemoveElement
  <2>2. entered' - old.n >= MaxSeenCells
    BY <1>1, <1>2, <1>3, <1>5, <1>6, <1>7
  <2>3. SeenWell'
    BY <1>1, <1>2, <1>3, <2>1 DEF SeenWell, SeenEntries
  <2> QED BY <1>1, <2>1, <2>2, <2>3 DEF all, new
<1>8. CASE ~(Cardinality(all) > MaxSeenCells)
  <2>1. seen' = all
    BY <1>4, <1>8
  <2>2. SeenWell'
    BY <1>1, <1>2, <1>3, <1>8, <2>1 DEF SeenWell, SeenEntries
  <2> QED BY <1>1, <2>1, <2>2 DEF all, new
<1> QED BY <1>7, <1>8

\* A cell that was not remembered came long after those that are like it.
LEMMA PastGrows ==
    ASSUME RelayAssumption, RelayTypes, SeenWell, Past, NEW id \in 1..Cells, ~HasSeen(id),
           AddSeen(id), instant' = instant, Acted' \subseteq Acted \cup {NewEntry(id)}
    PROVE  SeenWell' /\ Past'
<1> DEFINE new == NewEntry(id)
<1>0. entered \in Nat /\ instant \in Nat /\ MaxSeenCells \in Nat /\ CellTtl \in Nat
  BY DEF RelayTypes, RelayAssumption
<1>1. /\ SeenWell' /\ new \in SeenEntries
      /\ \A e \in seen \cup {new} : e \in seen' \/ entered' - e.n >= MaxSeenCells
  BY <1>0, SeenAdded
<1>2. entered' = entered + 1 /\ new.n = entered + 1 /\ new.at = instant /\ new.id = id
  BY DEF AddSeen, NewEntry
<1>3. ASSUME NEW c \in Acted
      PROVE  /\ c \in SeenEntries /\ c.n \in Nat /\ c.at \in Nat /\ c.n =< entered
             /\ c \in seen \/ instant - c.at > CellTtl \/ entered - c.n >= MaxSeenCells
  BY <1>3 DEF Past, LetGo, SeenEntries
<1> HIDE DEF new
<1>4. ASSUME NEW c \in Acted'
      PROVE  c \in SeenEntries /\ c.n =< entered' /\ (c \in seen' \/ LetGo(c)')
  <2>1. CASE c = new
    BY <1>0, <1>1, <1>2, <2>1 DEF LetGo
  <2>2. CASE c \in Acted
    <3>1. c \in seen => c \in seen' \/ entered' - c.n >= MaxSeenCells
      BY <1>1
    <3> QED BY <1>0, <1>2, <1>3, <2>2, <3>1 DEF LetGo
  <2> QED BY <2>1, <2>2 DEF new
<1>5. ASSUME NEW c \in Acted', NEW d \in Acted' PROVE FarApart(c, d)
  <2>1. CASE c \in Acted /\ d \in Acted
    BY <2>1 DEF Past
  <2>2. CASE c = new
    <3>1. CASE d = new
      BY <1>2, <2>2, <3>1 DEF FarApart
    <3>2. CASE d \in Acted
      BY <1>0, <1>2, <1>3, <2>2, <3>2 DEF FarApart
    <3> QED BY <3>1, <3>2 DEF new
  <2>3. CASE c \in Acted /\ d = new
    <3>1. c.id = id => c \notin seen
      BY DEF HasSeen
    <3> QED BY <1>0, <1>2, <1>3, <2>3, <3>1 DEF FarApart
  <2> QED BY <2>1, <2>2, <2>3 DEF new
<1>6. Past'
  BY <1>4, <1>5 DEF Past, FarApart
<1> QED BY <1>1, <1>6

\* As time passes and the cache is cleaned, only what is old enough is let go.
LEMMA PastKept ==
    ASSUME RelayAssumption, RelayTypes, SeenWell, Past, Acted' \subseteq Acted,
           entered' = entered, instant' \in Nat, instant =< instant',
           seen' = seen \/ seen' = {e \in seen : instant - e.at =< CellTtl}
    PROVE  SeenWell' /\ Past'
<1>0. entered \in Nat /\ instant \in Nat /\ MaxSeenCells \in Nat /\ CellTtl \in Nat
  BY DEF RelayTypes, RelayAssumption
<1>1. seen' \subseteq seen
  OBVIOUS
<1>2. IsFiniteSet(seen') /\ Cardinality(seen') =< Cardinality(seen)
      /\ Cardinality(seen') \in Nat /\ Cardinality(seen) \in Nat
  BY <1>1, FS_Subset, FS_CardinalityType DEF SeenWell
<1>3. SeenWell'
  <2>1. Cardinality(seen) =< MaxSeenCells
    BY DEF SeenWell
  <2> QED BY <1>0, <1>1, <1>2, <2>1 DEF SeenWell
<1>4. ASSUME NEW c \in Acted
      PROVE  c \in SeenEntries /\ c.n =< entered' /\ (c \in seen' \/ LetGo(c)')
  <2>1. c \in SeenEntries /\ c.n \in Nat /\ c.at \in Nat /\ c.n =< entered
        /\ (c \in seen \/ LetGo(c))
    BY DEF Past, SeenEntries
  <2>2. c \in seen => c \in seen' \/ instant - c.at > CellTtl
    BY <1>0, <2>1
  <2>3. instant - c.at > CellTtl => instant' - c.at > CellTtl
    BY <1>0, <2>1
  <2> QED BY <2>1, <2>2, <2>3 DEF LetGo
<1>5. Past'
  BY <1>4 DEF Past, FarApart
<1> QED BY <1>3, <1>5

LEMMA HeldFinite ==
    ASSUME RelayTypes, NEW s PROVE IsFiniteSet(HeldFor(s)) /\ Cardinality(HeldFor(s)) \in Nat
<1>1. HeldFor(s) \subseteq pending
  BY DEF HeldFor
<1> QED BY <1>1, FS_Subset, FS_CardinalityType DEF RelayTypes

\* Work that is taken up is counted.
LEMMA TakenUp ==
    ASSUME RelayAssumption, RelayTypes, Counted, NEW s \in Neighbours, NEW w, w.from = s,
           w \notin pending, Room(s), pending' = pending \cup {w},
           perPeer' = [perPeer EXCEPT ![s] = @ + 1]
    PROVE  Counted' /\ IsFiniteSet(pending') /\ perPeer' \in [Neighbours -> Nat]
<1>1. /\ Cardinality(pending) < MaxHeld /\ perPeer[s] < MaxHeldPerPeer
      /\ perPeer \in [Neighbours -> Nat] /\ MaxHeld \in Nat /\ MaxHeldPerPeer \in Nat
  BY DEF Room, RelayTypes, RelayAssumption
<1>2. IsFiniteSet(pending') /\ Cardinality(pending') = Cardinality(pending) + 1
      /\ Cardinality(pending) \in Nat
  BY FS_AddElement, FS_CardinalityType DEF RelayTypes
<1>3. \A p \in Neighbours : HeldFor(p)' = IF p = s THEN HeldFor(p) \cup {w} ELSE HeldFor(p)
  BY DEF HeldFor
<1>4. Cardinality(HeldFor(s) \cup {w}) = Cardinality(HeldFor(s)) + 1
  <2>1. IsFiniteSet(HeldFor(s)) /\ w \notin HeldFor(s)
    BY HeldFinite DEF HeldFor
  <2> QED BY <2>1, FS_AddElement
<1>5. \A p \in Neighbours : perPeer'[p] = IF p = s THEN perPeer[p] + 1 ELSE perPeer[p]
  BY <1>1
<1>6. ASSUME NEW p \in Neighbours
      PROVE  perPeer'[p] = Cardinality(HeldFor(p)') /\ perPeer'[p] =< MaxHeldPerPeer
  <2>1. perPeer[p] = Cardinality(HeldFor(p)) /\ perPeer[p] =< MaxHeldPerPeer
    BY DEF Counted
  <2>2. CASE p = s
    <3>1. perPeer'[p] = perPeer[p] + 1 /\ Cardinality(HeldFor(p)') = Cardinality(HeldFor(p)) + 1
      BY <1>3, <1>4, <1>5, <2>2
    <3> QED BY <1>1, <2>1, <2>2, <3>1
  <2>3. CASE p # s
    BY <1>3, <1>5, <2>1, <2>3
  <2> QED BY <2>2, <2>3
<1>7. perPeer' \in [Neighbours -> Nat]
  BY <1>1
<1>8. Cardinality(pending') =< MaxHeld
  BY <1>1, <1>2
<1> QED BY <1>2, <1>6, <1>7, <1>8 DEF Counted

\* Work that is done is no longer counted.
LEMMA TimerDone ==
    ASSUME RelayAssumption, RelayTypes, Counted, NEW w \in pending,
           pending' = pending \ {w},
           perPeer' = [perPeer EXCEPT ![w.from] = IF @ > 0 THEN @ - 1 ELSE 0]
    PROVE  Counted' /\ IsFiniteSet(pending') /\ perPeer' \in [Neighbours -> Nat]
<1> DEFINE s == w.from
<1>1. /\ perPeer \in [Neighbours -> Nat] /\ MaxHeld \in Nat /\ MaxHeldPerPeer \in Nat
      /\ s \in Neighbours /\ Cardinality(pending) =< MaxHeld
  BY DEF RelayTypes, RelayAssumption, Counted
<1>2. IsFiniteSet(pending') /\ Cardinality(pending') = Cardinality(pending) - 1
      /\ Cardinality(pending) \in Nat
  BY FS_RemoveElement, FS_CardinalityType DEF RelayTypes
<1>3. \A p \in Neighbours : HeldFor(p)' = IF p = s THEN HeldFor(p) \ {w} ELSE HeldFor(p)
  BY DEF HeldFor
<1>4. /\ Cardinality(HeldFor(s) \ {w}) = Cardinality(HeldFor(s)) - 1
      /\ Cardinality(HeldFor(s)) \in Nat /\ Cardinality(HeldFor(s)) # 0
  <2>1. w \in HeldFor(s) /\ IsFiniteSet(HeldFor(s)) /\ Cardinality(HeldFor(s)) \in Nat
    BY HeldFinite DEF HeldFor
  <2> QED BY <2>1, FS_RemoveElement, FS_EmptySet
<1>5. perPeer[s] = Cardinality(HeldFor(s))
  BY <1>1 DEF Counted
<1>6. \A p \in Neighbours : perPeer'[p] = IF p = s THEN perPeer[p] - 1 ELSE perPeer[p]
  <2>1. perPeer[s] > 0
    BY <1>1, <1>4, <1>5
  <2> QED BY <1>1, <2>1
<1>7. ASSUME NEW p \in Neighbours
      PROVE  perPeer'[p] = Cardinality(HeldFor(p)') /\ perPeer'[p] =< MaxHeldPerPeer
  <2>1. perPeer[p] = Cardinality(HeldFor(p)) /\ perPeer[p] =< MaxHeldPerPeer /\ perPeer[p] \in Nat
    BY <1>1 DEF Counted
  <2>2. CASE p = s
    <3>1. perPeer'[p] = perPeer[p] - 1 /\ Cardinality(HeldFor(p)') = Cardinality(HeldFor(p)) - 1
      BY <1>3, <1>4, <1>6, <2>2
    <3> QED BY <1>1, <2>1, <3>1
  <2>3. CASE p # s
    BY <1>3, <1>6, <2>1, <2>3
  <2> QED BY <2>2, <2>3
<1>8. perPeer' \in [Neighbours -> Nat]
  BY <1>1
<1>9. Cardinality(pending') =< MaxHeld
  BY <1>1, <1>2
<1> QED BY <1>2, <1>7, <1>8, <1>9 DEF Counted

LEMMA WorkType ==
    ASSUME NEW s, NEW id, NEW layers, NEW w \in WorkFor(s, id, layers), Me # s
    PROVE  /\ w.cell = NewEntry(id) /\ w.from = s /\ w.to # w.from
           /\ w = [cell |-> w.cell, from |-> w.from, to |-> w.to]
<1>1. PICK l : /\ Ends(l) \/ Relays(s, l, Tail(layers))
               /\ w = [cell |-> NewEntry(id), from |-> s, to |-> IF Ends(l) THEN Me ELSE l.next]
  BY DEF WorkFor
<1>2. l.next # s \/ Ends(l)
  BY <1>1 DEF Relays
<1> HIDE DEF NewEntry
<1> QED BY <1>1, <1>2

\* What is done or waits after a step that adds nothing to it.
LEMMA ActedShrinks ==
    ASSUME pending' \subseteq pending, Done' \subseteq Done \cup pending
    PROVE  Acted' \subseteq Acted
  BY DEF Acted, CellsOf

LEMMA RelayGoesOn == ASSUME RelayAssumption, RelayInv, [RelayNext]_onion_relay PROVE RelayInv'
<1> USE DEF RelayInv
<1>0. acts \in Seq(Work) /\ Len(acts) \in Nat /\ DOMAIN acts = 1..Len(acts)
      /\ \A i \in 1..Len(acts) : acts[i] \in Work
  BY LenProperties, ElementOfSeq DEF RelayTypes
<1>00. instant \in Nat /\ entered \in Nat /\ instant =< instant
  BY DEF RelayTypes
<1>1. ASSUME NEW s \in Neighbours, NEW id \in 1..Cells, NEW layers, HandleCell(s, id, layers)
      PROVE  RelayInv'
  <2>1. UNCHANGED <<links, instant, acts, churns>> /\ Done' = Done
    BY <1>1 DEF HandleCell, Done
  <2>2. CASE UNCHANGED <<seen, entered, pending, perPeer>>
    <3>1. Acted' \subseteq Acted
      BY <2>1, <2>2, ActedShrinks
    <3>2. SeenWell' /\ Past'
      BY <1>00, <2>1, <2>2, <3>1, PastKept
    <3> QED BY <2>1, <2>2, <3>2 DEF RelayTypes, Counted, HeldFor, ActedOnce
  <2>3. ASSUME ~HasSeen(id), AddSeen(id), UNCHANGED <<pending, perPeer>> PROVE RelayInv'
    <3>1. Acted' \subseteq Acted
      BY <2>1, <2>3, ActedShrinks
    <3>2. SeenWell' /\ Past'
      BY <2>1, <2>3, <3>1, PastGrows
    <3>3. entered' \in Nat
      BY <1>00, <2>3 DEF AddSeen
    <3> QED BY <2>1, <2>3, <3>2, <3>3 DEF RelayTypes, Counted, HeldFor, ActedOnce
  <2>4. ASSUME ~HasSeen(id), AddSeen(id), NEW w \in WorkFor(s, id, layers), Defer(s, w), Room(s)
        PROVE  RelayInv'
    <3>1. pending' = pending \cup {w} /\ perPeer' = [perPeer EXCEPT ![s] = @ + 1]
      BY <2>4 DEF Defer
    <3>2. /\ w.cell = NewEntry(id) /\ w.from = s /\ w.to # w.from
          /\ w = [cell |-> w.cell, from |-> w.from, to |-> w.to]
      BY WorkType DEF RelayAssumption
    <3>3. /\ \A v \in pending : v.cell \in Acted
          /\ \A i \in 1..Len(acts) : acts[i].cell \in Acted
      BY <1>0 DEF Acted, CellsOf, Done
    <3>4. \A c \in Acted : c # w.cell
      <4>1. w.cell.n = entered + 1
        BY <3>2 DEF NewEntry
      <4>2. \A c \in Acted : c.n \in Nat /\ c.n =< entered
        BY DEF Past, SeenEntries
      <4> QED BY <1>00, <4>1, <4>2
    <3>5. Counted' /\ IsFiniteSet(pending') /\ perPeer' \in [Neighbours -> Nat]
      BY <2>4, <3>1, <3>2, <3>3, <3>4, TakenUp
    <3>6. Acted' \subseteq Acted \cup {NewEntry(id)}
      BY <2>1, <3>1, <3>2 DEF Acted, CellsOf
    <3>7. SeenWell' /\ Past'
      BY <2>1, <2>4, <3>6, PastGrows
    <3>8. entered' \in Nat /\ w.cell \in SeenEntries
      BY <1>00, <2>4, <3>2 DEF AddSeen, NewEntry, SeenEntries
    <3>9. RelayTypes'
      BY <2>1, <3>1, <3>2, <3>5, <3>8 DEF RelayTypes
    <3>10. ActedOnce'
      <4>1. \A u, v \in pending' : u.cell = v.cell => u = v
        BY <3>1, <3>3, <3>4 DEF ActedOnce
      <4>2. \A i \in 1..Len(acts) : /\ acts[i].to # acts[i].from
                                    /\ \A v \in pending' : v.cell # acts[i].cell
        BY <3>1, <3>3, <3>4 DEF ActedOnce
      <4> QED BY <2>1, <4>1, <4>2 DEF ActedOnce
    <3> QED BY <3>5, <3>7, <3>9, <3>10
  <2>5. ASSUME NEW w, Defer(s, w), ~Room(s) PROVE UNCHANGED <<pending, perPeer>>
    BY <2>5 DEF Defer
  <2> QED BY <1>1, <2>2, <2>3, <2>4, <2>5 DEF HandleCell
<1>2. ASSUME NEW w \in pending, TimerFires(w) PROVE RelayInv'
  <2>1. /\ pending' = pending \ {w} /\ UNCHANGED <<links, brought, seen, entered, instant, churns>>
        /\ perPeer' = [perPeer EXCEPT ![w.from] = IF @ > 0 THEN @ - 1 ELSE 0]
        /\ acts' = IF w.to \in links \cup {Me} THEN Append(acts, w) ELSE acts
    BY <1>2 DEF TimerFires
  <2>2. Counted' /\ IsFiniteSet(pending') /\ perPeer' \in [Neighbours -> Nat]
    BY <2>1, TimerDone
  <2>3. CASE acts' = acts
    <3>1. RelayTypes'
      BY <2>1, <2>2, <2>3 DEF RelayTypes
    <3>2. ActedOnce'
      BY <2>1, <2>3 DEF ActedOnce
    <3>3. Acted' \subseteq Acted
      BY <2>1, <2>3, ActedShrinks DEF Done
    <3>4. SeenWell' /\ Past'
      BY <1>00, <2>1, <3>3, PastKept
    <3> QED BY <2>2, <3>1, <3>2, <3>4
  <2>4. CASE acts' = Append(acts, w) /\ w.to \in links \cup {Me}
    <3>1. w \in Work
      BY <2>4 DEF RelayTypes, Work
    <3> DEFINE more == Append(acts, w)
               n == Len(acts)
    <3>2. /\ more \in Seq(Work) /\ Len(more) = n + 1 /\ n \in Nat /\ DOMAIN more = 1..(n + 1)
          /\ \A i \in 1..n : more[i] = acts[i]
          /\ more[n + 1] = w
      BY <1>0, <3>1, AppendProperties, LenProperties
    <3> HIDE DEF more, n
    <3>3. acts' = more
      BY <2>4 DEF more
    <3>4. RelayTypes'
      BY <2>1, <2>2, <3>2, <3>3 DEF RelayTypes
    <3>5. \A i \in 1..n : acts[i].cell # w.cell
      BY DEF ActedOnce, n
    <3>6. ASSUME NEW i \in 1..(n + 1)
          PROVE  /\ more[i].to # more[i].from
                 /\ \A v \in pending' : v.cell # more[i].cell
      <4>1. CASE i = n + 1
        BY <2>1, <3>2, <4>1 DEF ActedOnce, RelayTypes
      <4>2. CASE i \in 1..n
        BY <2>1, <3>2, <4>2 DEF ActedOnce, n
      <4> QED BY <3>2, <4>1, <4>2
    <3>7. ASSUME NEW i \in 1..(n + 1), NEW j \in 1..(n + 1), more[i].cell = more[j].cell
          PROVE  i = j
      <4>1. i \in 1..n \/ i = n + 1
        BY <3>2
      <4>2. j \in 1..n \/ j = n + 1
        BY <3>2
      <4>3. CASE i \in 1..n /\ j \in 1..n
        BY <3>2, <3>7, <4>3 DEF ActedOnce, n
      <4>4. CASE i \in 1..n /\ j = n + 1
        BY <3>2, <3>5, <3>7, <4>4
      <4>5. CASE i = n + 1 /\ j \in 1..n
        BY <3>2, <3>5, <3>7, <4>5
      <4> QED BY <4>1, <4>2, <4>3, <4>4, <4>5
    <3>8. \A u, v \in pending' : u.cell = v.cell => u = v
      BY <2>1 DEF ActedOnce
    <3>9. ActedOnce'
      BY <3>2, <3>3, <3>6, <3>7, <3>8 DEF ActedOnce
    <3>10. Done' \subseteq Done \cup pending
      <4>1. Done' = {more[i] : i \in 1..(n + 1)}
        BY <3>2, <3>3 DEF Done
      <4>2. ASSUME NEW i \in 1..(n + 1) PROVE more[i] \in Done \cup pending
        <5>1. CASE i = n + 1
          BY <3>2, <5>1
        <5>2. CASE i \in 1..n
          BY <1>0, <3>2, <5>2 DEF Done, n
        <5> QED BY <3>2, <5>1, <5>2
      <4> QED BY <4>1, <4>2
    <3>11. SeenWell' /\ Past'
      <4>1. Acted' \subseteq Acted
        BY <2>1, <3>10, ActedShrinks
      <4> QED BY <1>00, <2>1, <4>1, PastKept
    <3> QED BY <2>2, <3>4, <3>9, <3>11
  <2> QED BY <2>1, <2>3, <2>4
<1>3. CASE StopRelay
  <2>1. /\ pending' = {} /\ perPeer' = [s \in Neighbours |-> 0]
        /\ UNCHANGED <<links, brought, seen, entered, instant, acts>>
    BY <1>3 DEF StopRelay, Uncounted
  <2>2. IsFiniteSet(pending') /\ Cardinality(pending') = 0 /\ \A s : Cardinality(HeldFor(s)') = 0
    <3>1. \A s : HeldFor(s)' = {}
      BY <2>1 DEF HeldFor
    <3> QED BY <2>1, <3>1, FS_EmptySet
  <2>3. RelayTypes'
    BY <2>1, <2>2 DEF RelayTypes
  <2>4. Counted'
    BY <2>1, <2>2 DEF Counted, RelayAssumption
  <2>5. ActedOnce'
    BY <2>1 DEF ActedOnce
  <2>6. SeenWell' /\ Past'
    <3>1. Acted' \subseteq Acted
      BY <2>1, ActedShrinks DEF Done
    <3> QED BY <1>00, <2>1, <3>1, PastKept
  <2> QED BY <2>3, <2>4, <2>5, <2>6
<1>4. ASSUME UNCHANGED <<entered, pending, perPeer, acts>>, links' \subseteq Neighbours,
             \/ seen' = seen /\ instant' \in {instant, instant + 1}
             \/ seen' = {e \in seen : instant - e.at =< CellTtl} /\ instant' = instant
      PROVE  RelayInv'
  <2>1. Acted' \subseteq Acted
    BY <1>4, ActedShrinks DEF Done
  <2>2. instant' \in Nat /\ instant =< instant'
    BY <1>00, <1>4
  <2>3. SeenWell' /\ Past'
    BY <1>4, <2>1, <2>2, PastKept
  <2>4. RelayTypes' /\ Counted' /\ ActedOnce'
    BY <1>4, <2>2 DEF RelayTypes, Counted, HeldFor, ActedOnce
  <2> QED BY <2>3, <2>4
<1>5. CASE ForgetOld
  BY <1>4, <1>5 DEF ForgetOld, RelayTypes
<1>6. CASE TimePasses
  BY <1>4, <1>6 DEF TimePasses, RelayTypes
<1>7. ASSUME NEW s \in Neighbours, LinkChanges(s) PROVE RelayInv'
  BY <1>4, <1>7 DEF LinkChanges, RelayTypes
<1>8. CASE UNCHANGED onion_relay
  BY <1>4, <1>8 DEF onion_relay, RelayTypes
<1> QED BY <1>1, <1>2, <1>3, <1>5, <1>6, <1>7, <1>8 DEF RelayNext

\* For every set of neighbours, every route, every limit and every time to live: the limits
\* count the work that waits, an arrival of a cell is acted on once at most and never given
\* back, and the same cell again only after the time to live or after as many others as the
\* cache holds (OnionCircuit.handleCell, relay, defer, stop, SeenCache.add, cleanup).
THEOREM CellsAreRelayedOnce == ASSUME RelayAssumption PROVE RelaySpec => []Relayed
<1>1. RelayInit => RelayInv
  BY RelayStarts
<1>2. RelayInv /\ [RelayNext]_onion_relay => RelayInv'
  BY RelayGoesOn
<1>3. RelayInv => Relayed
  <2> SUFFICES ASSUME RelayInv PROVE Relayed
    OBVIOUS
  <2>1. DOMAIN acts = 1..Len(acts)
    BY LenProperties DEF RelayInv, RelayTypes
  <2>2. \A w \in Done : w.to # w.from /\ w.cell \notin CellsOf(pending)
    BY <2>1 DEF RelayInv, ActedOnce, Done, CellsOf
  <2> QED BY <2>1, <2>2 DEF RelayInv, Counted, ActedOnce, Past, Acted, Relayed
<1> QED BY <1>1, <1>2, <1>3, PTL DEF RelaySpec

=============================================================================
