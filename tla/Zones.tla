-------------------------------- MODULE Zones --------------------------------
(***************************************************************************)
(* ZoneManager.ts: the depth a node derives from the density of its        *)
(* neighbours, with its hysteresis, the zones it subscribes to, and the    *)
(* topics that open boards and threads watch.                              *)
(*                                                                         *)
(* The estimate of the size of the network is an input, as the depth it    *)
(* asks for.  Time passes in the minutes of the recompute timer.           *)
(***************************************************************************)
EXTENDS Integers, FiniteSets

CONSTANTS
    Count,      \* RING_MESH_ZONE.SUBSCRIBE_COUNT
    MaxDepth,   \* RING_MESH_ZONE.MAX_DEPTH
    Wait,       \* the five minutes before the depth falls
    Topic,
    ZoneOf,     \* ZoneOf[t]: the zone of topic t at MaxDepth
    View,       \* boards and threads that may be open
    About       \* About[v]: the topic of view v

ASSUME ZonesAssumption ==
    /\ {Count, MaxDepth, Wait} \subseteq Nat \ {0}
    /\ ZoneOf \in [Topic -> 0..(2^MaxDepth - 1)] /\ About \in [View -> Topic]
    /\ IsFiniteSet(View)
    /\ \A d \in 0..MaxDepth : 2^d > 0

VARIABLES
    depth,
    zones,      \* _subscribedZones
    falling,    \* minutes the depthDecreaseTimer still has, 0 when it is not set
    refs,       \* watched: how many hold each topic
    open,       \* views that watch and have not released
    lower       \* history: minutes since the depth last changed or was asked for

zone_vars == <<depth, zones, falling, refs, open, lower>>

\* KeyManager.computeZoneId: the leading bits of the topic.
ZoneAt(t, d) == ZoneOf[t] \div 2^(MaxDepth - d)

Watched == {t \in Topic : refs[t] > 0}

\* isSubscribed(): with few zones all of them, else the chosen ones and the zones the
\* watched topics have at any depth.
Subscribed(z) ==
    \/ 2^depth <= Count
    \/ z \in zones
    \/ \E t \in Watched, d \in 0..MaxDepth : ZoneAt(t, d) = z

\* initSubscribedZones(): all zones, or Count of them at random.
Chosen(d) == IF 2^d <= Count THEN {0..(2^d - 1)}
             ELSE {Z \in SUBSET (0..(2^d - 1)) : Cardinality(Z) = Count}

\* updateSubscriptionAfterScaleUp(): one descendant of each zone, filled up at random.
Descended(d) ==
    LET shift  == 2^(d - depth)
        Heir(Z) == \A z \in zones : Cardinality({y \in Z : y \div shift = z}) >= 1
    IN  IF 2^d <= Count THEN Chosen(d) ELSE {Z \in Chosen(d) : Heir(Z)}

-----------------------------------------------------------------------------
(* recomputeDepth() for the depth asked for; with fewer than                *)
(* MIN_PEERS_FOR_ESTIMATE neighbours it is not called for any.              *)

Rises(target) ==
    /\ target > depth
    /\ depth' = target /\ zones' \in Descended(target)
    /\ falling' = 0 /\ lower' = 0
    /\ UNCHANGED <<refs, open>>

Lower(target) ==
    /\ target < depth
    /\ falling' = IF falling = 0 THEN Wait ELSE falling
    /\ UNCHANGED <<depth, zones, refs, open, lower>>

\* Mutant: the timer keeps running.
SteadyKeepsTimer(target) ==
    /\ target = depth
    /\ lower' = 0
    /\ UNCHANGED <<depth, zones, falling, refs, open>>

Steady(target) ==
    /\ target = depth
    /\ falling' = 0 /\ lower' = 0
    /\ UNCHANGED <<depth, zones, refs, open>>

\* A minute passes; the timer lowers the depth by one.
Minute ==
    /\ falling' = IF falling = 0 THEN 0 ELSE falling - 1
    /\ IF falling = 1
       THEN depth' = depth - 1 /\ zones' \in Chosen(depth - 1) /\ lower' = 0
       ELSE /\ lower' = IF lower < Wait THEN lower + 1 ELSE lower
            /\ UNCHANGED <<depth, zones>>
    /\ UNCHANGED <<refs, open>>

-----------------------------------------------------------------------------
(* watchTopic() and the function it returns *)

Watch(v) ==
    /\ v \notin open /\ open' = open \cup {v}
    /\ refs' = [refs EXCEPT ![About[v]] = @ + 1]
    /\ UNCHANGED <<depth, zones, falling, lower>>

\* Released once; a second call does nothing.
Release(v) ==
    /\ v \in open /\ open' = open \ {v}
    /\ refs' = [refs EXCEPT ![About[v]] = @ - 1]
    /\ UNCHANGED <<depth, zones, falling, lower>>

-----------------------------------------------------------------------------
ZonesInit ==
    /\ depth = 0 /\ zones = {0} /\ falling = 0 /\ lower = 0
    /\ refs = [t \in Topic |-> 0] /\ open = {}

ZonesNext ==
    \/ \E target \in 0..MaxDepth : Rises(target) \/ Lower(target) \/ Steady(target)
    \/ Minute
    \/ \E v \in View : Watch(v) \/ Release(v)

ZonesSpec == ZonesInit /\ [][ZonesNext]_zone_vars

-----------------------------------------------------------------------------
(* Properties *)

\* What an open board or thread is sent is passed to it, at whatever depth its author
\* made it, and a node never listens to zones that do not exist, to more than Count, or
\* to fewer than it may.
OpenHeard ==
    /\ \A v \in open, d \in 0..MaxDepth : Subscribed(ZoneAt(About[v], d))
    /\ zones \subseteq 0..(2^depth - 1)
    /\ Cardinality(zones) = IF 2^depth <= Count THEN 2^depth ELSE Count

\* The depth falls one step at a time, and only Wait minutes after it last changed or
\* was the one asked for.
FallsSlowly ==
    [][depth' < depth => depth' = depth - 1 /\ lower >= Wait - 1]_zone_vars

\* Whatever opened and closed and however the depth moved, open views are heard and the
\* depth falls slowly (isSubscribed, watchTopic, recomputeDepth, initSubscribedZones,
\* updateSubscriptionAfterScaleUp).
ZonesFollow == []OpenHeard /\ FallsSlowly
=============================================================================
