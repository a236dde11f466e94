------------------------------- MODULE Conduct -------------------------------
(***************************************************************************)
(* What a node lets one neighbour do: PeerManager.handleData with the      *)
(* token bucket of RateLimiter, the points and bans of                     *)
(* PeerMisbehaviorManager, and the pings of Heartbeat.                     *)
(*                                                                         *)
(* Neighbours and categories do not share anything here, so one of each is *)
(* followed.  A frame is fit to be dispatched, too long, or not            *)
(* understood.  Time passes in units in which the bucket gains Refill      *)
(* tokens; Date.now() does not go back.                                    *)
(***************************************************************************)
EXTENDS Integers, Sequences, FiniteSets

CONSTANTS
    Refill,         \* ratePerSec
    Capacity,       \* burst
    Points,         \* of the violation MALFORMED_WIRE
    BanAt,          \* banThreshold
    BanFor,         \* banDurationMs
    HalfLife,       \* decayIntervalMs
    PingEvery,      \* interval of Heartbeat
    Clock,          \* bound: time that passes
    Frames,         \* bound: frames admitted on one connection
    Nonce           \* bound: nonces of pings

ASSUME ConductAssumption ==
    /\ {Refill, Capacity, Points, BanAt, BanFor, HalfLife, PingEvery} \subseteq Nat \ {0}
    /\ {Clock, Frames} \subseteq Nat

VARIABLES
    clock,
    link,           \* "none", "open" or "verified"
    bucket,         \* tokens and the time of the last refill; NoBucket without one
    scored,         \* score and when it was last updated
    ban,            \* when the ban ends, 0 without one
    pings,          \* Heartbeat.sent: pings on their way
    pinged,         \* when pingAll() ran last
    rtt,
    admitted        \* history: when frames were dispatched on this connection

conduct == <<clock, link, bucket, scored, ban, pings, pinged, rtt, admitted>>

NoBucket == [tokens |-> Capacity, last |-> -1]
NoScore == [score |-> 0, last |-> 0]

-----------------------------------------------------------------------------
(* RateLimiter.allow() *)

\* Mutant: the time of the refill is kept.
RefilledOften ==
    IF bucket.last = -1 THEN [tokens |-> Capacity, last |-> clock]
    ELSE LET t == bucket.tokens + (clock - bucket.last) * Refill
         IN  [tokens |-> IF t < Capacity THEN t ELSE Capacity, last |-> bucket.last]

Refilled ==
    IF bucket.last = -1 THEN [tokens |-> Capacity, last |-> clock]
    ELSE LET t == bucket.tokens + (clock - bucket.last) * Refill
         IN  [tokens |-> IF t < Capacity THEN t ELSE Capacity, last |-> clock]

-----------------------------------------------------------------------------
(* PeerMisbehaviorManager *)

\* isBanned(), which lifts a ban that is over and forgets the points.
Banned == ban > 0 /\ clock < ban
Lifted == IF ban > 0 /\ clock >= ban THEN ban' = 0 /\ scored' = NoScore
          ELSE UNCHANGED <<ban, scored>>

\* getScore(): halved once for each half life since the last update.
Halved(s, n) ==
    LET halved[i \in 0..n] == IF i = 0 THEN s ELSE halved[i - 1] \div 2
    IN  halved[n]
Score == IF ban > 0 THEN 0 ELSE Halved(scored.score, (clock - scored.last) \div HalfLife)

\* recordViolation()
RecordViolation ==
    LET s == Score + Points
    IN  IF s >= BanAt THEN ban' = clock + BanFor /\ scored' = NoScore
        ELSE scored' = [score |-> s, last |-> clock] /\ ban' = 0

-----------------------------------------------------------------------------
(* PeerManager *)

\* disconnect()
Gone == link' = "none" /\ bucket' = NoBucket /\ admitted' = <<>>

Connects ==
    /\ link = "none" /\ ~Banned /\ Lifted /\ link' = "open"
    /\ UNCHANGED <<clock, bucket, pings, pinged, rtt, admitted>>

Verifies ==
    /\ link = "open" /\ link' = "verified"
    /\ UNCHANGED <<clock, bucket, scored, ban, pings, pinged, rtt, admitted>>

Leaves ==
    /\ link # "none" /\ Gone
    /\ UNCHANGED <<clock, scored, ban, pings, pinged, rtt>>

\* A frame that is too long is dropped before anything else is asked.
TooLong ==
    /\ link # "none" /\ Lifted
    /\ UNCHANGED <<clock, link, bucket, pings, pinged, rtt, admitted>>

\* One that is not understood ends the connection, and counts against a peer whose
\* identity is known.
NotUnderstood ==
    /\ link # "none" /\ Gone
    /\ IF link = "verified" THEN RecordViolation ELSE Lifted
    /\ UNCHANGED <<clock, pings, pinged, rtt>>

\* Any other takes a token; without one, and before the handshake unless it belongs to
\* it, it is dropped.
Understood(handshake) ==
    LET b == Refilled
    IN  /\ link # "none" /\ Lifted /\ Len(admitted) < Frames
        /\ bucket' = IF b.tokens < 1 THEN b ELSE [b EXCEPT !.tokens = @ - 1]
        /\ admitted' = IF b.tokens < 1 \/ (link = "open" /\ ~handshake) THEN admitted
                       ELSE Append(admitted, clock)
        /\ UNCHANGED <<clock, link, pings, pinged, rtt>>

-----------------------------------------------------------------------------
(* Heartbeat *)

PingAll ==
    /\ pinged < 0 \/ clock - pinged >= PingEvery
    /\ pinged' = clock
    /\ \E n \in Nonce :
         /\ \A p \in pings : p.nonce # n
         /\ LET sent == pings \cup IF link = "none" THEN {} ELSE {[nonce |-> n, at |-> clock]}
            IN  pings' = {p \in sent : clock - p.at <= 2 * PingEvery}
    /\ UNCHANGED <<clock, link, bucket, scored, ban, rtt, admitted>>

\* handlePong(): only for a nonce that was sent.
HandlePong(p) ==
    /\ link # "none" /\ pings' = pings \ {p} /\ rtt' = clock - p.at
    /\ UNCHANGED <<clock, link, bucket, scored, ban, pinged, admitted>>

ClockTicks ==
    /\ clock < Clock /\ clock' = clock + 1
    /\ pinged >= 0 => clock - pinged < PingEvery
    /\ UNCHANGED <<link, bucket, scored, ban, pings, pinged, rtt, admitted>>

-----------------------------------------------------------------------------
ConductInit ==
    /\ clock = 0 /\ link = "none" /\ bucket = NoBucket /\ scored = NoScore /\ ban = 0
    /\ pings = {} /\ pinged = -1 /\ rtt = 0 /\ admitted = <<>>

ConductNext ==
    \/ Connects \/ Verifies \/ Leaves
    \/ TooLong \/ NotUnderstood \/ \E handshake \in BOOLEAN : Understood(handshake)
    \/ PingAll \/ \E p \in pings : HandlePong(p)
    \/ ClockTicks

ConductSpec == ConductInit /\ [][ConductNext]_conduct

-----------------------------------------------------------------------------
(* Properties *)

\* Whatever the timing, a connection gets no more dispatched in any stretch of time than
\* the burst and what was refilled in it; a banned peer has no connection; and a round
\* trip is never taken from a ping that should have been forgotten (RateLimiter.allow,
\* PeerMisbehaviorManager.isBanned, Heartbeat.pingAll).
WellConducted ==
    /\ \A i, j \in DOMAIN admitted :
         i <= j => j - i + 1 <= Capacity + Refill * (admitted[j] - admitted[i])
    /\ Banned => link = "none"
    /\ rtt <= 3 * PingEvery
=============================================================================
