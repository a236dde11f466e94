------------------------------ MODULE Release ------------------------------
(***************************************************************************)
(* How long the hint of a body is held back (HintReleaseScheduler of       *)
(* hint/HintRelease.ts, called by SchrodingerMailbox.releaseHint): from    *)
(* the hints seen and the bytes relayed in the last Window, so that enough *)
(* other hints appear in the meantime.  Nothing in src/ calls              *)
(* noteRelayBytes yet; it is part of the interface and of the model.       *)
(*                                                                         *)
(* Times are whole units; the code rounds to milliseconds.  `hintsEver`    *)
(* and `bytesEver` remember what the queues forget.                        *)
(***************************************************************************)
EXTENDS Integers, Sequences, Lists

CONSTANTS Target,      \* TARGET_ANONYMITY_SET
          Measurable,  \* MIN_MEASURABLE_SET
          Envelope,    \* ENVELOPE_FACTOR
          Patience,    \* MIN_PATIENCE
          Noise,       \* NOISE_WINDOW
          Window,      \* RATE_WINDOW
          Bodies,      \* sizes of bodies
          Hour,        \* bound: time that passes
          Seen,        \* bound: hints seen
          Loads        \* bound: reports of relayed bytes

\* With more than Target * Window hints in one window (8 in every millisecond, with the
\* values of RELEASE_CONFIG) the delay they ask for rounds to nothing.
ASSUME ReleaseAssumption ==
  /\ {Target, Measurable, Envelope, Patience, Noise, Window} \subseteq Nat \ {0}
  /\ Bodies \subseteq Nat \ {0} /\ {Hour, Seen, Loads} \subseteq Nat
  /\ Seen =< Target * Window

VARIABLES mode, hintTimes, relayBytes, waiting, time, hintsEver, bytesEver
release_vars == <<mode, hintTimes, relayBytes, waiting, time, hintsEver, bytesEver>>

Modes == {"disabled", "adaptive", "strict"}
Greater(a, b) == IF a > b THEN a ELSE b
Lesser(a, b) == IF a < b THEN a ELSE b
Total(reports) == SumOf([i \in 1..Len(reports) |-> reports[i].bytes])

\* What was reported at t or later.
Since(t) == {r \in [at : 0..Hour, bytes : Bodies \cup {0}] : r.at >= t}

\* prune(): what is older than the window leaves, from both queues.
NotPruned(queue) == queue
Pruned(queue) == Only(queue, Since(time - Window))

(***************************************************************************)
(* plan(): n hints and `total` bytes in the window.  Wanted is the longer  *)
(* of the time in which Target hints appear and Envelope times the time    *)
(* the sending takes; nobody waits for longer than he is patient, nor for  *)
(* an anonymity set that cannot be measured.                               *)
(***************************************************************************)
SendTime(size, total) == IF total > 0 THEN (size * Window) \div total ELSE 0
Patient(size, total) == Greater(Patience, 2 * SendTime(size, total))
Span(size, n, total) ==
  Lesser(Greater(Envelope * SendTime(size, total), IF n > 0 THEN (Target * Window) \div n ELSE 0),
         Patient(size, total))
Plan(size, n, total) ==
  IF \/ mode = "disabled"
     \/ size * Window =< total * Noise
     \/ mode = "adaptive" /\ Span(size, n, total) * n < Measurable * Window
  THEN 0 ELSE Span(size, n, total)

NoteHintSeen ==
  LET h == [at |-> time, bytes |-> 0]
  IN /\ Len(hintsEver) < Seen
     /\ hintTimes' = Pruned(Append(hintTimes, h)) /\ hintsEver' = Append(hintsEver, h)
     /\ relayBytes' = Pruned(relayBytes)
     /\ UNCHANGED <<mode, waiting, time, bytesEver>>

NoteRelayBytes(bytes) ==
  LET r == [at |-> time, bytes |-> bytes]
  IN /\ Len(bytesEver) < Loads
     /\ relayBytes' = Pruned(Append(relayBytes, r)) /\ bytesEver' = Append(bytesEver, r)
     /\ hintTimes' = Pruned(hintTimes)
     /\ UNCHANGED <<mode, waiting, time, hintsEver>>

SetMode(m) == /\ mode # m /\ mode' = m
              /\ UNCHANGED <<hintTimes, relayBytes, waiting, time, hintsEver, bytesEver>>

\* releaseHint() up to the timer of waitFor(): the plan is made once.
HoldBack(size) ==
  LET hints == Pruned(hintTimes)
      heard == Pruned(relayBytes)
      delay == Plan(size, Len(hints), Total(heard))
  IN /\ \A w \in waiting : w.size # size
     /\ hintTimes' = hints /\ relayBytes' = heard
     /\ waiting' = waiting \cup {[size |-> size, at |-> time, until |-> time + delay, mode |-> mode,
                             hints |-> Len(hintsEver), loads |-> Len(bytesEver)]}
     /\ UNCHANGED <<mode, time, hintsEver, bytesEver>>

\* The timer ends and the hint is originated.
LetGo(w) == /\ w \in waiting /\ time >= w.until
            /\ waiting' = waiting \ {w}
            /\ UNCHANGED <<mode, hintTimes, relayBytes, time, hintsEver, bytesEver>>

TimePasses == /\ time < Hour /\ time' = time + 1
              /\ \A w \in waiting : time < w.until
              /\ UNCHANGED <<mode, hintTimes, relayBytes, waiting, hintsEver, bytesEver>>

ReleaseInit == /\ mode = "adaptive" /\ hintTimes = <<>> /\ relayBytes = <<>>
               /\ waiting = {} /\ time = 0
               /\ hintsEver = <<>> /\ bytesEver = <<>>

ReleaseNext == \/ NoteHintSeen \/ \E b \in Bodies : NoteRelayBytes(b) \/ HoldBack(b)
               \/ \E m \in Modes : SetMode(m)
               \/ \E w \in waiting : LetGo(w)
               \/ TimePasses

ReleaseSpec == ReleaseInit /\ [][ReleaseNext]_release_vars

-----------------------------------------------------------------------------
\* What the window really held when w was planned, from the history.
HintsFor(w) == Len(Only(SubSeq(hintsEver, 1, w.hints), Since(w.at - Window)))
LoadFor(w) == Total(Only(SubSeq(bytesEver, 1, w.loads), Since(w.at - Window)))

(***************************************************************************)
(* A hint is held back only for a gain, as the window before its plan      *)
(* really was, not as the queues remember it: in adaptive mode only where  *)
(* at least Measurable other hints can be expected meanwhile, never beyond *)
(* Patience or twice its sending, and not when it drowns in what the node  *)
(* relays; and whoever asks for it is never left without the delay.        *)
(* ("待って得られる匿名集合が測定可能な水準に達しないなら遅延しない",              *)
(* HintRelease.ts:182.)                                                    *)
(***************************************************************************)
HeldForGain ==
  \A w \in waiting :
    LET held == w.until - w.at
    IN IF held > 0
       THEN /\ w.mode # "disabled" /\ w.size * Window > LoadFor(w) * Noise
            /\ w.mode = "adaptive" => held * HintsFor(w) >= Measurable * Window
            /\ held =< Greater(Patience, 2 * SendTime(w.size, LoadFor(w)))
       ELSE w.mode = "strict" /\ HintsFor(w) > 0 => w.size * Window =< LoadFor(w) * Noise
=============================================================================
