----------------------------- MODULE HintRouter -----------------------------
(***************************************************************************)
(* The index entries ("hints") that tell the readers of a board where a    *)
(* post is kept: HintRouter.ts on one node.  Everybody relays every hint;  *)
(* only who has the key of the board can open it, and the key may come     *)
(* later than the hint, which is why hints are buffered unopened.          *)
(*                                                                         *)
(* A hint is a model value with the key that opens it.  A copy of it that  *)
(* comes in carries a time to live and the solution of its proof of work,  *)
(* which are not part of its id: only whether the solution is right        *)
(* matters.                                                                *)
(***************************************************************************)
EXTENDS Integers, Sequences, FiniteSets, Functions

CONSTANTS
    Hint,
    Key,
    KeyOf,      \* KeyOf[h]: the key that opens h
    Buffer      \* RECENT_HINT_BUFFER

ASSUME HintRouterAssumption ==
    /\ KeyOf \in [Hint -> Key]
    /\ Buffer \in Nat \ {0}

VARIABLES
    keys,       \* the keys of the boards that are open
    flooded,    \* SeenCache: relayed
    received,   \* SeenCache: came from the network
    delivered,  \* SeenCache: opened, or written here
    recentHints,
    recentIds,
    stored,     \* hints whose slot this node keeps for others
    own,        \* hints written here
    opened,     \* history: how often the listeners heard of h, up to 2
    counted,    \* history: how often anyHintListeners heard of h, up to 2
    arrived,    \* history: hints that came in over the network or a circuit
    forgotten   \* history: hints that some SeenCache has forgotten

hint_vars == <<keys, flooded, received, delivered, recentHints, recentIds, stored, own,
          opened, counted, arrived, forgotten>>

\* What comes in: a copy of a hint, with a nonce that solves its proof of work or not.
\* Anything else does not parse and changes nothing.
HintCopy == [hint : Hint, solved : BOOLEAN]

\* The hash of all but the time to live and the nonce: however often a hint was
\* relayed, and whatever other solution is found for it, it is the same hint.
HintId(c) == c.hint

VerifyHintPow(c) == c.solved

\* The hints of S that were sealed with one of the keys ks.
OpenHint(S, ks) == {h \in S : KeyOf[h] \in ks}

More(f, S) == [h \in Hint |-> IF h \in S /\ f[h] < 2 THEN f[h] + 1 ELSE f[h]]

-----------------------------------------------------------------------------
\* remember(): buffered once, whatever way it came; the oldest makes room.
Remembered(h) ==
    IF h \in recentIds THEN [hints |-> recentHints, ids |-> recentIds]
    ELSE LET all == Append(recentHints, h)
         IN  IF Len(all) > Buffer
             THEN [hints |-> Tail(all), ids |-> (recentIds \cup {h}) \ {Head(all)}]
             ELSE [hints |-> all, ids |-> recentIds \cup {h}]

Remember(h) ==
    /\ recentHints' = Remembered(h).hints
    /\ recentIds' = Remembered(h).ids

\* Mutant: what was delivered before is not looked up.
OpensAgain(S, ks) == OpenHint(S, ks)

\* tryOpen(): the hints of S that open now, with any of the keys ks.
Opens(S, ks) == OpenHint(S \ delivered, ks)

TryOpen(S, ks) ==
    /\ delivered' = delivered \cup Opens(S, ks)
    /\ opened' = More(opened, Opens(S, ks))

\* flood(): to all neighbours unless it was relayed before; nothing else depends on it.
Flood(h) == flooded' = flooded \cup {h}

-----------------------------------------------------------------------------
\* Mutant: only hints that come later are tried with the new key.
AddKeyOnly(k) ==
    /\ keys' = keys \cup {k}
    /\ UNCHANGED <<flooded, received, delivered, recentHints, recentIds, stored, own,
                   opened, counted, arrived,
                   forgotten>>

\* A board is opened: the buffered hints are tried again.
AddKey(k) ==
    /\ keys' = keys \cup {k}
    /\ TryOpen(Range(recentHints), keys')
    /\ UNCHANGED <<flooded, received, recentHints, recentIds, stored, own, counted,
                   arrived, forgotten>>

RemoveKey(k) ==
    /\ k \in keys
    /\ keys' = keys \ {k}
    /\ UNCHANGED <<flooded, received, delivered, recentHints, recentIds, stored, own,
                   opened, counted, arrived,
                   forgotten>>

\* The user writes: the hint goes into the circuit, not to the neighbours.
Originate(h) ==
    /\ h \notin own \cup arrived \cup stored
    /\ own' = own \cup {h}
    /\ delivered' = delivered \cup {h}
    /\ UNCHANGED <<keys, flooded, received, recentHints, recentIds, stored, opened,
                   counted, arrived,
                   forgotten>>

\* Remembered, and tried with the keys there are.
TakeIn(h) == Remember(h) /\ TryOpen({h}, keys)

\* A hint from a neighbour; of the copies only the first one counts.
HandleHint(c) ==
    LET h == HintId(c)
    IN  /\ VerifyHintPow(c)
        /\ arrived' = arrived \cup {h}
        /\ IF h \in received
           THEN UNCHANGED <<flooded, received, delivered, recentHints, recentIds, opened,
                            counted>>
           ELSE /\ received' = received \cup {h}
                /\ counted' = More(counted, {h})
                /\ TakeIn(h)
                /\ Flood(h)
        /\ UNCHANGED <<keys, stored, own, forgotten>>

\* A hint out of a cell this node is the exit of.
HandleExitHint(c) ==
    /\ VerifyHintPow(c)
    /\ arrived' = arrived \cup {HintId(c)}
    /\ TakeIn(HintId(c))
    /\ Flood(HintId(c))
    /\ UNCHANGED <<keys, received, stored, own, counted, forgotten>>

\* A slot is stored here: its hint is opened if possible, but not relayed.
IngestLocal(c) ==
    /\ stored' = stored \cup {HintId(c)}
    /\ IF VerifyHintPow(c) THEN TakeIn(HintId(c))
       ELSE UNCHANGED <<recentHints, recentIds, delivered, opened>>
    /\ UNCHANGED <<keys, flooded, received, own, counted, arrived, forgotten>>

\* The holder of a slot spreads its hint again, every 20 minutes.
Reflood(h) ==
    /\ h \in stored
    /\ Flood(h)
    /\ UNCHANGED <<keys, received, delivered, recentHints, recentIds, stored, own,
                   opened, counted, arrived,
                   forgotten>>

\* A SeenCache forgets h, 15 to 20 minutes after it was added.
Expire(h) ==
    /\ \/ flooded' = flooded \ {h} /\ UNCHANGED <<received, delivered>>
       \/ received' = received \ {h} /\ UNCHANGED <<flooded, delivered>>
       \/ delivered' = delivered \ {h} /\ UNCHANGED <<flooded, received>>
    /\ forgotten' = forgotten \cup {h}
    /\ UNCHANGED <<keys, recentHints, recentIds, stored, own, opened, counted, arrived>>

-----------------------------------------------------------------------------
HintInit ==
    /\ keys = {} /\ flooded = {} /\ received = {} /\ delivered = {}
    /\ recentHints = <<>> /\ recentIds = {}
    /\ stored = {} /\ own = {} /\ arrived = {} /\ forgotten = {}
    /\ opened = [h \in Hint |-> 0] /\ counted = [h \in Hint |-> 0]

HintNext ==
    \/ \E k \in Key : AddKey(k) \/ RemoveKey(k)
    \/ \E h \in Hint : Originate(h) \/ Reflood(h) \/ Expire(h)
    \/ \E c \in HintCopy : HandleHint(c) \/ HandleExitHint(c) \/ IngestLocal(c)

HintSpec == HintInit /\ [][HintNext]_hint_vars

-----------------------------------------------------------------------------
(* Properties *)

\* No hint is missed: whatever is buffered and opens with a key the node has now
\* has been opened, whether the key or the hint came first, over whatever way
\* (addKey, remember, tryOpen).  Holds although the caches forget.
NoneMissed ==
    \A h \in Range(recentHints) : KeyOf[h] \in keys => opened[h] > 0 \/ h \in own

\* The author's node sends its hint to nobody before it came back from the mesh or was
\* given to it to store (originate is fail-closed); and as long as no cache has forgotten
\* a hint, its listeners hear of it once, and of their own never, whichever of the five
\* ways brings it in again, and copies from several neighbours count once for the rate
\* of hints.
OnceEach ==
    /\ \A h \in own : h \in flooded => h \in arrived \cup stored
    /\ \A h \in Hint \ forgotten :
         opened[h] <= (IF h \in own THEN 0 ELSE 1) /\ counted[h] <= 1
=============================================================================
