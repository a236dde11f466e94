----------------------------- MODULE OnionRelay -----------------------------
(***************************************************************************)
(* The other side of the circuits: a node that relays or ends the cells    *)
(* its neighbours give it (OnionRouter.wrapCircuit and unwrap,             *)
(* OnionCircuit.handleCell, relay, defer).                                 *)
(*                                                                         *)
(* A cell is [id, layers]: its bytes' hash, and what is sealed in it, from *)
(* the outside in.  Every layer is [to, is, next]; all cells have the same *)
(* size, and so have all innermost layers, whatever they say.              *)
(* The ids of cells are remembered in a SeenCache, which forgets them: an  *)
(* entry [id, at, n] is the id, when it was put in and as the how manyth.  *)
(* Work carries the entry of its cell; `acts` remembers, in order, what    *)
(* the node did.                                                           *)
(***************************************************************************)
EXTENDS Integers, Sequences, FiniteSets

CONSTANTS Me, Neighbours,
          MaxHeld, MaxHeldPerPeer,
          MaxSeenCells, CellTtl,  \* SeenCache's MAX_SIZE and TTL_MS
          Routes,     \* bound: the hops cells are made for
          Cells,      \* bound: different cells
          Admissions, \* bound: ids put into the cache
          Instants,   \* bound: units of time that pass
          Churns      \* bound: links that come or go, stops

ASSUME RelayAssumption ==
  Me \notin Neighbours /\ {MaxHeld, MaxHeldPerPeer, MaxSeenCells, CellTtl, Cells} \subseteq Nat

VARIABLES links,      \* connected and verified neighbours
          brought,    \* brought[id]: the layers of a cell that has been on the way
          seen,       \* seenCells
          entered,   \* how many ids were ever put into seenCells
          instant,    \* Date.now()
          pending,    \* the work that waits for its timer
          perPeer,    \* pendingPerPeer
          acts, churns
onion_relay == <<links, brought, seen, entered, instant, pending, perPeer, acts, churns>>

Payloads == {"exit_fluff", "exit_hint", "drop"}
Nowhere == "nowhere"

Layer(to, is, next) == [to |-> to, is |-> is, next |-> next]
WrapCircuit(payload, hops) ==
  LET k == Len(hops)
  IN [i \in 1..k |-> IF i = k THEN Layer(hops[k], payload, Nowhere)
                              ELSE Layer(hops[i], "relay", hops[i + 1])]

\* unwrapWithCurveKeys: nothing for a cell that is sealed to someone else.
Opened(layers) == IF layers # <<>> /\ Head(layers).to = Me THEN {Head(layers)} ELSE {}

\* The inner onion has the length of an exit layer.
ExitSized(inner) == Len(inner) = 1 /\ inner[1].is # "relay"

HeldFor(s) == {w \in pending : w.from = s}
Room(s) == Cardinality(pending) < MaxHeld /\ perPeer[s] < MaxHeldPerPeer
Defer(s, w) == IF Room(s) THEN /\ pending' = pending \cup {w}
                               /\ perPeer' = [perPeer EXCEPT ![s] = @ + 1]
                          ELSE UNCHANGED <<pending, perPeer>>

Relays(s, layer, inner) == /\ layer.is = "relay" /\ layer.next \notin {s, Me}
                           /\ ExitSized(inner)
Ends(layer) == layer.is \in {"exit_fluff", "exit_hint"}

NewEntry(id) == [id |-> id, at |-> instant, n |-> entered + 1]

\* What is done with a cell of s that is not remembered: at most one piece of work.
WorkFor(s, id, layers) ==
  {[cell |-> NewEntry(id), from |-> s, to |-> IF Ends(layer) THEN Me ELSE layer.next] :
     layer \in {l \in Opened(layers) : Ends(l) \/ Relays(s, l, Tail(layers))}}

HasSeen(id) == \E e \in seen : e.id = id
\* Mutant: no room means that the cell just put in goes.
Newest(S) == CHOOSE e \in S : \A f \in S : f.n =< e.n
Oldest(S) == CHOOSE e \in S : \A f \in S : e.n =< f.n
AddSeen(id) ==
  LET all == seen \cup {NewEntry(id)}
  IN /\ entered' = entered + 1
     /\ seen' = IF Cardinality(all) > MaxSeenCells THEN all \ {Oldest(all)} ELSE all

HandleCell(s, id, layers) ==
  /\ s \in links /\ brought[id] \in {<<>>, layers}
  /\ brought' = [brought EXCEPT ![id] = layers]
  /\ \/ /\ ~HasSeen(id) /\ entered < Admissions
        /\ AddSeen(id)
        /\ \/ \E w \in WorkFor(s, id, layers) : Defer(s, w)
           \/ WorkFor(s, id, layers) = {} /\ UNCHANGED <<pending, perPeer>>
     \/ HasSeen(id) /\ UNCHANGED <<seen, entered, pending, perPeer>>
  /\ UNCHANGED <<links, instant, acts, churns>>

\* The interval of the cache.
ForgetOld ==
  /\ seen' = {e \in seen : instant - e.at =< CellTtl}
  /\ UNCHANGED <<links, brought, entered, instant, pending, perPeer, acts, churns>>

TimePasses == /\ instant < Instants /\ instant' = instant + 1
              /\ UNCHANGED <<links, brought, seen, entered, pending, perPeer, acts, churns>>

\* The timer of a piece of work: the neighbour must be there at that time.
TimerFires(w) ==
  /\ w \in pending
  /\ pending' = pending \ {w}
  /\ perPeer' = [perPeer EXCEPT ![w.from] = IF @ > 0 THEN @ - 1 ELSE 0]
  /\ acts' = IF w.to \in links \cup {Me} THEN Append(acts, w) ELSE acts
  /\ UNCHANGED <<links, brought, seen, entered, instant, churns>>

\* Mutant: the work is cancelled, its counts stay.
StopsCounting == perPeer' = perPeer
Uncounted == perPeer' = [s \in Neighbours |-> 0]

StopRelay == /\ churns < Churns /\ churns' = churns + 1
             /\ pending' = {} /\ Uncounted
             /\ UNCHANGED <<links, brought, seen, entered, instant, acts>>

LinkChanges(s) == /\ churns < Churns /\ churns' = churns + 1
                  /\ links' = IF s \in links THEN links \ {s} ELSE links \cup {s}
                  /\ UNCHANGED <<brought, seen, entered, instant, pending, perPeer, acts>>

RelayInit == /\ links = Neighbours /\ brought = [id \in 1..Cells |-> <<>>] /\ seen = {}
             /\ entered = 0 /\ instant = 0
             /\ pending = {} /\ perPeer = [s \in Neighbours |-> 0]
             /\ acts = <<>> /\ churns = 0

RelayNext ==
  \/ \E s \in Neighbours, id \in 1..Cells, hops \in Routes, payload \in Payloads :
       HandleCell(s, id, WrapCircuit(payload, hops))
  \/ \E w \in pending : TimerFires(w)
  \/ ForgetOld
  \/ TimePasses
  \/ StopRelay
  \/ \E s \in Neighbours : LinkChanges(s)

RelaySpec == RelayInit /\ [][RelayNext]_onion_relay

\* Everything done or waiting to be done.
CellsOf(works) == {w.cell : w \in works}
Done == {acts[i] : i \in DOMAIN acts}

\* The same cell a second time: only when the cache has let the first go, for its age or
\* because so many came after it.
FarApart(c, d) == c.id = d.id /\ c.n < d.n => \/ d.at - c.at > CellTtl
                                              \/ d.n - c.n > MaxSeenCells

(***************************************************************************)
(* The limits count the work that really waits, through stops, links that  *)
(* break and the same cell coming again from others.  An arrival of a cell *)
(* is acted on once at most, and none goes back to who brought it; the     *)
(* same cell again, from whomever, only CellTtl after the one before or    *)
(* with more than MaxSeenCells others in between: a cell carries no time,  *)
(* so that what the cache has forgotten is taken for new.                  *)
(* ("出口での二重 Fluff" and "反射・ループの防止", OnionCircuit.ts:482, :516;   *)
(* SeenCache.ts:28, :34.)                                                  *)
(***************************************************************************)
Relayed ==
  /\ \A s \in Neighbours : perPeer[s] = Cardinality(HeldFor(s)) /\ perPeer[s] =< MaxHeldPerPeer
  /\ Cardinality(pending) =< MaxHeld
  /\ \A i, j \in DOMAIN acts : acts[i].cell = acts[j].cell => i = j
  /\ \A w \in Done : w.to # w.from /\ w.cell \notin CellsOf(pending)
  /\ \A c, d \in CellsOf(pending \cup Done) : FarApart(c, d)
=============================================================================
