---------------------------- MODULE OnionCircuit ----------------------------
(***************************************************************************)
(* How a node puts what its user writes on the network: OnionCircuit.send  *)
(* and emitCell with the pinned guard and the echoes of DandelionRouter.   *)
(*                                                                         *)
(* One node, the author, is followed; Node is the set of the others.  A    *)
(* cell goes to the guard, which hands it to the exit; what happens to it  *)
(* there is the network's choice: it is lost, or the message shows up in   *)
(* the mesh and its copies reach the author as echoes.  Cover cells carry  *)
(* no message and leave no trace in the state.                             *)
(***************************************************************************)
EXTENDS Integers, Sequences, FiniteSets

CONSTANTS
    Node,
    Msg,
    MaxAttempts,    \* MAX_ATTEMPTS
    MaxQueue,       \* MAX_QUEUE
    Churn,          \* bound: neighbours that come or go
    Answers,        \* bound: PEX responses
    Stops           \* bound: stops of the circuit

None == "none"

ASSUME OnionCircuitAssumption ==
    /\ None \notin Node
    /\ {MaxAttempts, MaxQueue} \subseteq Nat \ {0}
    /\ {Churn, Answers, Stops} \subseteq Nat

VARIABLES
    running,
    peers,      \* verified neighbours with a known key
    guard,      \* pinnedGuardId, None for null
    table,      \* guardNeighbors that have not expired
    queue,      \* the real cells that wait for a slot
    sends,      \* sends[m]: where the call of send() for m stands
    cells,      \* cells that have left, with their guard and exit
    mesh,       \* messages that have shown up in the mesh
    announced,  \* history: announced[g]: what g has sent as its neighbours
    used        \* how much of the bounds is used

vars == <<running, peers, guard, table, queue, sends, cells, mesh, announced, used>>

Item == [msg : Msg, exit : Node, guard : Node, n : 1..MaxAttempts]

-----------------------------------------------------------------------------
(* Guard and exit *)

\* getPinnedGuard(): the pinned guard as long as it is a neighbour, else any
\* neighbour, else nobody.
Guards == IF guard \in peers THEN {guard} ELSE IF peers = {} THEN {None} ELSE peers

\* setGuard() with the listener of the circuit: another guard empties the table.
TableOf(g) == IF g = guard THEN table ELSE {}

Pin(g) == guard' = g /\ table' = TableOf(g)

\* pickExit(): behind the guard, rather not a neighbour of one's own.
Exits(g, tried) ==
    LET fresh == TableOf(g) \ ({g} \cup tried)
    IN  IF fresh \ peers # {} THEN fresh \ peers ELSE fresh

-----------------------------------------------------------------------------
(* send() *)

Finish(m, how) ==
    /\ sends' = [sends EXCEPT ![m].st = how]
    /\ queue' = queue

\* One round of the loop in send(), up to its await.
Attempt(m) ==
    \E g \in Guards :
      /\ Pin(g)
      /\ IF g = None \/ Exits(g, sends[m].tried) = {} \/ Len(queue) >= MaxQueue
         THEN Finish(m, "failed")
         ELSE \E x \in Exits(g, sends[m].tried) :
                LET n == sends[m].attempt + 1
                IN  /\ sends' = [sends EXCEPT ![m] =
                                   [st |-> "waiting", attempt |-> n, tried |-> @.tried \cup {x}]]
                    /\ queue' = Append(queue, [msg |-> m, exit |-> x, guard |-> g, n |-> n])

Send(m) ==
    /\ sends[m].st = "idle"
    /\ IF running THEN Attempt(m)
       ELSE Finish(m, "failed") /\ UNCHANGED <<guard, table>>
    /\ UNCHANGED <<running, peers, cells, mesh, announced, used>>

\* notifyEcho(): a copy of m has come back from the mesh.
Echo(m) ==
    /\ m \in mesh /\ sends[m].st = "waiting"
    /\ Finish(m, "ok")
    /\ UNCHANGED <<running, peers, guard, table, cells, mesh, announced, used>>

\* Mutant: the attempts are not counted.
EchoTimeoutForever(m) ==
    /\ sends[m].st = "waiting"
    /\ UNCHANGED <<running, peers, guard, table, queue, sends, cells, mesh, announced, used>>

\* The timeout of awaitEcho(): the loop goes on to another exit, or gives up.
EchoTimeout(m) ==
    /\ sends[m].st = "waiting"
    /\ IF sends[m].attempt < MaxAttempts THEN Attempt(m)
       ELSE Finish(m, "failed") /\ UNCHANGED <<guard, table>>
    /\ UNCHANGED <<running, peers, cells, mesh, announced, used>>

-----------------------------------------------------------------------------
(* emitCell() *)

\* Mutant: a cell queued for another guard leaves with the exit it has.
TakenStale(g) ==
    IF queue = <<>> THEN [items |-> {}, rest |-> <<>>]
    ELSE [items |-> {[Head(queue) EXCEPT !.guard = g]}, rest |-> Tail(queue)]

\* The cell that leaves, one of items if there are any, and the queue behind it.
\* A cell queued for another guard gets a new exit; cells for which there is
\* none are dropped on the way.
Taken(g) ==
    LET pool == Exits(g, {})
        Ok(i) == queue[i].guard = g \/ pool # {}
        k == CHOOSE i \in 1..(Len(queue) + 1) :
               /\ \A j \in 1..(i - 1) : ~Ok(j)
               /\ i <= Len(queue) => Ok(i)
    IN  [items |-> IF k > Len(queue) THEN {}
                   ELSE IF queue[k].guard = g THEN {queue[k]}
                   ELSE {[queue[k] EXCEPT !.guard = g, !.exit = x] : x \in pool},
         rest |-> SubSeq(queue, k + 1, Len(queue))]

\* A slot of the cover traffic: a real cell if one waits.
EmitCell ==
    /\ running
    /\ \E g \in Guards :
         /\ Pin(g)
         /\ IF g = None THEN UNCHANGED <<queue, cells>>
            ELSE LET t == Taken(g)
                 IN  /\ queue' = t.rest
                     /\ IF t.items = {} THEN cells' = cells
                        ELSE \E c \in t.items : cells' = cells \cup {c}
    /\ UNCHANGED <<running, peers, sends, mesh, announced, used>>

\* requestGuardNeighbors() on its timer: asking means having a guard.
AskGuard ==
    /\ running
    /\ \E g \in Guards : Pin(g)
    /\ UNCHANGED <<running, peers, queue, sends, cells, mesh, announced, used>>

\* handleGuardPex(): only what the guard of the moment says is believed.
PexResponse(n, known) ==
    /\ used.answers < Answers /\ n \in peers
    /\ used' = [used EXCEPT !.answers = @ + 1]
    /\ announced' = [announced EXCEPT ![n] = @ \cup known]
    /\ table' = IF n = guard THEN table \cup known ELSE table
    /\ UNCHANGED <<running, peers, guard, queue, sends, cells, mesh>>

\* An entry of the table has not been confirmed for ten minutes.
TableExpires(n) ==
    /\ n \in table
    /\ table' = table \ {n}
    /\ UNCHANGED <<running, peers, guard, queue, sends, cells, mesh, announced, used>>

-----------------------------------------------------------------------------
(* Lifecycle and network *)

Start ==
    /\ ~running
    /\ running' = TRUE
    /\ \E g \in Guards : Pin(g)
    /\ UNCHANGED <<peers, queue, sends, cells, mesh, announced, used>>

Stop ==
    /\ running /\ used.stops < Stops
    /\ used' = [used EXCEPT !.stops = @ + 1]
    /\ running' = FALSE /\ queue' = <<>>
    /\ UNCHANGED <<peers, guard, table, sends, cells, mesh, announced>>

PeerChange(n) ==
    /\ used.churn < Churn
    /\ used' = [used EXCEPT !.churn = @ + 1]
    /\ peers' = IF n \in peers THEN peers \ {n} ELSE peers \cup {n}
    /\ UNCHANGED <<running, guard, table, queue, sends, cells, mesh, announced>>

\* A cell arrives at its exit, which floods the message; nothing says it must.
CellArrives(c) ==
    /\ mesh' = mesh \cup {c.msg}
    /\ UNCHANGED <<running, peers, guard, table, queue, sends, cells, announced, used>>

-----------------------------------------------------------------------------
Init ==
    /\ running = FALSE /\ peers = {} /\ guard = None /\ table = {}
    /\ queue = <<>>
    /\ sends = [m \in Msg |-> [st |-> "idle", attempt |-> 0, tried |-> {}]]
    /\ cells = {} /\ mesh = {}
    /\ announced = [n \in Node |-> {}]
    /\ used = [churn |-> 0, answers |-> 0, stops |-> 0]

Next ==
    \/ \E m \in Msg : Send(m) \/ Echo(m) \/ EchoTimeout(m)
    \/ EmitCell \/ AskGuard
    \/ \E n \in Node, known \in SUBSET Node : PexResponse(n, known)
    \/ \E n \in Node : TableExpires(n) \/ PeerChange(n)
    \/ Start \/ Stop
    \/ \E c \in cells : CellArrives(c)

\* Timers fire: the slots of the cover traffic and the timeouts of echoes.
Fairness == WF_vars(EmitCell) /\ \A m \in Msg : WF_vars(EchoTimeout(m))

Spec     == Init /\ [][Next]_vars
LiveSpec == Spec /\ Fairness

-----------------------------------------------------------------------------
(* Properties *)

\* Every cell leaves for an exit that its guard itself has named, and that is not
\* the guard: cells queued before a change of guard get a new exit, and the table
\* of the old guard never serves the new one (emitCell, onGuardChange,
\* handleGuardPex).  And whatever happens to the guard, a message leaves once per
\* attempt at most.
ExitBehindGuard ==
    /\ \A c \in cells : c.exit \in announced[c.guard] /\ c.exit # c.guard
    /\ \A c, d \in cells : c.msg = d.msg /\ c.n = d.n => c = d

\* Every call of send() returns: with the echo, or when its attempts are used up, also
\* when the circuit is stopped or the guard lost meanwhile; and no failure replaces a
\* guard that is still a neighbour (getPinnedGuard, awaitEcho).
SendReturns ==
    /\ \A m \in Msg : sends[m].st = "waiting" ~> sends[m].st \in {"ok", "failed"}
    /\ [][guard' # guard => guard = None \/ guard \notin peers]_vars
=============================================================================
