---------------------------- MODULE MailboxFetch ----------------------------
(***************************************************************************)
(* Looking for the body a hint points to: SchrodingerMailbox.onOpened and  *)
(* fetchBody, and the asking half of DHTMailbox.ts (fetch, handleGet,      *)
(* handleRes) over the nodes nearest to one slot.                          *)
(*                                                                         *)
(* The node looks at its own store twice, with an await after each look,   *)
(* and asks its K nearest neighbours; neighbours come, go and answer late. *)
(* Reads of the node's own store succeed and nothing stored expires.       *)
(***************************************************************************)
EXTENDS Integers, FiniteSets

CONSTANTS
    Call,       \* opened hints of the slot
    Peer, Self,
    Rank,       \* Rank[p]: the distance of p from the slot on the ring
    K,          \* K_NEAREST
    Entry,
    Genuine,    \* entries that pass checkEntry
    Body,       \* those of them that decode as a slot
    NoAnswer,
    Moves       \* bound: neighbours that come or go, and entries that reach a store

ASSUME MailboxFetchAssumption ==
    /\ Self \in Peer /\ IsFiniteSet(Peer)
    /\ Rank \in [Peer -> Nat] /\ \A p, q \in Peer : Rank[p] = Rank[q] => p = q
    /\ Body \subseteq Genuine /\ Genuine \subseteq Entry
    /\ K \in Nat \ {0} /\ Moves \in Nat /\ \A S \in SUBSET Entry : S # NoAnswer

VARIABLES
    linked,     \* verified neighbours
    holds,      \* holds[p]: what p stores, what other nodes keep under the slot included
    at,         \* at[c]: where the call awaits
    near,       \* near[c]: the neighbours chosen for c
    own,        \* own[c]: what the node had itself, NoAnswer before it looked
    got,        \* got[c]: uniquePackets
    pending,    \* pendingRequests: pairs of a call and the neighbour it asked
    received,   \* responsesReceived
    grace,      \* calls whose grace timer runs
    result,     \* what the promise of c was resolved with
    bodies,     \* bodies[c]: bodies the listeners were given for c
    net,        \* questions and answers on their way
    arriving,   \* answers that wait for acceptForStorage
    moves

calls == <<at, near, own, got, pending, received, grace, result, bodies>>
vars  == <<linked, holds, calls, net, arriving, moves>>

\* findKNearest(), without the node itself.
Nearest(n) ==
    LET all == linked \cup {Self}
    IN  {p \in all : Cardinality({q \in all : Rank[q] < Rank[p]}) < n} \ {Self}

\* isResponsibleFor(): the node is among the nearest, with some slack.
Responsible == Cardinality({q \in linked : Rank[q] < Rank[Self]}) < K + 1

-----------------------------------------------------------------------------
(* The call *)

\* onOpened: a hint was opened, fetchBody looks at the store of the node.
Opened(c) ==
    /\ at[c] = "new"
    /\ at' = [at EXCEPT ![c] = "stored"]
    /\ UNCHANGED <<linked, holds, near, own, got, pending, received, grace, result, bodies,
                   net, arriving, moves>>

Resolve(c, S) ==
    /\ at' = [at EXCEPT ![c] = "done"]
    /\ result' = [result EXCEPT ![c] = S]
    /\ bodies' = [bodies EXCEPT ![c] = @ + (IF S \cap Body = {} THEN 0 ELSE 1)]

\* Nothing is asked for what the node has; otherwise fetch() chooses whom to ask and
\* looks at the store again.
StoredRead(c) ==
    /\ at[c] = "stored"
    /\ own' = [own EXCEPT ![c] = holds[Self]]
    /\ IF holds[Self] \cap Body # {}
       THEN Resolve(c, holds[Self]) /\ near' = near
       ELSE /\ at' = [at EXCEPT ![c] = "get"]
            /\ near' = [near EXCEPT ![c] = Nearest(K)]
            /\ UNCHANGED <<result, bodies>>
    /\ UNCHANGED <<linked, holds, got, pending, received, grace, net, arriving, moves>>

\* A GET to every neighbour chosen that is still there; the hard timer starts.
GetRead(c) ==
    /\ at[c] = "get"
    /\ got' = [got EXCEPT ![c] = holds[Self]]
    /\ IF near[c] = {}
       THEN Resolve(c, holds[Self]) /\ UNCHANGED <<pending, net>>
       ELSE /\ at' = [at EXCEPT ![c] = "asked"]
            /\ pending' = pending \cup {<<c, p>> : p \in near[c]}
            /\ net' = net \cup {[call |-> c, peer |-> p, entries |-> NoAnswer] :
                                  p \in near[c] \cap linked}
            /\ UNCHANGED <<result, bodies>>
    /\ UNCHANGED <<linked, holds, near, own, received, grace, arriving, moves>>

\* Mutant: the requests of a settled call stay.
FinalizeLeaky(c, S) ==
    /\ Resolve(c, S)
    /\ grace' = grace \ {c}
    /\ pending' = pending

\* finalize(): timers and requests of the call go.
Finalize(c, S) ==
    /\ Resolve(c, S)
    /\ grace' = grace \ {c}
    /\ pending' = {r \in pending : r[1] # c}

GraceElapsed(c) ==
    /\ c \in grace /\ at[c] = "asked"
    /\ Finalize(c, got[c])
    /\ UNCHANGED <<linked, holds, near, own, got, received, net, arriving, moves>>

HardTimeout(c) ==
    /\ at[c] = "asked"
    /\ Finalize(c, got[c])
    /\ UNCHANGED <<linked, holds, near, own, got, received, net, arriving, moves>>

-----------------------------------------------------------------------------
(* Questions and answers *)

\* handleGet: a neighbour answers with what it holds, or its store fails.
HandleGet(m) ==
    /\ m \in net /\ m.entries = NoAnswer
    /\ \/ net' = (net \ {m}) \cup {[m EXCEPT !.entries = holds[m.peer]]}
       \/ net' = net \ {m}
    /\ UNCHANGED <<linked, holds, calls, arriving, moves>>

\* Mutant: entries are taken as they come.
AcceptedUnchecked(S) == S

\* filterValidEntries()
Accepted(S) == S \cap Genuine

\* handleRes: an answer to a request that is still open; it closes the request, counts
\* and settles the call or starts its grace.  What is accepted is stored as well.
HandleRes(m) ==
    LET c == m.call
        S == got[c] \cup Accepted(m.entries)
    IN  /\ m \in net /\ m.entries # NoAnswer
        /\ net' = net \ {m}
        /\ IF <<c, m.peer>> \notin pending
           THEN UNCHANGED <<calls, arriving>>
           ELSE /\ got' = [got EXCEPT ![c] = S]
                /\ received' = [received EXCEPT ![c] = @ + 1]
                /\ IF received'[c] >= Cardinality(near[c])
                   THEN Finalize(c, S)
                   ELSE /\ grace' = grace \cup {c}
                        /\ pending' = pending \ {<<c, m.peer>>}
                        /\ UNCHANGED <<at, result, bodies>>
                /\ arriving' = IF Responsible THEN arriving \cup Accepted(m.entries)
                               ELSE arriving
                /\ UNCHANGED <<near, own>>
        /\ UNCHANGED <<linked, holds, moves>>

\* acceptForStorage is through: stored, or refused by a limit.
AnswerStored(e) ==
    /\ e \in arriving /\ arriving' = arriving \ {e}
    /\ \/ holds' = [holds EXCEPT ![Self] = @ \cup {e}]
       \/ holds' = holds
    /\ UNCHANGED <<linked, calls, net, moves>>

-----------------------------------------------------------------------------
(* The neighbourhood *)

\* A copy reaches a store through replication.
Replicated(p, e) ==
    /\ moves < Moves /\ moves' = moves + 1
    /\ e \in (IF p = Self THEN Genuine ELSE Entry) \ holds[p]
    /\ holds' = [holds EXCEPT ![p] = @ \cup {e}]
    /\ UNCHANGED <<linked, calls, net, arriving>>

Connects(p) ==
    /\ p \notin linked \cup {Self}
    /\ moves < Moves /\ moves' = moves + 1
    /\ linked' = linked \cup {p}
    /\ UNCHANGED <<holds, calls, net, arriving>>

\* What is on its way is lost.
Disconnects(p) ==
    /\ p \in linked
    /\ moves < Moves /\ moves' = moves + 1
    /\ linked' = linked \ {p}
    /\ net' = {m \in net : m.peer # p}
    /\ UNCHANGED <<holds, calls, arriving>>

-----------------------------------------------------------------------------
Init ==
    /\ linked \in SUBSET (Peer \ {Self})
    /\ holds = [p \in Peer |-> {}]
    /\ at = [c \in Call |-> "new"] /\ near = [c \in Call |-> {}]
    /\ own = [c \in Call |-> NoAnswer] /\ got = [c \in Call |-> {}]
    /\ pending = {} /\ received = [c \in Call |-> 0] /\ grace = {}
    /\ result = [c \in Call |-> NoAnswer] /\ bodies = [c \in Call |-> 0]
    /\ net = {} /\ arriving = {} /\ moves = 0

Next ==
    \/ \E c \in Call : \/ Opened(c) \/ StoredRead(c) \/ GetRead(c)
                       \/ GraceElapsed(c) \/ HardTimeout(c)
    \/ \E m \in net : HandleGet(m) \/ HandleRes(m)
    \/ \E e \in Entry : AnswerStored(e) \/ \E p \in Peer : Replicated(p, e)
    \/ \E p \in Peer : Connects(p) \/ Disconnects(p)

\* The database answers and the hard timer fires.
Fairness ==
    \A c \in Call : WF_vars(StoredRead(c)) /\ WF_vars(GetRead(c)) /\ WF_vars(HardTimeout(c))

Spec == Init /\ [][Next]_vars /\ Fairness

-----------------------------------------------------------------------------
(* Properties *)

P == INSTANCE FetchPromise WITH floor <- own, answer <- result

\* The call implements the promise: answered once, whatever timers, answers of other
\* neighbours and disconnections come after, with nothing but genuine entries and with
\* everything the node had itself (fetch, fetchBody).
Promised == P!Promise

\* The requests of one call, its timers and what it counted.
Agrees(c) ==
    LET open == {p \in Peer : <<c, p>> \in pending}
    IN  /\ open # {} => at[c] = "asked" /\ open \subseteq near[c]
        /\ c \in grace <=> at[c] = "asked" /\ received[c] > 0
        /\ at[c] = "asked" => received[c] = Cardinality(near[c] \ open)
        /\ bodies[c] <= 1

\* Requests, timers and counts agree, so that no answer is counted twice or for a call
\* that is settled and no request is left behind in pendingRequests; and the listeners
\* are given one body per opened hint (handleRes, finalize, onOpened).
RequestsAgree == \A c \in Call : Agrees(c)
=============================================================================
