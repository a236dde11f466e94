------------------------------ MODULE BoardView ------------------------------
(***************************************************************************)
(* The list of threads of the board a user has open: BoardOrchestrator.ts. *)
(*                                                                         *)
(* Packets, loads and submissions are async functions of one object: the   *)
(* code between two awaits is one step, and the user opens another board   *)
(* in between.  A packet creates one thread, and opens with the key of its *)
(* board and no other.  A board here is its id together with its key.      *)
(***************************************************************************)
EXTENDS Integers, FiniteSets

CONSTANTS
    Board, NoBoard,
    Packet,
    Own,        \* the packets that are threads this user creates
    BoardOf,    \* BoardOf[p]: the board another user made the thread p on
    MaxPow,     \* bound: the work behind a thread
    Degree,     \* bound: verified neighbours
    MaxActs,    \* bound: calls of activate()
    InFlight,   \* bound: packets, loads, reads of the timer and submissions under way
    Failures    \* bound: reads, saves, builds and deliveries that fail

ASSUME BoardViewAssumption ==
    /\ NoBoard \notin Board /\ Own \subseteq Packet
    /\ BoardOf \in [Packet \ Own -> Board]
    /\ MaxPow \in Nat \ {0} /\ {Degree, MaxActs, InFlight, Failures} \subseteq Nat

VARIABLES
    board,      \* currentBoardId and currentBoardKey
    threads,    \* threads[p]: the max_pow shown for p, 0 while p is not in the list
    seen,       \* seenPacketIds
    status,     \* the phase; "none" is idle with the message that there is no thread
    grace,      \* firstPeerAt: "unset", "running", or "over" EMPTY_VERDICT_GRACE_MS later
    verdict,    \* emptyVerdictTimer is set
    degree,     \* pm.degree
    debounce,   \* syncDebounce is set
    syncing,    \* syncInFlight, until the promise of fullSync() has settled
    statsOf,    \* the board startStatsSync() works for
    disk,       \* the packets saved, each under its own board
    stats,      \* stats[p]: max_pow of the row of thread p, 0 without one
    jobs,       \* handlePacketObject() calls under way, and for which load
    loads,      \* activate() calls under way
    ticks,      \* reads of the stats timer under way
    submits,    \* submitThread() calls under way
    home,       \* home[p]: the board the user made p for
    acts, failures,
    known,      \* history: packets read from disk for the board that is open
    missed      \* history: packets whose handling failed

listing == <<board, threads, seen, known>>
line == <<status, grace, verdict>>
sync == <<debounce, syncing, statsOf, ticks>>
kept == <<disk, stats>>
vars == <<listing, line, degree, sync, kept, jobs, loads, submits, home, acts, failures,
          missed>>

Listed(T) == {p \in Packet : T[p] > 0}
Shown  == Listed(threads)
None   == [p \in Packet |-> 0]
Higher(m, n) == IF m > n THEN m ELSE n
For(p) == IF p \in Own THEN home[p] ELSE BoardOf[p]

Free == Cardinality({j \in jobs : j.load = 0}) + Cardinality(loads)
          + Cardinality(ticks) + Cardinality(submits) < InFlight

-----------------------------------------------------------------------------
(* The status line.  Each operator gives the line that follows from a list of *)
(* threads and a time of the first neighbour.                                 *)

\* refreshEmptyStatus() while nothing is being submitted.
Refreshed(T, g, d) ==
    IF T # {} THEN [status |-> "idle", grace |-> g, verdict |-> FALSE]
    ELSE IF d = 0 THEN [status |-> "loading", grace |-> "unset", verdict |-> FALSE]
    ELSE IF g = "over" THEN [status |-> "none", grace |-> g, verdict |-> FALSE]
    ELSE [status |-> "syncing", grace |-> "running", verdict |-> TRUE]

Refresh(T, g, timer) ==
    LET r == IF status = "submitting"
             THEN [status |-> status, grace |-> g, verdict |-> timer]
             ELSE Refreshed(T, g, degree')
    IN  status' = r.status /\ grace' = r.grace /\ verdict' = r.verdict

\* The timer of the verdict fires; early, it is set again.
VerdictDue ==
    /\ verdict
    /\ degree' = degree
    /\ Refresh(Shown, grace, FALSE)
    /\ UNCHANGED <<listing, sync, kept, jobs, loads, submits, home, acts, failures, missed>>

GracePasses ==
    /\ grace = "running" /\ grace' = "over"
    /\ UNCHANGED <<listing, status, verdict, degree, sync, kept, jobs, loads, submits, home,
                   acts, failures, missed>>

-----------------------------------------------------------------------------
(* Neighbours and the synchronization *)

\* runFullSync(): nobody is asked for anything, the status line follows and the
\* timer of the statistics starts for b.  A call while one is under way does nothing.
FullSync(b) ==
    IF syncing THEN UNCHANGED <<line, syncing, statsOf>>
    ELSE /\ syncing' = TRUE
         /\ Refresh(Shown, grace, verdict)
         /\ statsOf' = IF degree = 0 THEN statsOf ELSE b

SyncSettled ==
    /\ syncing /\ syncing' = FALSE
    /\ UNCHANGED <<listing, line, degree, debounce, statsOf, ticks, kept, jobs, loads,
                   submits, home, acts, failures, missed>>

\* onPeerConnect is registered while a board is open.
PeerConnects ==
    /\ degree < Degree /\ degree' = degree + 1
    /\ IF board = NoBoard THEN UNCHANGED <<line, debounce>>
       ELSE /\ Refresh(Shown, IF Shown = {} THEN "running" ELSE grace, verdict)
            /\ debounce' = TRUE
    /\ UNCHANGED <<listing, syncing, statsOf, ticks, kept, jobs, loads, submits, home, acts,
                   failures, missed>>

PeerLeaves ==
    /\ degree > 0 /\ degree' = degree - 1
    /\ UNCHANGED <<listing, line, sync, kept, jobs, loads, submits, home, acts, failures,
                   missed>>

DebounceDue ==
    /\ debounce /\ debounce' = FALSE
    /\ degree' = degree
    /\ FullSync(board)
    /\ UNCHANGED <<listing, ticks, kept, jobs, loads, submits, home, acts, failures, missed>>

\* The rows of board b read from the database, for the threads that are shown.
StatsRead(b) == [p \in Packet |-> IF p \in disk /\ For(p) = b THEN stats[p] ELSE 0]

\* The interval of startStatsSync(): the read begins ...
StatsTick ==
    /\ statsOf # NoBoard /\ ticks = {} /\ Free
    /\ ticks' = {StatsRead(statsOf)}
    /\ UNCHANGED <<listing, line, degree, debounce, syncing, statsOf, kept, jobs, loads,
                   submits, home, acts, failures, missed>>

\* Mutant: a row of the database replaces what is shown.
MergedStatsReplace(T, rows) ==
    [p \in Packet |-> IF T[p] > 0 /\ rows[p] > 0 THEN rows[p] ELSE T[p]]

MergedStats(T, rows) ==
    [p \in Packet |-> IF T[p] > 0 THEN Higher(rows[p], T[p]) ELSE 0]

\* ... and its rows are merged into the list that is shown by then.
StatsMerged(rows) ==
    /\ ticks' = ticks \ {rows}
    /\ threads' = MergedStats(threads, rows)
    /\ UNCHANGED <<board, seen, known, line, degree, debounce, syncing, statsOf, kept,
                   jobs, loads, submits, home, acts, failures, missed>>

-----------------------------------------------------------------------------
(* Packets *)

\* mergeThread()
Merged(T, p, pow) == [T EXCEPT ![p] = Higher(@, pow)]

\* Mutant: the status line does not follow the list.
AnnounceListOnly == UNCHANGED line

\* A change is shown, and nothing is said to be missing any more.
Announce == IF threads' # threads THEN Refresh(Listed(threads'), grace, verdict)
            ELSE UNCHANGED line

Job(p, b, n, at, pow) == [post |-> p, board |-> b, load |-> n, at |-> at, pow |-> pow]

\* handlePacketObject up to the read of the statistics (resolveMaxPow): the packet
\* is decrypted, and dropped by the wrong key.
Handle(p, b, n) ==
    /\ seen' = seen \cup {p}
    /\ jobs' = IF p \in seen \/ For(p) # b THEN jobs
               ELSE jobs \cup {Job(p, b, n, "merge", Higher(1, stats[p]))}

\* From the mesh, or from a slot whose hint opened with the key of the open board.
OnPacket(p) ==
    /\ board # NoBoard /\ p \notin seen
    /\ p \in Own => home[p] # NoBoard /\ ~\E s \in submits : s.post = p /\ s.at # "send"
    /\ Free /\ Handle(p, board, 0)
    /\ UNCHANGED <<board, threads, known, line, degree, sync, kept, loads, submits, home,
                   acts, failures, missed>>

\* The packet is merged into the list that is open now, whichever board that is of;
\* one from the network is saved under its own board.
PacketMerged(j) ==
    /\ j.at = "merge"
    /\ threads' = Merged(threads, j.post, j.pow)
    /\ degree' = degree
    /\ Announce
    /\ jobs' = (jobs \ {j}) \cup
               (IF j.load = 0 THEN {Job(j.post, j.board, 0, "save", j.pow)} ELSE {})
    /\ UNCHANGED <<board, seen, known, sync, kept, loads, submits, home, acts, failures,
                   missed>>

\* persistThread(): the packet and the statistics of its thread in one transaction.
PacketSaved(j) ==
    /\ j.at = "save"
    /\ jobs' = jobs \ {j}
    /\ disk' = disk \cup {j.post}
    /\ stats' = [stats EXCEPT ![j.post] = Higher(@, 1)]
    /\ UNCHANGED <<listing, line, degree, sync, loads, submits, home, acts, failures, missed>>

\* A read or a save fails: the call ends, the id stays in seenPacketIds.
JobFails(j) ==
    /\ failures < Failures /\ failures' = failures + 1
    /\ jobs' = jobs \ {j} /\ missed' = missed \cup {j.post}
    /\ UNCHANGED <<listing, line, degree, sync, kept, loads, submits, home, acts>>

\* A reply of some thread is saved by ThreadOrchestrator and adds to its work.
ReplySaved(p) ==
    /\ p \in disk /\ stats[p] < MaxPow
    /\ stats' = [stats EXCEPT ![p] = @ + 1]
    /\ UNCHANGED <<listing, line, degree, sync, disk, jobs, loads, submits, home, acts,
                   failures, missed>>

-----------------------------------------------------------------------------
(* Opening and closing a board *)

\* Mutant: the ids seen on the board before stay.
ResetKeepsSeen(b) ==
    /\ board' = b /\ threads' = None /\ seen' = seen /\ known' = {}
    /\ grace' = "unset" /\ verdict' = FALSE /\ debounce' = FALSE /\ statsOf' = NoBoard

\* clear(), and the board b that is opened next; the status line stays as it is.
Reset(b) ==
    /\ board' = b /\ threads' = None /\ seen' = {} /\ known' = {}
    /\ grace' = "unset" /\ verdict' = FALSE /\ debounce' = FALSE /\ statsOf' = NoBoard

Clear ==
    /\ board # NoBoard
    /\ Reset(NoBoard)
    /\ UNCHANGED <<status, degree, syncing, ticks, kept, jobs, loads, submits, home, acts,
                   failures, missed>>

Load(n, b, at, rest) == [n |-> n, board |-> b, at |-> at, rest |-> rest]

Activate(b) ==
    /\ Free /\ acts < MaxActs /\ acts' = acts + 1
    /\ IF board # b THEN Reset(b)
       ELSE UNCHANGED <<listing, grace, verdict, debounce, statsOf>>
    /\ loads' = loads \cup {Load(acts', b, "get", {})}
    /\ UNCHANGED <<status, degree, syncing, ticks, kept, jobs, submits, home, failures,
                   missed>>

\* loadInitialCache(): db.getPosts() answers, or fails and counts as nothing.
LoadRead(l) ==
    /\ l.at = "get"
    /\ \/ LET rows == {p \in disk : For(p) = l.board}
          IN  /\ loads' = (loads \ {l}) \cup {Load(l.n, l.board, "loop", rows)}
              /\ known' = IF l.board = board THEN known \cup rows ELSE known
              /\ failures' = failures
       \/ /\ loads' = (loads \ {l}) \cup {Load(l.n, l.board, "loop", {})}
          /\ known' = known
          /\ failures < Failures /\ failures' = failures + 1
    /\ UNCHANGED <<board, threads, seen, line, degree, sync, kept, jobs, submits, home,
                   acts, missed>>

Waiting(l) == \E j \in jobs : j.load = l.n

\* The next saved packet is handled, one at a time.
LoadNext(l, p) ==
    /\ l.at = "loop" /\ p \in l.rest /\ ~Waiting(l)
    /\ loads' = (loads \ {l}) \cup {Load(l.n, l.board, "loop", l.rest \ {p})}
    /\ Handle(p, l.board, l.n)
    /\ UNCHANGED <<board, threads, known, line, degree, sync, kept, submits, home, acts,
                   failures, missed>>

\* The cache is loaded: fullSync() for the board activate() was called with.
LoadDone(l) ==
    /\ l.at = "loop" /\ l.rest = {} /\ ~Waiting(l)
    /\ loads' = loads \ {l}
    /\ degree' = degree
    /\ FullSync(l.board)
    /\ UNCHANGED <<listing, debounce, ticks, kept, jobs, submits, home, acts, failures,
                   missed>>

-----------------------------------------------------------------------------
(* submitThread *)

Submit(p, b, at) == [post |-> p, board |-> b, at |-> at]

SubmitThread(p) ==
    /\ p \in Own /\ home[p] = NoBoard /\ board # NoBoard /\ Free
    /\ home' = [home EXCEPT ![p] = board]
    /\ status' = "submitting"
    /\ submits' = submits \cup {Submit(p, board, "build")}
    /\ UNCHANGED <<listing, grace, verdict, degree, sync, kept, jobs, loads, acts, failures,
                   missed>>

\* The proof of work is done: the thread joins the list that is open now.
SubmitBuilt(s) ==
    /\ s.at = "build"
    /\ status' = "submitting"
    /\ threads' = Merged(threads, s.post, 1) /\ seen' = seen \cup {s.post}
    /\ submits' = (submits \ {s}) \cup {Submit(s.post, s.board, "save")}
    /\ UNCHANGED <<board, known, grace, verdict, degree, sync, kept, jobs, loads, home,
                   acts, failures, missed>>

BuildFails(s) ==
    /\ s.at = "build"
    /\ failures < Failures /\ failures' = failures + 1
    /\ status' = "error" /\ submits' = submits \ {s}
    /\ UNCHANGED <<listing, grace, verdict, degree, sync, kept, jobs, loads, home, acts,
                   missed>>

\* Saved or not, the thread is sent and the status line is idle.
SubmitSaved(s) ==
    /\ s.at = "save"
    /\ \/ /\ disk' = disk \cup {s.post}
          /\ stats' = [stats EXCEPT ![s.post] = Higher(@, 1)]
          /\ failures' = failures
       \/ failures < Failures /\ failures' = failures + 1 /\ UNCHANGED kept
    /\ status' = "idle"
    /\ submits' = (submits \ {s}) \cup {Submit(s.post, s.board, "send")}
    /\ UNCHANGED <<listing, grace, verdict, degree, sync, jobs, loads, home, acts, missed>>

\* sendAnonymously(): the circuit delivers, and the hint is released, or an error is
\* shown, whatever the status line says by then.
SubmitSent(s) ==
    /\ s.at = "send"
    /\ submits' = submits \ {s}
    /\ \/ UNCHANGED <<status, failures>>
       \/ failures < Failures /\ failures' = failures + 1 /\ status' = "error"
    /\ UNCHANGED <<listing, grace, verdict, degree, sync, kept, jobs, loads, home, acts,
                   missed>>

-----------------------------------------------------------------------------
Init ==
    /\ board = NoBoard /\ threads = None /\ seen = {} /\ known = {}
    /\ status = "idle" /\ grace = "unset" /\ verdict = FALSE
    /\ degree = 0 /\ debounce = FALSE /\ syncing = FALSE /\ statsOf = NoBoard
    /\ disk = {} /\ stats = [p \in Packet |-> 0]
    /\ jobs = {} /\ loads = {} /\ ticks = {} /\ submits = {}
    /\ home = [p \in Own |-> NoBoard]
    /\ acts = 0 /\ failures = 0 /\ missed = {}

\* What may run before the promise of fullSync() is cleared: continuations that need
\* no event.
Continuation ==
    \/ SyncSettled
    \/ \E l \in loads : LoadDone(l) \/ \E p \in Packet : LoadNext(l, p)

\* A timer, an event, an answer of the database or a call of the user interface.
Event ==
    \/ VerdictDue \/ GracePasses \/ PeerConnects \/ PeerLeaves
    \/ DebounceDue \/ StatsTick \/ \E rows \in ticks : StatsMerged(rows)
    \/ \E p \in Packet : OnPacket(p) \/ ReplySaved(p) \/ SubmitThread(p)
    \/ \E j \in jobs : PacketMerged(j) \/ PacketSaved(j) \/ JobFails(j)
    \/ Clear \/ \E b \in Board : Activate(b)
    \/ \E l \in loads : LoadRead(l)
    \/ \E s \in submits :
         SubmitBuilt(s) \/ BuildFails(s) \/ SubmitSaved(s) \/ SubmitSent(s)

Next == Continuation \/ (~syncing /\ Event)

Spec == Init /\ [][Next]_vars

-----------------------------------------------------------------------------
(* Properties *)

\* "There is no thread" stands over an empty list only, and a status line that says
\* the board is being searched is followed up: by the timer of the verdict, or by a
\* first neighbour (refreshEmptyStatus, onPeerConnect, clear).
StatusFits ==
    /\ status = "none" => Shown = {}
    /\ board # NoBoard /\ loads = {} =>
         /\ status = "syncing" => verdict
         /\ status = "loading" => degree = 0

\* What was read from disk for the open board is in the list once nothing is under
\* way, although loads and packets of earlier visits finish during later ones and
\* copies arrive meanwhile, unless the handling of the packet failed.
DiskListed == loads = {} /\ jobs = {} => known \subseteq Shown \cup missed

\* As long as the board stays open no thread leaves the list and the work shown for
\* it does not fall, although statistics read earlier are merged later
\* (resolveMaxPow, mergeThread, startStatsSync).
WorkKept ==
    [][board' = board => \A p \in Packet : threads'[p] >= threads[p]]_vars

=============================================================================
