----------------------------- MODULE ThreadView -----------------------------
(***************************************************************************)
(* The thread a user has open: ThreadOrchestrator.ts with the order of     *)
(* ThreadDAGManager.ts and the posts IndexedDBStore keeps.                 *)
(*                                                                         *)
(* Opening a thread, a packet and a reply are async functions of one       *)
(* object: the code between two awaits is one step, and the user changes   *)
(* the thread in between.  A packet opens with the key of the thread it    *)
(* was written for and with no other.  The status line is that of          *)
(* BoardView and left out here.                                            *)
(***************************************************************************)
EXTENDS Integers, Sequences, FiniteSets, Functions

CONSTANTS
    Thread,
    Post,
    Own,        \* the posts that are replies of this user
    NoThread,
    ThreadOf,   \* ThreadOf[p]: the thread another user wrote p for
    Rank,       \* Rank[p]: created_at with packet_id, as the tie-breaker compares them
    Parents0,   \* the possible parents of the other users' posts
    MaxTips,    \* parents of a reply: 2 in getTips
    MaxActs,    \* bound: calls of activate()
    InFlight,   \* bound: packets decrypted or saved at the same time
    Failures    \* bound: saves, builds and reads that fail

ASSUME ThreadViewAssumption ==
    /\ Own \subseteq Post /\ NoThread \notin Thread /\ {"get", "loop"} \cap Post = {}
    /\ ThreadOf \in [Post \ Own -> Thread]
    /\ Rank \in [Post -> Nat] /\ \A p, q \in Post : Rank[p] = Rank[q] => p = q
    /\ Parents0 \subseteq [Post -> SUBSET Post]
    /\ MaxTips \in Nat \ {0} /\ {MaxActs, InFlight, Failures} \subseteq Nat

\* Posts name their parents by what these contain, so that none is its own ancestor.
Grounded(par) == \A S \in SUBSET Post : S # {} => \E p \in S : par[p] \cap S = {}

\* The other users' posts do not answer the replies that are yet to be written.
ASSUME ParentsAssumption ==
    \A par \in Parents0 : Grounded(par) /\ \A p \in Post : par[p] \cap Own = {}

VARIABLES
    open,       \* currentThreadId
    nodes,      \* the posts in dag, in the order they were added
    seen,       \* seenPacketIds
    snapshot,   \* what the user sees
    disk,       \* disk[t]: posts saved under t
    acts,       \* calls of activate() so far
    loads,      \* activate() calls under way
    tasks,      \* handlePacketObject() calls that await the decryption
    saves,      \* ... and those that await db.save
    replies,    \* submitReply() calls under way
    wrote,      \* wrote[p]: the thread the reply p was written for
    parents,    \* parents[p]
    slot,       \* slot[p]: the thread whose key sealed the slot of the reply p
    known,      \* history: posts of the open thread that were read from disk
    shown,      \* history: received posts that were displayed
    lost,       \* history: posts whose save failed
    failures

view    == <<open, nodes, seen, snapshot, known>>
written == <<wrote, parents, slot>>
vars == <<view, disk, acts, loads, tasks, saves, replies, written,
          shown, lost, failures>>

For(p) == IF p \in Own THEN wrote[p] ELSE ThreadOf[p]

-----------------------------------------------------------------------------
(* ThreadDAGManager *)

\* The posts of S that come before p by their ranks.
Lower(S, p) == {q \in S : Rank[q] < Rank[p]}

\* The i-th post of S is the one that i - 1 others come before.
Sorted(S) ==
    [i \in 1..Cardinality(S) |-> CHOOSE p \in S : Cardinality(Lower(S, p)) = i - 1]

\* The posts of S whose parents in S are all in D.
Ready(S, par, D) == {p \in S : par[p] \cap S \subseteq D}

\* Mutant: a post whose turn has come is appended without sorting.
NextQueueUnsorted(rest, ready) == rest \o Sorted(ready)

\* The queue is sorted again whenever a post joins it.
NextQueue(rest, ready) == Sorted(Range(rest) \cup ready)

\* Kahn's algorithm: every round takes the head of the queue and lets in the
\* posts that waited for it last.
Round(S, par, prev) ==
    LET done == Range(prev.out)
        cur  == Head(prev.queue)
        new  == Ready(S, par, done \cup {cur}) \ Ready(S, par, done)
    IN  IF prev.queue = <<>> THEN prev
        ELSE [out   |-> Append(prev.out, cur),
              queue |-> NextQueue(Tail(prev.queue), new)]

Rounds(S, par) ==
    LET round[k \in 0..Cardinality(S)] ==
          IF k = 0 THEN [out |-> <<>>, queue |-> Sorted(Ready(S, par, {}))]
          ELSE Round(S, par, round[k - 1])
    IN  round

GetSortedPosts(S, par) == Rounds(S, par)[Cardinality(S)].out

\* The posts nobody answers, at most MaxTips of them; weight and time decide
\* which, and are left out.
GetTips(S) ==
    LET tips == {p \in S : \A q \in S : p \notin parents[q]}
    IN  {T \in SUBSET tips :
           Cardinality(T) = IF Cardinality(tips) < MaxTips THEN Cardinality(tips)
                            ELSE MaxTips}

\* addPost and notify.
Display(p) ==
    /\ nodes' = Append(nodes, p)
    /\ snapshot' = GetSortedPosts(Range(nodes'), parents)

-----------------------------------------------------------------------------
(* Packets *)

\* p opened with the key of k and is not in the graph that is open now, which
\* refuses posts of other threads.
IsNew(p, k) == For(p) = k /\ open = k /\ p \notin Range(nodes)

AddReceived(p, k) ==
    IF IsNew(p, k) THEN Display(p) ELSE UNCHANGED <<nodes, snapshot>>

\* handlePacketObject up to its first await.
HandlePacket(p) ==
    /\ open # NoThread /\ For(p) # NoThread /\ p \notin seen
    /\ Cardinality(tasks) + Cardinality(saves) < InFlight
    /\ seen' = seen \cup {p}
    /\ tasks' = tasks \cup {[post |-> p, key |-> open]}
    /\ UNCHANGED <<open, nodes, snapshot, known, disk, acts, loads, saves, replies,
                   written, shown, lost, failures>>

\* From the mesh, this user's own replies too once they are sent.
OnGossipPacket(p) == (p \in Own => slot[p] # NoThread) /\ HandlePacket(p)

\* From a slot whose hint opened with the key of the open thread.
OnHintBody(p) == open = (IF p \in Own THEN slot[p] ELSE ThreadOf[p]) /\ HandlePacket(p)

\* The packet is decrypted; a new post is displayed and then saved.
PacketDecrypted(t) ==
    /\ tasks' = tasks \ {t}
    /\ AddReceived(t.post, t.key)
    /\ saves' = IF IsNew(t.post, t.key)
                THEN saves \cup {[post |-> t.post, thread |-> t.key]} ELSE saves
    /\ shown' = IF IsNew(t.post, t.key) THEN shown \cup {t.post} ELSE shown
    /\ UNCHANGED <<open, seen, known, disk, acts, loads, replies, written, lost,
                   failures>>

\* Mutant: saved under the thread that is open when the save is made.
SavedUnderOpen(s) ==
    /\ saves' = saves \ {s}
    /\ disk' = IF open = NoThread THEN disk ELSE [disk EXCEPT ![open] = @ \cup {s.post}]
    /\ UNCHANGED <<view, acts, loads, tasks, replies, written, shown, lost, failures>>

Saved(s) ==
    /\ saves' = saves \ {s}
    /\ disk' = [disk EXCEPT ![s.thread] = @ \cup {s.post}]
    /\ UNCHANGED <<view, acts, loads, tasks, replies, written, shown, lost, failures>>

SaveFails(s) ==
    /\ failures < Failures /\ failures' = failures + 1
    /\ saves' = saves \ {s} /\ lost' = lost \cup {s.post}
    /\ UNCHANGED <<view, disk, acts, loads, tasks, replies, written, shown>>

-----------------------------------------------------------------------------
(* Opening and closing a thread *)

\* Mutant: the ids seen in the thread before stay.
ResetKeepsSeen(t) ==
    /\ open' = t /\ nodes' = <<>> /\ snapshot' = <<>>
    /\ seen' = seen /\ known' = {}

\* clear(), and the graph of the thread t that is opened next.
Reset(t) ==
    /\ open' = t /\ nodes' = <<>> /\ snapshot' = <<>>
    /\ seen' = {} /\ known' = {}

Clear ==
    /\ open # NoThread
    /\ Reset(NoThread)
    /\ UNCHANGED <<disk, acts, loads, tasks, saves, replies, written, shown, lost,
                   failures>>

Activate(t) ==
    /\ acts < MaxActs /\ acts' = acts + 1
    /\ IF open # t THEN Reset(t) ELSE UNCHANGED view
    /\ loads' = loads \cup {[n |-> acts', thread |-> t, at |-> "get", rest |-> {}]}
    /\ UNCHANGED <<disk, tasks, saves, replies, written, shown, lost, failures>>

Move(l, at, rest) ==
    loads' = (loads \ {l}) \cup {[n |-> l.n, thread |-> l.thread, at |-> at, rest |-> rest]}

\* db.getPosts(); an error counts as nothing.
LoadRead(l) ==
    /\ l.at = "get"
    /\ \/ /\ Move(l, "loop", disk[l.thread])
          /\ known' = IF l.thread = open THEN known \cup disk[open] ELSE known
          /\ failures' = failures
       \/ /\ Move(l, "loop", {}) /\ known' = known
          /\ failures < Failures /\ failures' = failures + 1
    /\ UNCHANGED <<open, nodes, seen, snapshot, disk, acts, tasks, saves, replies,
                   written, shown, lost>>

\* The next saved post, unless it was seen.
LoadNext(l, p) ==
    /\ l.at = "loop" /\ p \in l.rest
    /\ seen' = seen \cup {p}
    /\ IF p \in seen THEN Move(l, "loop", l.rest \ {p})
                     ELSE Move(l, p, l.rest \ {p})
    /\ UNCHANGED <<open, nodes, snapshot, known, disk, acts, tasks, saves, replies,
                   written, shown, lost, failures>>

LoadDecrypted(l) ==
    /\ l.at \in Post
    /\ Move(l, "loop", l.rest)
    /\ AddReceived(l.at, l.thread)
    /\ UNCHANGED <<open, seen, known, disk, acts, tasks, saves, replies, written,
                   shown, lost, failures>>

\* triggerInitialSync() and fullSync() ask nobody for anything.
LoadDone(l) ==
    /\ l.at = "loop" /\ l.rest = {}
    /\ loads' = loads \ {l}
    /\ UNCHANGED <<view, disk, acts, tasks, saves, replies, written, shown, lost,
                   failures>>

-----------------------------------------------------------------------------
(* submitReply *)

SubmitReply(p) ==
    /\ p \in Own /\ wrote[p] = NoThread /\ open # NoThread
    /\ wrote' = [wrote EXCEPT ![p] = open]
    /\ \E T \in GetTips(Range(nodes)) : parents' = [parents EXCEPT ![p] = T]
    /\ replies' = replies \cup {[post |-> p, at |-> "build", thread |-> open]}
    /\ UNCHANGED <<view, disk, acts, loads, tasks, saves, slot, shown, lost, failures>>

\* The proof of work is done: the reply is added to the graph that is open now.
\* Without one, sealing the slot fails.
ReplyBuilt(r) ==
    /\ r.at = "build"
    /\ IF open = NoThread
       THEN /\ replies' = replies \ {r}
            /\ UNCHANGED <<nodes, snapshot, seen>>
       ELSE /\ replies' = (replies \ {r})
                            \cup {[post |-> r.post, at |-> "save", thread |-> open]}
            /\ Display(r.post) /\ seen' = seen \cup {r.post}
    /\ UNCHANGED <<open, known, disk, acts, loads, tasks, saves, written, shown, lost,
                   failures>>

BuildFails(r) ==
    /\ r.at = "build"
    /\ failures < Failures /\ failures' = failures + 1
    /\ replies' = replies \ {r}
    /\ UNCHANGED <<view, disk, acts, loads, tasks, saves, written, shown, lost>>

\* Saved or not, the reply leaves in a slot sealed with the key of the thread that
\* is open by now.
ReplySaved(r) ==
    /\ r.at = "save"
    /\ \/ /\ disk' = [disk EXCEPT ![r.thread] = @ \cup {r.post}]
          /\ UNCHANGED <<lost, failures>>
       \/ /\ failures < Failures /\ failures' = failures + 1
          /\ lost' = lost \cup {r.post} /\ disk' = disk
    /\ replies' = replies \ {r}
    /\ slot' = [slot EXCEPT ![r.post] = open]
    /\ UNCHANGED <<view, acts, loads, tasks, saves, wrote, parents, shown>>

-----------------------------------------------------------------------------
Init ==
    /\ open = NoThread /\ nodes = <<>> /\ seen = {} /\ snapshot = <<>> /\ known = {}
    /\ disk = [t \in Thread |-> {}]
    /\ acts = 0 /\ loads = {} /\ tasks = {} /\ saves = {} /\ replies = {}
    /\ wrote = [p \in Own |-> NoThread] /\ slot = [p \in Own |-> NoThread]
    /\ parents \in Parents0
    /\ shown = {} /\ lost = {} /\ failures = 0

Next ==
    \/ \E t \in Thread : Activate(t)
    \/ Clear
    \/ \E l \in loads :
         \/ LoadRead(l) \/ LoadDecrypted(l) \/ LoadDone(l)
         \/ \E p \in Post : LoadNext(l, p)
    \/ \E p \in Post : OnGossipPacket(p) \/ OnHintBody(p) \/ SubmitReply(p)
    \/ \E t \in tasks : PacketDecrypted(t)
    \/ \E s \in saves : Saved(s) \/ SaveFails(s)
    \/ \E r \in replies : ReplyBuilt(r) \/ BuildFails(r) \/ ReplySaved(r)

Spec == Init /\ [][Next]_vars

-----------------------------------------------------------------------------
(* Properties *)

\* Every post in the graph is displayed once, and each place holds the earliest of
\* the posts whose parents are above it: readers with the same posts see the same
\* order, whatever order they came in (getSortedPosts).
DisplayOrder ==
    /\ Range(snapshot) = Range(nodes) /\ Len(snapshot) = Len(nodes)
    /\ \A i, j \in DOMAIN snapshot :
         LET above == {snapshot[k] : k \in 1..(i - 1)}
         IN  /\ parents[snapshot[i]] \cap Range(nodes) \subseteq above
             /\ j > i /\ parents[snapshot[j]] \cap Range(nodes) \subseteq above
                  => Rank[snapshot[i]] < Rank[snapshot[j]]

\* submitReply saves under the thread that is open by then; a load of that thread that is
\* still going on marks the reply as seen wherever the user is.
Misfiled(p) == \E t \in Thread \ {For(p)} : p \in disk[t]

\* What was read from disk for the open thread is displayed once nothing is under
\* way, although loads and packets of earlier visits finish during later ones and
\* copies arrive meanwhile, unless it is on disk under another thread as well
\* (seenPacketIds, loadInitialCache).
DiskShown ==
    loads = {} /\ tasks = {}
      => \A p \in known : For(p) = open /\ ~Misfiled(p) => p \in Range(nodes)

\* A received post that was once displayed is on disk under its own thread or
\* about to be, whatever thread is open by then, unless its save failed.
ShownKept ==
    \A p \in shown : \/ p \in disk[For(p)] \cup lost
                     \/ \E s \in saves : s.post = p

\* What ThreadDAGManager is for: the posts of one thread.
OneThread == \A p \in Range(nodes) : For(p) = open
=============================================================================
