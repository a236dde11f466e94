------------------------- MODULE ThreadViewProofs -------------------------
(***************************************************************************)
(* Proofs about ThreadView for any threads, posts, visits and number of    *)
(* packets under way: what is shown is kept, what was read is shown, and   *)
(* the posts stand in order.  The order is not needed for the other two.   *)
(***************************************************************************)
EXTENDS ThreadView, SequenceTheorems, FiniteSetTheorems, WellFoundedInduction, TLAPS

Visit == Thread \cup {NoThread}
Loads == [n : Nat, thread : Thread, at : Post \cup {"get", "loop"}, rest : SUBSET Post]
Tasks == [post : Post, key : Thread]
Saves == [post : Post, thread : Thread]
Works == [post : Own, at : {"build", "save"}, thread : Thread]

Types ==
    /\ open \in Visit /\ nodes \in Seq(Post) /\ seen \subseteq Post
    /\ disk \in [Thread -> SUBSET Post] /\ acts \in Nat
    /\ loads \subseteq Loads /\ tasks \subseteq Tasks
    /\ saves \subseteq Saves /\ replies \subseteq Works
    /\ wrote \in [Own -> Visit]
    /\ known \subseteq Post /\ shown \subseteq Post

\* A post that got anywhere has a thread.
Placed ==
    /\ \A p \in seen \cup known \cup shown : For(p) # NoThread
    /\ \A t \in Thread : \A p \in disk[t] : For(p) # NoThread
    /\ \A r \in replies : For(r.post) # NoThread
    /\ \A s \in saves : s.thread = For(s.post)

\* What a load has still to look at is on disk; before its read it has nothing.
Reading ==
    /\ \A l \in loads : l.rest \subseteq disk[l.thread]
    /\ \A l \in loads : l.at = "get" => l.rest = {}

\* A post of the open thread that was seen is displayed or on its way to be, and one that
\* was read was seen or will be looked at.
OnItsWay ==
    \A p \in Post : For(p) = open /\ open # NoThread /\ ~Misfiled(p) =>
      /\ p \in seen => \/ p \in Range(nodes)
                       \/ \E t \in tasks : t.post = p /\ t.key = open
                       \/ \E l \in loads : l.at = p /\ l.thread = open
      /\ p \in known => p \in seen \/ \E l \in loads : p \in l.rest /\ l.thread = open

ThreadInv == Types /\ Placed /\ Reading /\ OnItsWay /\ ShownKept

-----------------------------------------------------------------------------
LEMMA ThreadInvInit == Init => ThreadInv
  BY ThreadViewAssumption
  DEF Init, ThreadInv, Types, Placed, Reading, OnItsWay, ShownKept, Visit

LEMMA DisplayShape ==
    ASSUME nodes \in Seq(Post), NEW p \in Post, Display(p)
    PROVE  nodes' \in Seq(Post) /\ Range(nodes') = Range(nodes) \cup {p}
<1>1. nodes' = Append(nodes, p)
  BY DEF Display
<1>2. /\ nodes' \in Seq(Post) /\ Len(nodes') = Len(nodes) + 1 /\ Len(nodes) \in Nat
      /\ \A i \in 1..Len(nodes) : nodes'[i] = nodes[i]
      /\ nodes'[Len(nodes) + 1] = p
  BY <1>1, AppendProperties
<1>3. DOMAIN nodes = 1..Len(nodes) /\ DOMAIN nodes' = 1..(Len(nodes) + 1)
  BY <1>2
<1>4. Range(nodes') \subseteq Range(nodes) \cup {p}
  BY <1>2, <1>3 DEF Range
<1>5. Range(nodes) \subseteq Range(nodes')
  BY <1>2, <1>3 DEF Range
<1>6. p \in Range(nodes')
  BY <1>2, <1>3 DEF Range
<1> QED BY <1>2, <1>4, <1>5, <1>6

\* Whether it is new or not, a post of the open thread is displayed once it has opened.
LEMMA AddShape ==
    ASSUME Types, NEW p \in Post, NEW k, AddReceived(p, k)
    PROVE  /\ nodes' \in Seq(Post) /\ Range(nodes) \subseteq Range(nodes')
           /\ For(p) = k /\ open = k => p \in Range(nodes')
<1>1. CASE IsNew(p, k)
  BY <1>1, DisplayShape DEF AddReceived, Types
<1>2. CASE ~IsNew(p, k)
  BY <1>2 DEF AddReceived, IsNew, Types
<1> QED BY <1>1, <1>2

\* A thread, once a post has one, stays.
LEMMA SameThread == ASSUME UNCHANGED wrote PROVE \A p : For(p)' = For(p)
  BY DEF For

LEMMA ShownHasThread ==
    ASSUME ThreadInv, NEW p \in shown
    PROVE  For(p) \in Thread
<1>1. p \in Post /\ For(p) # NoThread /\ wrote \in [Own -> Visit]
  BY DEF ThreadInv, Types, Placed
<1> QED BY <1>1, ThreadViewAssumption DEF For, Visit

LEMMA FiledTwice ==
    ASSUME disk \in [Thread -> SUBSET Post], \A t \in Thread : disk[t] \subseteq disk'[t],
           NEW p, For(p)' = For(p), Misfiled(p)
    PROVE  Misfiled(p)'
  BY DEF Misfiled

\* A save that is over was made or is lost.
LEMMA KeptOn ==
    ASSUME ShownKept, UNCHANGED shown, \A p \in shown : For(p)' = For(p),
           \A p \in shown : p \in disk[For(p)] => p \in disk'[For(p)],
           lost \subseteq lost',
           \A s \in saves \ saves' : s.post \in shown =>
              s.post \in disk'[For(s.post)] \cup lost'
    PROVE  ShownKept'
<1> SUFFICES ASSUME NEW p \in shown
             PROVE  p \in disk'[For(p)] \cup lost' \/ \E s \in saves' : s.post = p
  BY DEF ShownKept
<1>1. CASE p \in disk[For(p)] \cup lost
  BY <1>1
<1>2. CASE \E s \in saves : s.post = p
  BY <1>2
<1> QED BY <1>1, <1>2 DEF ShownKept

\* Leaving a thread forgets what was seen and read in it.
LEMMA ResetKeeps ==
    ASSUME ThreadInv, NEW t \in Visit, Reset(t),
           UNCHANGED <<disk, tasks, saves, replies, wrote, shown, lost>>,
           acts' \in Nat, loads' \subseteq Loads,
           \A l \in loads' : l.rest = {} \/ l \in loads
    PROVE  ThreadInv'
<1>1. \A p : For(p)' = For(p)
  BY SameThread
<1>2. /\ open' = t /\ nodes' = <<>> /\ seen' = {} /\ known' = {}
  BY DEF Reset
<1>3. Types'
  BY <1>2 DEF ThreadInv, Types
<1>4. Placed'
  BY <1>1, <1>2 DEF ThreadInv, Placed
<1>5. Reading'
  BY DEF ThreadInv, Reading
<1>6. OnItsWay'
  BY <1>2 DEF OnItsWay
<1>7. ShownKept'
  BY <1>1, KeptOn DEF ThreadInv
<1> QED BY <1>3, <1>4, <1>5, <1>6, <1>7 DEF ThreadInv

LEMMA ActivateKeeps ==
    ASSUME ThreadInv, NEW t \in Thread, Activate(t)
    PROVE  ThreadInv'
<1> DEFINE new == [n |-> acts', thread |-> t, at |-> "get", rest |-> {}]
<1>1. /\ acts' \in Nat /\ loads' = loads \cup {new} /\ new \in Loads
      /\ UNCHANGED <<disk, tasks, saves, replies, wrote, shown, lost>>
  BY DEF Activate, ThreadInv, Types, Loads, written
<1>2. new.rest = {} /\ new.at = "get" /\ loads' \subseteq Loads
  BY <1>1 DEF ThreadInv, Types
<1> HIDE DEF new
<1>3. CASE open # t
  BY <1>1, <1>2, <1>3, ResetKeeps DEF Activate, Visit
<1>4. CASE open = t
  <2>1. UNCHANGED view
    BY <1>4 DEF Activate
  <2>2. \A p : For(p)' = For(p)
    BY <1>1, SameThread
  <2>3. Types'
    BY <1>1, <1>2, <2>1 DEF ThreadInv, Types, view
  <2>4. Placed'
    BY <1>1, <2>1, <2>2 DEF ThreadInv, Placed, view
  <2>5. Reading'
    BY <1>1, <1>2 DEF ThreadInv, Reading
  <2>6. OnItsWay'
    BY <1>1, <2>1, <2>2 DEF ThreadInv, OnItsWay, Misfiled, view
  <2>7. ShownKept'
    BY <1>1, <2>2, KeptOn DEF ThreadInv
  <2> QED BY <2>3, <2>4, <2>5, <2>6, <2>7 DEF ThreadInv
<1> QED BY <1>3, <1>4

LEMMA HandlePacketKeeps ==
    ASSUME ThreadInv, NEW p \in Post, HandlePacket(p)
    PROVE  ThreadInv'
<1>1. /\ open \in Thread /\ For(p) # NoThread /\ seen' = seen \cup {p}
      /\ tasks' = tasks \cup {[post |-> p, key |-> open]}
      /\ UNCHANGED <<open, nodes, known, disk, acts, loads, saves, replies, wrote, shown,
                     lost>>
  BY DEF HandlePacket, ThreadInv, Types, Visit, written
<1>2. \A q : For(q)' = For(q)
  BY <1>1, SameThread
<1>3. Types'
  BY <1>1 DEF ThreadInv, Types, Tasks
<1>4. Placed'
  BY <1>1, <1>2 DEF ThreadInv, Placed
<1>5. Reading'
  BY <1>1 DEF ThreadInv, Reading
<1>6. OnItsWay'
  <2>1. \A q : Misfiled(q)' <=> Misfiled(q)
    BY <1>1, <1>2 DEF Misfiled
  <2>2. \E t \in tasks' : t.post = p /\ t.key = open
    <3> DEFINE new == [post |-> p, key |-> open]
    <3>1. new \in tasks' /\ new.post = p /\ new.key = open
      BY <1>1
    <3> HIDE DEF new
    <3> QED BY <3>1
  <2>3. tasks \subseteq tasks' /\ \A q \in seen' : q \in seen \/ q = p
    BY <1>1
  <2>4. seen \subseteq seen' /\ UNCHANGED <<open, nodes, known, loads>>
    BY <1>1
  <2>5. ASSUME NEW q \in Post, For(q) = open, ~Misfiled(q)
        PROVE  /\ q \in seen' => \/ q \in Range(nodes)
                                 \/ \E t \in tasks' : t.post = q /\ t.key = open
                                 \/ \E l \in loads : l.at = q /\ l.thread = open
               /\ q \in known => \/ q \in seen'
                                 \/ \E l \in loads : q \in l.rest /\ l.thread = open
    BY <1>1, <2>2, <2>3, <2>4, <2>5, ThreadViewAssumption DEF ThreadInv, OnItsWay
  <2> QED BY <1>2, <2>1, <2>4, <2>5 DEF OnItsWay
<1>7. ShownKept'
  BY <1>1, <1>2, KeptOn DEF ThreadInv
<1> QED BY <1>3, <1>4, <1>5, <1>6, <1>7 DEF ThreadInv

LEMMA PacketDecryptedKeeps ==
    ASSUME ThreadInv, NEW t \in tasks, PacketDecrypted(t)
    PROVE  ThreadInv'
<1>1. /\ tasks' = tasks \ {t} /\ AddReceived(t.post, t.key)
      /\ t.post \in Post /\ t.key \in Thread
      /\ UNCHANGED <<open, seen, known, disk, acts, loads, replies, wrote, lost>>
  BY DEF PacketDecrypted, ThreadInv, Types, Tasks, written
<1>2. \A q : For(q)' = For(q)
  BY <1>1, SameThread
<1>3. /\ nodes' \in Seq(Post) /\ Range(nodes) \subseteq Range(nodes')
      /\ For(t.post) = t.key /\ open = t.key => t.post \in Range(nodes')
  BY <1>1, AddShape DEF ThreadInv
<1>4. \/ saves' = saves /\ shown' = shown
      \/ /\ For(t.post) = t.key
         /\ saves' = saves \cup {[post |-> t.post, thread |-> t.key]}
         /\ shown' = shown \cup {t.post}
  <2>1. CASE IsNew(t.post, t.key)
    BY <2>1 DEF PacketDecrypted, IsNew
  <2>2. CASE ~IsNew(t.post, t.key)
    BY <2>2 DEF PacketDecrypted
  <2> QED BY <2>1, <2>2
<1>5. Types'
  BY <1>1, <1>3, <1>4 DEF ThreadInv, Types, Saves
<1>6. Placed'
  BY <1>1, <1>2, <1>4, ThreadViewAssumption DEF ThreadInv, Placed
<1>7. Reading'
  BY <1>1 DEF ThreadInv, Reading
<1>8. OnItsWay'
  <2>1. \A q : Misfiled(q)' <=> Misfiled(q)
    BY <1>1, <1>2 DEF Misfiled
  <2> QED BY <1>1, <1>2, <1>3, <2>1 DEF ThreadInv, OnItsWay
<1>9. ShownKept'
  <2>1. CASE saves' = saves /\ shown' = shown
    BY <1>1, <1>2, <2>1 DEF ThreadInv, ShownKept
  <2>2. CASE /\ saves' = saves \cup {[post |-> t.post, thread |-> t.key]}
             /\ shown' = shown \cup {t.post}
    <3> DEFINE new == [post |-> t.post, thread |-> t.key]
    <3>1. new \in saves' /\ new.post = t.post
      BY <2>2
    <3>2. saves \subseteq saves' /\ \A p \in shown' : p \in shown \/ p = t.post
      BY <2>2
    <3> HIDE DEF new
    <3> QED BY <1>1, <1>2, <3>1, <3>2 DEF ThreadInv, ShownKept
  <2> QED BY <1>4, <2>1, <2>2
<1> QED BY <1>5, <1>6, <1>7, <1>8, <1>9 DEF ThreadInv

\* A save, made or failed: what is shown stays kept.
LEMMA SavedKeeps ==
    ASSUME ThreadInv, NEW s \in saves, Saved(s) \/ SaveFails(s)
    PROVE  ThreadInv'
<1>1. /\ saves' = saves \ {s} /\ s \in Saves /\ s.thread = For(s.post)
      /\ UNCHANGED <<open, nodes, seen, known, acts, loads, tasks, replies, wrote, shown>>
  BY DEF Saved, SaveFails, ThreadInv, Types, Placed, view, written
<1>2. s.post \in Post /\ s.thread \in Thread
  BY <1>1 DEF Saves
<1>3. /\ disk' \in [Thread -> SUBSET Post] /\ lost \subseteq lost'
      /\ \A t \in Thread : disk[t] \subseteq disk'[t] /\ disk'[t] \subseteq disk[t] \cup {s.post}
      /\ s.post \in disk'[s.thread] \cup lost'
  BY <1>2 DEF Saved, SaveFails, ThreadInv, Types
<1>4. \A q : For(q)' = For(q)
  BY <1>1, SameThread
<1>5. For(s.post) # NoThread
  BY <1>1, <1>2, ThreadViewAssumption
<1>6. Types'
  BY <1>1, <1>3 DEF ThreadInv, Types
<1>7. Placed'
  BY <1>1, <1>3, <1>4, <1>5 DEF ThreadInv, Placed
<1>8. Reading'
  <2>1. \A l \in loads : l.thread \in Thread
    BY DEF ThreadInv, Types, Loads
  <2> QED BY <1>1, <1>3, <2>1 DEF ThreadInv, Reading
<1>9. OnItsWay'
  <2>1. \A q : Misfiled(q) => Misfiled(q)'
    BY <1>3, <1>4, FiledTwice DEF ThreadInv, Types
  <2> QED BY <1>1, <1>4, <2>1 DEF ThreadInv, OnItsWay
<1>10. ShownKept'
  <2>1. \A p \in shown : p \in disk[For(p)] => p \in disk'[For(p)]
    <3> SUFFICES ASSUME NEW p \in shown, p \in disk[For(p)]
                 PROVE  p \in disk'[For(p)]
      OBVIOUS
    <3>1. For(p) \in Thread
      BY ShownHasThread
    <3> QED BY <1>3, <3>1
  <2> QED BY <1>1, <1>3, <1>4, <2>1, KeptOn DEF ThreadInv
<1> QED BY <1>6, <1>7, <1>8, <1>9, <1>10 DEF ThreadInv

\* The steps of a load: l becomes m, and p is what it has marked as seen, if any.
LEMMA LoadKeeps ==
    ASSUME ThreadInv, NEW l \in loads, NEW m \in Loads,
           loads' = (loads \ {l}) \cup {m}, m.thread = l.thread,
           m.rest \subseteq disk[l.thread], m.at = "get" => m.rest = {},
           nodes' \in Seq(Post), Range(nodes) \subseteq Range(nodes'),
           NEW marked \in SUBSET l.rest, seen' = seen \cup marked,
           l.rest \ m.rest \subseteq marked,
           \A q \in marked : q \in seen \/ m.at = q,
           NEW read \in SUBSET disk[l.thread], known' = known \cup read,
           read # {} => l.thread = open /\ read \subseteq m.rest,
           l.at \in Post /\ l.thread = open /\ For(l.at) = open => l.at \in Range(nodes'),
           UNCHANGED <<open, disk, acts, tasks, saves, replies, wrote, shown, lost>>
    PROVE  ThreadInv'
<1>1. \A q : For(q)' = For(q)
  BY SameThread
<1>2. l \in Loads /\ l.thread \in Thread /\ l.rest \subseteq disk[l.thread]
      /\ disk[l.thread] \subseteq Post
  BY DEF ThreadInv, Types, Reading, Loads
<1>3. Types'
  BY <1>2 DEF ThreadInv, Types
<1>4. Placed'
  BY <1>1, <1>2 DEF ThreadInv, Placed
<1>5. Reading'
  BY DEF ThreadInv, Reading
<1>6. OnItsWay'
  <2>1. \A q : Misfiled(q)' <=> Misfiled(q)
    BY <1>1 DEF Misfiled
  <2> SUFFICES ASSUME NEW q \in Post, For(q) = open, open # NoThread, ~Misfiled(q)
               PROVE  /\ q \in seen' =>
                           \/ q \in Range(nodes')
                           \/ \E t \in tasks : t.post = q /\ t.key = open
                           \/ \E x \in loads' : x.at = q /\ x.thread = open
                      /\ q \in known' =>
                           q \in seen' \/ \E x \in loads' : q \in x.rest /\ x.thread = open
    BY <1>1, <2>1 DEF OnItsWay
  <2>2. q \in l.rest => l.thread = open
    BY <1>2 DEF Misfiled
  <2>3. ASSUME q \in seen
        PROVE  \/ q \in Range(nodes')
               \/ \E t \in tasks : t.post = q /\ t.key = open
               \/ \E x \in loads' : x.at = q /\ x.thread = open
    <3>1. CASE q \in Range(nodes) \/ \E t \in tasks : t.post = q /\ t.key = open
      BY <3>1
    <3>2. CASE \E x \in loads : x.at = q /\ x.thread = open
      <4>1. PICK x \in loads : x.at = q /\ x.thread = open
        BY <3>2
      <4>2. CASE x = l
        BY <4>1, <4>2
      <4>3. CASE x # l
        BY <4>1, <4>3
      <4> QED BY <4>2, <4>3
    <3> QED BY <2>3, <3>1, <3>2 DEF ThreadInv, OnItsWay
  <2>4. ASSUME q \in seen', q \notin seen
        PROVE  \E x \in loads' : x.at = q /\ x.thread = open
    <3>1. q \in marked /\ m.at = q /\ l.thread = open
      BY <2>2, <2>4
    <3> QED BY <3>1
  <2>5. ASSUME q \in known'
        PROVE  q \in seen' \/ \E x \in loads' : q \in x.rest /\ x.thread = open
    <3>1. CASE q \in read
      BY <3>1
    <3>2. CASE q \in known
      <4>1. CASE q \in seen
        BY <4>1
      <4>2. CASE \E x \in loads : q \in x.rest /\ x.thread = open
        <5>1. PICK x \in loads : q \in x.rest /\ x.thread = open
          BY <4>2
        <5>2. CASE x = l
          BY <5>1, <5>2
        <5>3. CASE x # l
          BY <5>1, <5>3
        <5> QED BY <5>2, <5>3
      <4> QED BY <3>2, <4>1, <4>2 DEF ThreadInv, OnItsWay
    <3> QED BY <2>5, <3>1, <3>2
  <2> QED BY <2>3, <2>4, <2>5
<1>7. ShownKept'
  BY <1>1, KeptOn DEF ThreadInv
<1> QED BY <1>3, <1>4, <1>5, <1>6, <1>7 DEF ThreadInv

LEMMA LoadStepKeeps ==
    ASSUME ThreadInv, NEW l \in loads,
           LoadRead(l) \/ LoadDecrypted(l) \/ \E p \in Post : LoadNext(l, p)
    PROVE  ThreadInv'
<1>1. /\ l \in Loads /\ l.n \in Nat /\ l.thread \in Thread /\ disk[l.thread] \subseteq Post
      /\ l.rest \subseteq disk[l.thread] /\ (l.at = "get" => l.rest = {})
      /\ nodes \in Seq(Post)
  BY DEF ThreadInv, Types, Reading, Loads
<1> DEFINE to(at, rest) == [n |-> l.n, thread |-> l.thread, at |-> at, rest |-> rest]
<1>2. \A at \in Post \cup {"get", "loop"} : \A rest : rest \subseteq disk[l.thread] =>
        /\ to(at, rest) \in Loads /\ to(at, rest).thread = l.thread
        /\ to(at, rest).at = at /\ to(at, rest).rest = rest
  BY <1>1 DEF Loads
<1>3. \A at, rest : Move(l, at, rest) => loads' = (loads \ {l}) \cup {to(at, rest)}
  BY DEF Move
<1> HIDE DEF to
<1>4. CASE LoadRead(l)
  <2>1. /\ l.at = "get" /\ l.rest = {}
        /\ UNCHANGED <<open, nodes, seen, disk, acts, tasks, saves, replies, wrote, shown,
                       lost>>
    BY <1>1, <1>4 DEF LoadRead, written
  <2>2. l.at \notin Post
    BY <2>1, ThreadViewAssumption
  <2>3. CASE /\ Move(l, "loop", disk[l.thread])
             /\ known' = IF l.thread = open THEN known \cup disk[open] ELSE known
    <3> DEFINE m == to("loop", disk[l.thread])
               read == IF l.thread = open THEN disk[l.thread] ELSE {}
    <3>1. /\ m \in Loads /\ m.thread = l.thread /\ m.at = "loop" /\ m.rest = disk[l.thread]
          /\ loads' = (loads \ {l}) \cup {m} /\ known' = known \cup read
          /\ read \in SUBSET disk[l.thread] /\ read \subseteq m.rest
          /\ read # {} => l.thread = open
      BY <1>2, <1>3, <2>3
    <3>2. {} \in SUBSET l.rest /\ seen' = seen \cup {} /\ l.rest \ m.rest \subseteq {}
          /\ \A q \in {} : q \in seen \/ m.at = q
      BY <2>1
    <3> HIDE DEF m, read
    <3> QED BY <1>1, <2>1, <2>2, <3>1, <3>2, LoadKeeps
  <2>4. CASE Move(l, "loop", {}) /\ known' = known
    <3> DEFINE m == to("loop", {})
    <3>1. /\ m \in Loads /\ m.thread = l.thread /\ m.at = "loop" /\ m.rest = {}
          /\ loads' = (loads \ {l}) \cup {m} /\ known' = known \cup {}
          /\ {} \in SUBSET disk[l.thread]
      BY <1>2, <1>3, <2>4
    <3>2. {} \in SUBSET l.rest /\ seen' = seen \cup {} /\ l.rest \ m.rest \subseteq {}
          /\ \A q \in {} : q \in seen \/ m.at = q
      BY <2>1
    <3> HIDE DEF m
    <3> QED BY <1>1, <2>1, <2>2, <3>1, <3>2, LoadKeeps
  <2> QED BY <1>4, <2>3, <2>4 DEF LoadRead
<1>5. CASE LoadDecrypted(l)
  <2>1. /\ l.at \in Post /\ Move(l, "loop", l.rest) /\ AddReceived(l.at, l.thread)
        /\ UNCHANGED <<open, seen, known, disk, acts, tasks, saves, replies, wrote, shown,
                       lost>>
    BY <1>5 DEF LoadDecrypted, written
  <2>2. /\ nodes' \in Seq(Post) /\ Range(nodes) \subseteq Range(nodes')
        /\ For(l.at) = l.thread /\ open = l.thread => l.at \in Range(nodes')
    BY <2>1, AddShape DEF ThreadInv
  <2> DEFINE m == to("loop", l.rest)
  <2>3. /\ m \in Loads /\ m.thread = l.thread /\ m.at = "loop" /\ m.rest = l.rest
        /\ loads' = (loads \ {l}) \cup {m}
    <3> DEFINE left == l.rest
    <3>1. left \subseteq disk[l.thread] /\ Move(l, "loop", left)
      BY <1>1, <2>1
    <3> HIDE DEF left
    <3>2. /\ to("loop", left) \in Loads /\ to("loop", left).thread = l.thread
          /\ to("loop", left).at = "loop" /\ to("loop", left).rest = left
      BY <1>2, <3>1
    <3>3. loads' = (loads \ {l}) \cup {to("loop", left)}
      BY <1>3, <3>1
    <3> QED BY <3>2, <3>3 DEF left
  <2> HIDE DEF m
  <2>4. /\ known' = known \cup {} /\ {} \in SUBSET disk[l.thread]
        /\ {} \in SUBSET l.rest /\ seen' = seen \cup {}
        /\ l.rest \ m.rest \subseteq {} /\ \A q \in {} : q \in seen \/ m.at = q
    BY <2>1, <2>3
  <2> QED BY <1>1, <2>1, <2>2, <2>3, <2>4, LoadKeeps
<1>6. ASSUME NEW p \in Post, LoadNext(l, p) PROVE ThreadInv'
  <2>1. /\ l.at = "loop" /\ p \in l.rest /\ seen' = seen \cup {p}
        /\ UNCHANGED <<open, nodes, known, disk, acts, tasks, saves, replies, wrote, shown,
                       lost>>
    BY <1>6 DEF LoadNext, written
  <2>2. l.at \notin Post
    BY <2>1, ThreadViewAssumption
  <2> DEFINE at == IF p \in seen THEN "loop" ELSE p
             m  == to(at, l.rest \ {p})
  <2>3. loads' = (loads \ {l}) \cup {m}
    BY <1>3, <1>6 DEF LoadNext
  <2>4. at \in Post \cup {"get", "loop"} /\ at # "get" /\ (p \in seen \/ at = p)
    BY ThreadViewAssumption
  <2>5. /\ m \in Loads /\ m.thread = l.thread /\ m.at = at /\ m.rest = l.rest \ {p}
    <3> DEFINE left == l.rest \ {p}
    <3>1. left \subseteq disk[l.thread]
      BY <1>1
    <3> HIDE DEF at, left
    <3>2. /\ to(at, left) \in Loads /\ to(at, left).thread = l.thread
          /\ to(at, left).at = at /\ to(at, left).rest = left
      BY <1>2, <2>4, <3>1
    <3> QED BY <3>2 DEF left
  <2>6. /\ known' = known \cup {} /\ {} \in SUBSET disk[l.thread]
        /\ {p} \in SUBSET l.rest /\ l.rest \ m.rest \subseteq {p}
        /\ m.rest \subseteq disk[l.thread] /\ m.at # "get"
        /\ \A q \in {p} : q \in seen \/ m.at = q
    <3> HIDE DEF m, at
    <3>1. {p} \subseteq l.rest /\ l.rest \ m.rest \subseteq {p} /\ m.rest \subseteq l.rest
      BY <2>1, <2>5
    <3>2. m.at # "get" /\ (p \in seen \/ m.at = p)
      BY <2>4, <2>5
    <3> QED BY <1>1, <2>1, <3>1, <3>2
  <2> HIDE DEF m, at
  <2> QED BY <1>1, <2>1, <2>2, <2>3, <2>5, <2>6, LoadKeeps
<1> QED BY <1>4, <1>5, <1>6

LEMMA LoadDoneKeeps ==
    ASSUME ThreadInv, NEW l \in loads, LoadDone(l)
    PROVE  ThreadInv'
<1>1. /\ l.at = "loop" /\ l.rest = {} /\ loads' = loads \ {l}
      /\ UNCHANGED <<open, nodes, seen, known, disk, acts, tasks, saves, replies, wrote, shown,
                     lost>>
  BY DEF LoadDone, view, written
<1>2. \A q : For(q)' = For(q)
  BY <1>1, SameThread
<1>3. Types'
  BY <1>1 DEF ThreadInv, Types
<1>4. Placed' /\ Reading'
  BY <1>1, <1>2 DEF ThreadInv, Placed, Reading
<1>5. OnItsWay'
  <2>1. \A q : Misfiled(q)' <=> Misfiled(q)
    BY <1>1, <1>2 DEF Misfiled
  <2>2. \A q \in Post : l.at # q
    BY <1>1, ThreadViewAssumption
  <2>3. ASSUME NEW q \in Post, NEW x \in loads, x.at = q \/ q \in x.rest
        PROVE  x \in loads'
    <3>1. x # l
      BY <1>1, <2>2, <2>3
    <3> QED BY <1>1, <3>1
  <2> SUFFICES ASSUME NEW q \in Post, For(q) = open, open # NoThread, ~Misfiled(q)
               PROVE  /\ q \in seen => \/ q \in Range(nodes)
                                       \/ \E t \in tasks : t.post = q /\ t.key = open
                                       \/ \E x \in loads' : x.at = q /\ x.thread = open
                      /\ q \in known => \/ q \in seen
                                        \/ \E x \in loads' : q \in x.rest /\ x.thread = open
    BY <1>1, <1>2, <2>1 DEF OnItsWay
  <2>4. /\ \A x \in loads : x.at = q => x \in loads'
        /\ \A x \in loads : q \in x.rest => x \in loads'
    BY <2>3
  <2>5. /\ q \in seen => \/ q \in Range(nodes)
                         \/ \E t \in tasks : t.post = q /\ t.key = open
                         \/ \E x \in loads : x.at = q /\ x.thread = open
        /\ q \in known => q \in seen \/ \E x \in loads : q \in x.rest /\ x.thread = open
    BY DEF ThreadInv, OnItsWay
  <2>6. (\E x \in loads : x.at = q /\ x.thread = open)
           => \E x \in loads' : x.at = q /\ x.thread = open
    BY <2>4, Zenon
  <2>7. (\E x \in loads : q \in x.rest /\ x.thread = open)
           => \E x \in loads' : q \in x.rest /\ x.thread = open
    BY <2>4, Zenon
  <2>8. q \in seen => \/ q \in Range(nodes)
                      \/ \E t \in tasks : t.post = q /\ t.key = open
                      \/ \E x \in loads' : x.at = q /\ x.thread = open
    BY <2>5, <2>6
  <2>9. q \in known => q \in seen \/ \E x \in loads' : q \in x.rest /\ x.thread = open
    BY <2>5, <2>7
  <2> QED BY <2>8, <2>9
<1>6. ShownKept'
  BY <1>1, <1>2, KeptOn DEF ThreadInv
<1> QED BY <1>3, <1>4, <1>5, <1>6 DEF ThreadInv

\* A reply that is begun was in no thread, and so was nowhere.
LEMMA SubmitReplyKeeps ==
    ASSUME ThreadInv, NEW p \in Post, SubmitReply(p)
    PROVE  ThreadInv'
<1>1. /\ p \in Own /\ wrote[p] = NoThread /\ open \in Thread
      /\ wrote' = [wrote EXCEPT ![p] = open]
      /\ replies' = replies \cup {[post |-> p, at |-> "build", thread |-> open]}
      /\ UNCHANGED <<open, nodes, seen, known, disk, acts, loads, tasks, saves, shown, lost>>
  BY DEF SubmitReply, view, ThreadInv, Types, Visit
<1>2. wrote \in [Own -> Visit] /\ NoThread \notin Thread
  BY ThreadViewAssumption DEF ThreadInv, Types
<1>3. For(p) = NoThread /\ For(p)' = open /\ \A q : q # p => For(q)' = For(q)
  BY <1>1, <1>2 DEF For
<1>4. p \notin seen \cup known \cup shown
  BY <1>3 DEF ThreadInv, Placed
<1>5. Types'
  BY <1>1, <1>2 DEF ThreadInv, Types, Works, Visit
<1>6. Placed'
  <2>1. \A q \in seen \cup known \cup shown : For(q)' # NoThread
    BY <1>3, <1>4 DEF ThreadInv, Placed
  <2>2. \A t \in Thread : \A q \in disk[t] : For(q)' # NoThread
    BY <1>1, <1>2, <1>3 DEF ThreadInv, Placed
  <2>3. \A r \in replies' : For(r.post)' # NoThread
    BY <1>1, <1>2, <1>3 DEF ThreadInv, Placed
  <2>4. \A s \in saves : s.thread = For(s.post)'
    <3> SUFFICES ASSUME NEW s \in saves PROVE s.thread = For(s.post)'
      OBVIOUS
    <3>1. s.thread \in Thread /\ s.thread = For(s.post)
      BY DEF ThreadInv, Types, Placed, Saves
    <3> QED BY <1>2, <1>3, <3>1
  <2> QED BY <1>1, <2>1, <2>2, <2>3, <2>4 DEF Placed
<1>7. Reading'
  BY <1>1 DEF ThreadInv, Reading
<1>8. OnItsWay'
  <2>1. \A q : q # p => (Misfiled(q)' <=> Misfiled(q))
    BY <1>1, <1>3 DEF Misfiled
  <2> QED BY <1>1, <1>3, <1>4, <2>1 DEF ThreadInv, OnItsWay
<1>9. ShownKept'
  BY <1>1, <1>3, <1>4, KeptOn DEF ThreadInv
<1> QED BY <1>5, <1>6, <1>7, <1>8, <1>9 DEF ThreadInv

\* A reply leaves its build: displayed where the user is, or given up.
LEMMA ReplyBuiltKeeps ==
    ASSUME ThreadInv, NEW r \in replies, ReplyBuilt(r) \/ BuildFails(r)
    PROVE  ThreadInv'
<1>1. /\ r \in Works /\ r.post \in Own /\ r.post \in Post /\ For(r.post) # NoThread
      /\ UNCHANGED <<open, known, disk, acts, loads, tasks, saves, wrote, shown, lost>>
  BY ThreadViewAssumption
  DEF ReplyBuilt, BuildFails, ThreadInv, Types, Placed, Works, view, written
<1>2. \A q : For(q)' = For(q)
  BY <1>1, SameThread
<1>3. CASE replies' = replies \ {r} /\ UNCHANGED <<nodes, seen>>
  <2>1. Types'
    BY <1>1, <1>3 DEF ThreadInv, Types
  <2>2. Placed' /\ Reading'
    BY <1>1, <1>2, <1>3 DEF ThreadInv, Placed, Reading
  <2>3. OnItsWay'
    BY <1>1, <1>2, <1>3 DEF ThreadInv, OnItsWay, Misfiled
  <2>4. ShownKept'
    BY <1>1, <1>2, KeptOn DEF ThreadInv
  <2> QED BY <2>1, <2>2, <2>3, <2>4 DEF ThreadInv
<1>4. CASE /\ open # NoThread /\ Display(r.post) /\ seen' = seen \cup {r.post}
           /\ replies' = (replies \ {r})
                           \cup {[post |-> r.post, at |-> "save", thread |-> open]}
  <2>1. nodes' \in Seq(Post) /\ Range(nodes') = Range(nodes) \cup {r.post} /\ open \in Thread
    BY <1>1, <1>4, DisplayShape DEF ThreadInv, Types, Visit
  <2>2. Types'
    BY <1>1, <1>4, <2>1 DEF ThreadInv, Types, Works
  <2>3. Placed'
    BY <1>1, <1>2, <1>4 DEF ThreadInv, Placed
  <2>4. Reading'
    BY <1>1 DEF ThreadInv, Reading
  <2>5. OnItsWay'
    <3>1. \A q : Misfiled(q)' <=> Misfiled(q)
      BY <1>1, <1>2 DEF Misfiled
    <3> QED BY <1>1, <1>2, <1>4, <2>1, <3>1 DEF ThreadInv, OnItsWay
  <2>6. ShownKept'
    BY <1>1, <1>2, KeptOn DEF ThreadInv
  <2> QED BY <2>2, <2>3, <2>4, <2>5, <2>6 DEF ThreadInv
<1> QED BY <1>3, <1>4 DEF ReplyBuilt, BuildFails, view

LEMMA ReplySavedKeeps ==
    ASSUME ThreadInv, NEW r \in replies, ReplySaved(r)
    PROVE  ThreadInv'
<1>1. /\ r.post \in Post /\ r.thread \in Thread /\ For(r.post) # NoThread
      /\ replies' = replies \ {r}
      /\ UNCHANGED <<open, nodes, seen, known, acts, loads, tasks, saves, wrote, shown>>
  BY ThreadViewAssumption DEF ReplySaved, ThreadInv, Types, Placed, Works, view
<1>2. /\ disk' \in [Thread -> SUBSET Post] /\ lost \subseteq lost'
      /\ \A t \in Thread : disk[t] \subseteq disk'[t] /\ disk'[t] \subseteq disk[t] \cup {r.post}
  BY <1>1 DEF ReplySaved, ThreadInv, Types
<1>3. \A q : For(q)' = For(q)
  BY <1>1, SameThread
<1>4. Types'
  BY <1>1, <1>2 DEF ThreadInv, Types
<1>5. Placed'
  BY <1>1, <1>2, <1>3 DEF ThreadInv, Placed
<1>6. Reading'
  <2>1. \A l \in loads : l.thread \in Thread
    BY DEF ThreadInv, Types, Loads
  <2> QED BY <1>1, <1>2, <2>1 DEF ThreadInv, Reading
<1>7. OnItsWay'
  <2>1. \A q : Misfiled(q) => Misfiled(q)'
    BY <1>2, <1>3, FiledTwice DEF ThreadInv, Types
  <2> QED BY <1>1, <1>3, <2>1 DEF ThreadInv, OnItsWay
<1>8. ShownKept'
  <2>1. \A p \in shown : p \in disk[For(p)] => p \in disk'[For(p)]
    <3> SUFFICES ASSUME NEW p \in shown, p \in disk[For(p)]
                 PROVE  p \in disk'[For(p)]
      OBVIOUS
    <3>1. For(p) \in Thread
      BY ShownHasThread
    <3> QED BY <1>2, <3>1
  <2> QED BY <1>1, <1>2, <1>3, <2>1, KeptOn DEF ThreadInv
<1> QED BY <1>4, <1>5, <1>6, <1>7, <1>8 DEF ThreadInv

LEMMA ClearKeeps ==
    ASSUME ThreadInv, Clear
    PROVE  ThreadInv'
<1>1. /\ NoThread \in Visit /\ Reset(NoThread)
      /\ UNCHANGED <<disk, acts, loads, tasks, saves, replies, wrote, shown, lost>>
  BY DEF Clear, Visit, written
<1>2. acts' \in Nat /\ loads' \subseteq Loads /\ \A l \in loads' : l.rest = {} \/ l \in loads
  BY <1>1 DEF ThreadInv, Types
<1> QED BY <1>1, <1>2, ResetKeeps

LEMMA StutterKeeps ==
    ASSUME ThreadInv, UNCHANGED vars
    PROVE  ThreadInv'
<1>1. UNCHANGED <<open, nodes, seen, known, disk, acts, loads, tasks, saves, replies, wrote,
                  shown, lost>>
  BY DEF vars, view, written
<1>2. \A q : For(q)' = For(q)
  BY <1>1, SameThread
<1>3. Types' /\ Placed' /\ Reading'
  BY <1>1, <1>2 DEF ThreadInv, Types, Placed, Reading
<1>4. OnItsWay'
  BY <1>1, <1>2 DEF ThreadInv, OnItsWay, Misfiled
<1>5. ShownKept'
  BY <1>1, <1>2, KeptOn DEF ThreadInv
<1> QED BY <1>3, <1>4, <1>5 DEF ThreadInv

LEMMA ThreadInvNext == ThreadInv /\ [Next]_vars => ThreadInv'
<1> SUFFICES ASSUME ThreadInv, [Next]_vars PROVE ThreadInv'
  OBVIOUS
<1>1. ASSUME NEW t \in Thread, Activate(t) PROVE ThreadInv'
  BY <1>1, ActivateKeeps
<1>2. CASE Clear
  BY <1>2, ClearKeeps
<1>3. ASSUME NEW l \in loads,
             LoadRead(l) \/ LoadDecrypted(l) \/ \E p \in Post : LoadNext(l, p)
      PROVE  ThreadInv'
  BY <1>3, LoadStepKeeps
<1>4. ASSUME NEW l \in loads, LoadDone(l) PROVE ThreadInv'
  BY <1>4, LoadDoneKeeps
<1>5. ASSUME NEW p \in Post, OnGossipPacket(p) \/ OnHintBody(p) PROVE ThreadInv'
  BY <1>5, HandlePacketKeeps DEF OnGossipPacket, OnHintBody
<1>6. ASSUME NEW p \in Post, SubmitReply(p) PROVE ThreadInv'
  BY <1>6, SubmitReplyKeeps
<1>7. ASSUME NEW t \in tasks, PacketDecrypted(t) PROVE ThreadInv'
  BY <1>7, PacketDecryptedKeeps
<1>8. ASSUME NEW s \in saves, Saved(s) \/ SaveFails(s) PROVE ThreadInv'
  BY <1>8, SavedKeeps
<1>9. ASSUME NEW r \in replies, ReplyBuilt(r) \/ BuildFails(r) PROVE ThreadInv'
  BY <1>9, ReplyBuiltKeeps
<1>10. ASSUME NEW r \in replies, ReplySaved(r) PROVE ThreadInv'
  BY <1>10, ReplySavedKeeps
<1>11. CASE UNCHANGED vars
  BY <1>11, StutterKeeps
<1> QED BY <1>1, <1>2, <1>3, <1>4, <1>5, <1>6, <1>7, <1>8, <1>9, <1>10, <1>11 DEF Next

\* A received post that was displayed is on disk under its own thread or about to be,
\* whatever the user opens meanwhile, unless its save failed.
THEOREM ShownIsKept == Spec => []ShownKept
<1>1. ThreadInv => ShownKept
  BY DEF ThreadInv
<1> QED BY <1>1, ThreadInvInit, ThreadInvNext, PTL DEF Spec

\* Once no load and no packet is under way, what was read from disk for the open thread is
\* displayed, unless it is on disk under another thread as well.
THEOREM ReadIsShown == Spec => []DiskShown
<1>1. ThreadInv => DiskShown
  <2> SUFFICES ASSUME ThreadInv, loads = {}, tasks = {},
                      NEW p \in known, For(p) = open, ~Misfiled(p)
               PROVE  p \in Range(nodes)
    BY DEF DiskShown
  <2>1. p \in Post /\ For(p) # NoThread
    BY DEF ThreadInv, Types, Placed
  <2> QED BY <2>1 DEF ThreadInv, OnItsWay
<1> QED BY <1>1, ThreadInvInit, ThreadInvNext, PTL DEF Spec

-----------------------------------------------------------------------------
(* The order of the posts *)

\* Counting up to n.
LEMMA UpTo ==
    ASSUME NEW T, NEW n \in Nat, 0 \in T, \A i \in 0..(n - 1) : i \in T => i + 1 \in T
    PROVE  \A i \in 0..n : i \in T
<1> DEFINE U == {i \in 0..n : i \notin T}
<1>1. SUFFICES ASSUME U # {} PROVE FALSE
  OBVIOUS
<1>2. U \subseteq Nat
  OBVIOUS
<1>3. \E x \in U : \A y \in U : ~(<<y, x>> \in OpToRel(<, Nat))
  BY <1>1, <1>2, NatLessThanWellFounded, WFMin
<1>4. PICK x \in U : \A y \in U : ~(y < x)
  BY <1>2, <1>3 DEF OpToRel
<1>5. x \in 1..n /\ x - 1 \in 0..(n - 1) /\ (x - 1) + 1 = x
  OBVIOUS
<1>6. x - 1 \notin U
  BY <1>4, <1>5
<1> QED BY <1>5, <1>6

\* A post precedes another when fewer precede it.
LEMMA LowerGrows ==
    ASSUME NEW S \in SUBSET Post, IsFiniteSet(S), NEW p \in S, NEW r \in S
    PROVE  /\ Cardinality(Lower(S, p)) \in 0..(Cardinality(S) - 1)
           /\ Rank[p] < Rank[r] => Cardinality(Lower(S, p)) < Cardinality(Lower(S, r))
<1> DEFINE L == Lower(S, p)
           M == Lower(S, r)
<1>0. Rank[p] \in Nat /\ Rank[r] \in Nat /\ \A q \in S : Rank[q] \in Nat
  BY ThreadViewAssumption
<1>1. L \subseteq S \ {p} /\ M \subseteq S /\ p \notin L
  BY <1>0 DEF Lower
<1>2. Rank[p] < Rank[r] => L \cup {p} \subseteq M
  BY <1>0 DEF Lower
<1> HIDE DEF L, M
<1>3. IsFiniteSet(S \ {p}) /\ Cardinality(S \ {p}) = Cardinality(S) - 1
  BY FS_RemoveElement
<1>4. IsFiniteSet(L) /\ Cardinality(L) <= Cardinality(S \ {p}) /\ IsFiniteSet(M)
  BY <1>1, <1>3, FS_Subset
<1>5. Cardinality(L) \in Nat /\ Cardinality(M) \in Nat /\ Cardinality(S) \in Nat
  BY <1>4, FS_CardinalityType
<1>6. Cardinality(L \cup {p}) = Cardinality(L) + 1
  BY <1>1, <1>4, FS_AddElement
<1>7. Rank[p] < Rank[r] => Cardinality(L \cup {p}) <= Cardinality(M)
  BY <1>2, <1>4, FS_Subset
<1>8. Rank[p] < Rank[r] => Cardinality(L) < Cardinality(M)
  BY <1>5, <1>6, <1>7
<1>9. Cardinality(L) \in 0..(Cardinality(S) - 1)
  BY <1>3, <1>4, <1>5
<1> QED BY <1>8, <1>9 DEF L, M

\* Sorted() gives each post of a set its place.
LEMMA SortedPosts ==
    ASSUME NEW S \in SUBSET Post, IsFiniteSet(S)
    PROVE  /\ Sorted(S) \in Seq(S) /\ Len(Sorted(S)) = Cardinality(S) /\ Cardinality(S) \in Nat
           /\ Range(Sorted(S)) = S
           /\ \A i, j \in 1..Cardinality(S) : i < j => Rank[Sorted(S)[i]] < Rank[Sorted(S)[j]]
<1> DEFINE n == Cardinality(S)
           s == Sorted(S)
           g == [p \in S |-> Cardinality(Lower(S, p))]
<1>0. n \in Nat
  BY FS_CardinalityType
<1>1. \A p \in S : g[p] \in 0..(n - 1) /\ Rank[p] \in Nat
  BY LowerGrows, ThreadViewAssumption
<1>2. \A p, r \in S : Rank[p] < Rank[r] => g[p] < g[r]
  BY LowerGrows
<1>3. \A p, r \in S : Rank[p] = Rank[r] => p = r
  BY ThreadViewAssumption
<1>4. s = [i \in 1..n |-> CHOOSE p \in S : Cardinality(Lower(S, p)) = i - 1]
  BY DEF Sorted
<1>5. g \in [S -> 0..(n - 1)]
  BY <1>1
<1> HIDE DEF g, s
<1>6. \A p, r \in S : g[p] = g[r] => p = r
  <2> SUFFICES ASSUME NEW p \in S, NEW r \in S, g[p] = g[r] PROVE p = r
    OBVIOUS
  <2>1. ~(Rank[p] < Rank[r]) /\ ~(Rank[r] < Rank[p])
    <3>1. g[p] \in Int /\ g[r] \in Int
      BY <1>1
    <3> QED BY <1>2, <3>1
  <2>2. Rank[p] = Rank[r]
    BY <1>1, <2>1
  <2> QED BY <1>3, <2>2
<1>7. g \in Injection(S, 0..(n - 1))
  BY <1>5, <1>6 DEF Injection, IsInjective
<1>8. IsFiniteSet(0..(n - 1)) /\ Cardinality(0..(n - 1)) = n
  <2> HIDE DEF n
  <2>1. 0 \in Int /\ n - 1 \in Int
    BY <1>0
  <2>2. IsFiniteSet(0..(n - 1)) /\ Cardinality(0..(n - 1)) = IF 0 > n - 1 THEN 0 ELSE (n - 1) - 0 + 1
    BY <2>1, FS_Interval
  <2> QED BY <1>0, <2>2
<1>9. g \in Surjection(S, 0..(n - 1))
  BY <1>7, <1>8, FS_Injection
<1> HIDE DEF n
<1>10. ASSUME NEW i \in 1..n PROVE s[i] \in S /\ g[s[i]] = i - 1
  <2>1. i - 1 \in 0..(n - 1)
    BY <1>0
  <2>2. PICK p \in S : g[p] = i - 1
    BY <1>9, <2>1 DEF Surjection
  <2>3. Cardinality(Lower(S, p)) = i - 1
    BY <2>2 DEF g
  <2>4. s[i] = CHOOSE r \in S : Cardinality(Lower(S, r)) = i - 1
    BY <1>4
  <2>5. s[i] \in S /\ Cardinality(Lower(S, s[i])) = i - 1
    BY <2>3, <2>4
  <2> QED BY <2>5 DEF g
<1>11. s \in [1..n -> S]
  BY <1>4, <1>10
<1>12. s \in Seq(S) /\ Len(s) = n
  BY <1>0, <1>11
<1>13. \A i, j \in 1..n : i < j => Rank[s[i]] < Rank[s[j]]
  <2> SUFFICES ASSUME NEW i \in 1..n, NEW j \in 1..n, i < j PROVE Rank[s[i]] < Rank[s[j]]
    OBVIOUS
  <2>1. s[i] \in S /\ s[j] \in S /\ g[s[i]] < g[s[j]]
    BY <1>0, <1>10
  <2>2. g[s[i]] \in Int /\ g[s[j]] \in Int
    BY <1>1, <2>1
  <2>3. ~(Rank[s[j]] < Rank[s[i]]) /\ Rank[s[i]] # Rank[s[j]]
    BY <1>2, <1>3, <2>1, <2>2
  <2> QED BY <1>1, <2>1, <2>3
<1>14. Range(s) = S
  <2>1. Range(s) \subseteq S
    BY <1>11 DEF Range
  <2>2. ASSUME NEW p \in S PROVE p \in Range(s)
    <3>1. g[p] + 1 \in 1..n /\ (g[p] + 1) - 1 = g[p]
      BY <1>0, <1>1
    <3>2. s[g[p] + 1] = p
      BY <1>6, <1>10, <3>1
    <3> QED BY <1>11, <3>1, <3>2 DEF Range
  <2> QED BY <2>1, <2>2
<1> QED BY <1>0, <1>12, <1>13, <1>14 DEF s, n

\* The head of a queue is the earliest of its posts, and the others stay.
LEMMA QueueHead ==
    ASSUME NEW S \in SUBSET Post, IsFiniteSet(S), S # {}
    PROVE  LET s == Sorted(S)
           IN  /\ s # <<>> /\ Head(s) \in S /\ Range(Tail(s)) = S \ {Head(s)}
               /\ \A q \in S \ {Head(s)} : Rank[Head(s)] < Rank[q]
<1> DEFINE s == Sorted(S)
           n == Cardinality(S)
           t == Tail(s)
<1>1. /\ s \in Seq(S) /\ Len(s) = n /\ n \in Nat /\ Range(s) = S
      /\ \A i, j \in 1..n : i < j => Rank[s[i]] < Rank[s[j]]
  BY SortedPosts
<1> HIDE DEF s, n
<1>2. s # <<>>
  BY <1>1 DEF Range
<1>3. /\ t \in Seq(S) /\ Len(t) = n - 1 /\ \A i \in 1..Len(t) : t[i] = s[i + 1]
  BY <1>1, <1>2, HeadTailProperties
<1>4. Head(s) = s[1]
  BY <1>1, <1>2
<1> HIDE DEF t
<1>5. n # 0 /\ DOMAIN s = 1..n /\ DOMAIN t = 1..(n - 1)
  BY <1>1, <1>2, <1>3, EmptySeq, LenProperties
<1>6. 1 \in 1..n /\ \A i \in 1..n : i = 1 \/ (1 < i /\ i - 1 \in 1..(n - 1) /\ (i - 1) + 1 = i)
  BY <1>1, <1>5
<1>7. \A i \in 1..(n - 1) : i + 1 \in 1..n /\ 1 < i + 1
  BY <1>1
<1>8. \A i \in 1..n : s[i] \in S /\ Rank[s[i]] \in Nat
  <2>1. \A i \in 1..n : s[i] \in S
    BY <1>1, <1>5 DEF Range
  <2> QED BY <2>1, ThreadViewAssumption
<1>9. \A q \in S : \E i \in 1..n : s[i] = q
  BY <1>1, <1>5 DEF Range
<1>10. \A q \in S \ {s[1]} : Rank[s[1]] < Rank[q]
  <2> SUFFICES ASSUME NEW q \in S \ {s[1]} PROVE Rank[s[1]] < Rank[q]
    OBVIOUS
  <2>1. PICK i \in 1..n : s[i] = q
    BY <1>9
  <2>2. 1 < i
    BY <1>6, <2>1
  <2> QED BY <1>1, <1>6, <2>1, <2>2
<1>11. Range(t) = S \ {s[1]}
  <2>1. ASSUME NEW q \in Range(t) PROVE q \in S \ {s[1]}
    <3>1. PICK i \in 1..(n - 1) : t[i] = q
      BY <1>5, <2>1 DEF Range
    <3>2. q = s[i + 1] /\ i + 1 \in 1..n /\ 1 < i + 1
      BY <1>3, <1>5, <1>7, <3>1
    <3>3. Rank[s[1]] < Rank[q] /\ Rank[q] \in Nat /\ q \in S
      BY <1>1, <1>6, <1>8, <3>2
    <3> QED BY <3>3
  <2>2. ASSUME NEW q \in S \ {s[1]} PROVE q \in Range(t)
    <3>1. PICK i \in 1..n : s[i] = q
      BY <1>9
    <3>2. i - 1 \in 1..(n - 1) /\ (i - 1) + 1 = i
      BY <1>6, <3>1
    <3>3. t[i - 1] = q
      BY <1>3, <1>5, <3>1, <3>2
    <3> QED BY <1>5, <3>2, <3>3 DEF Range
  <2> QED BY <2>1, <2>2
<1>12. s[1] \in S
  BY <1>6, <1>8
<1> QED BY <1>2, <1>4, <1>10, <1>11, <1>12 DEF s, t

-----------------------------------------------------------------------------
First(S, par) == [out |-> <<>>, queue |-> Sorted(Ready(S, par, {}))]
Goes(f, S, par, n) ==
    f = [k \in 0..n |-> IF k = 0 THEN First(S, par) ELSE Round(S, par, f[k - 1])]

\* There are as many rounds as one likes.
LEMMA RoundsExist ==
    ASSUME NEW S, NEW par, NEW n \in Nat
    PROVE  \E f : Goes(f, S, par, n)
<1> DEFINE T == {k \in 0..n : \E f : Goes(f, S, par, k)}
<1>1. 0 \in T
  <2>1. Goes([k \in 0..0 |-> First(S, par)], S, par, 0)
    BY DEF Goes
  <2> QED BY <2>1
<1>2. ASSUME NEW k \in 0..(n - 1), k \in T PROVE k + 1 \in T
  <2>1. PICK f : Goes(f, S, par, k)
    BY <1>2
  <2> DEFINE g == [i \in 0..(k + 1) |-> IF i = k + 1 THEN Round(S, par, f[k]) ELSE f[i]]
  <2>2. ASSUME NEW i \in 0..(k + 1)
        PROVE  g[i] = IF i = 0 THEN First(S, par) ELSE Round(S, par, g[i - 1])
    <3>1. CASE i = k + 1
      <4>1. i - 1 = k /\ k \in 0..(k + 1) /\ k # k + 1 /\ i # 0
        BY <3>1
      <4>2. g[i - 1] = f[k]
        BY <4>1
      <4> QED BY <3>1, <4>1, <4>2
    <3>2. CASE i = 0
      BY <2>1, <3>2 DEF Goes
    <3>3. CASE i \in 1..k
      <4>1. i - 1 \in 0..k /\ i - 1 # k + 1 /\ i # k + 1 /\ i # 0 /\ i \in 0..k
        BY <3>3
      <4>2. g[i] = f[i] /\ g[i - 1] = f[i - 1]
        BY <4>1
      <4>3. f[i] = Round(S, par, f[i - 1])
        BY <2>1, <4>1 DEF Goes
      <4> QED BY <4>1, <4>2, <4>3
    <3> QED BY <3>1, <3>2, <3>3
  <2>3. Goes(g, S, par, k + 1)
    BY <2>2 DEF Goes
  <2> QED BY <2>3
<1>3. \A k \in 0..n : k \in T
  <2> HIDE DEF T
  <2> QED BY <1>1, <1>2, UpTo
<1>4. n \in T
  BY <1>3
<1> QED BY <1>4

\* The rounds, as they are defined.
LEMMA RoundsDef ==
    ASSUME NEW S, NEW par, Cardinality(S) \in Nat
    PROVE  /\ Rounds(S, par)[0] = First(S, par)
           /\ \A k \in 1..Cardinality(S) :
                Rounds(S, par)[k] = Round(S, par, Rounds(S, par)[k - 1])
<1> DEFINE r == Rounds(S, par)
           n == Cardinality(S)
           next(k) == IF k = 0 THEN First(S, par) ELSE Round(S, par, r[k - 1])
<1>1. Rounds(S, par) = CHOOSE f : f = [k \in 0..Cardinality(S) |->
        IF k = 0 THEN [out |-> <<>>, queue |-> Sorted(Ready(S, par, {}))]
        ELSE Round(S, par, f[k - 1])]
  BY DEF Rounds
<1>2. PICK f : Goes(f, S, par, Cardinality(S))
  BY RoundsExist
<1>3. f = [k \in 0..Cardinality(S) |->
        IF k = 0 THEN [out |-> <<>>, queue |-> Sorted(Ready(S, par, {}))]
        ELSE Round(S, par, f[k - 1])]
  BY <1>2 DEF Goes, First
<1>4. Rounds(S, par) = [k \in 0..Cardinality(S) |->
        IF k = 0 THEN [out |-> <<>>, queue |-> Sorted(Ready(S, par, {}))]
        ELSE Round(S, par, Rounds(S, par)[k - 1])]
  BY <1>1, <1>3
<1>5. r = [k \in 0..n |-> next(k)]
  BY <1>4 DEF First
<1> HIDE DEF r, next
<1>6. \A k \in 0..n : r[k] = next(k)
  BY <1>5
<1>7. r[0] = First(S, par) /\ \A k \in 1..n : r[k] = Round(S, par, r[k - 1])
  BY <1>6 DEF next
<1> QED BY <1>7 DEF r

Above(s, i) == {s[k] : k \in 1..(i - 1)}
Once(s)     == \A i, j \in 1..Len(s) : s[i] = s[j] => i = j

\* Each place holds the earliest of the posts whose parents are above it.
InOrder(s, S, par) ==
    \A i \in 1..Len(s) :
      /\ par[s[i]] \cap S \subseteq Above(s, i)
      /\ \A q \in S \ (Above(s, i) \cup {s[i]}) :
           par[q] \cap S \subseteq Above(s, i) => Rank[s[i]] < Rank[q]

\* After k rounds: k posts are out, in order, and those whose turn may come are queued.
Reached(S, par, r, k) ==
    /\ r.out \in Seq(S) /\ Len(r.out) = k /\ Once(r.out)
    /\ Range(r.out) \subseteq Ready(S, par, Range(r.out))
    /\ r.queue = Sorted(Ready(S, par, Range(r.out)) \ Range(r.out))
    /\ InOrder(r.out, S, par)

\* As long as posts are left one of them has its parents above it, so that no round is idle.
LEMMA RoundKeeps ==
    ASSUME NEW S \in SUBSET Post, IsFiniteSet(S), NEW par, Grounded(par),
           NEW k \in 0..(Cardinality(S) - 1), NEW r, Reached(S, par, r, k)
    PROVE  Reached(S, par, Round(S, par, r), k + 1)
<1> DEFINE out == r.out
           D   == Range(out)
           W   == Ready(S, par, D) \ D
           c   == Head(r.queue)
           new == Ready(S, par, D \cup {c}) \ Ready(S, par, D)
           t   == Append(out, c)
           E   == D \cup {c}
<1>0. k \in Nat /\ Cardinality(S) \in Nat /\ k < Cardinality(S)
  BY FS_CardinalityType
<1>1. /\ out \in Seq(S) /\ Len(out) = k /\ Once(out) /\ D \subseteq Ready(S, par, D)
      /\ r.queue = Sorted(W) /\ InOrder(out, S, par)
  BY DEF Reached
<1>2. Round(S, par, r) = IF r.queue = <<>> THEN r
        ELSE [out |-> t, queue |-> NextQueue(Tail(r.queue), new)]
  BY DEF Round
<1> HIDE DEF out
<1>3. DOMAIN out = 1..k /\ \A i \in 1..k : out[i] \in S
  BY <1>1, LenProperties, ElementOfSeq
<1>4. D \subseteq S /\ (\A i \in 1..k : out[i] \in D) /\ \A q \in D : \E i \in 1..k : out[i] = q
  BY <1>3 DEF Range
<1> HIDE DEF D
<1>5. S \ D # {}
  <2> SUFFICES ASSUME S \subseteq D PROVE FALSE
    OBVIOUS
  <2>1. out \in Surjection(1..k, D)
    <3>1. out \in [1..k -> D]
      <4>1. out = [i \in 1..k |-> out[i]]
        BY <1>1, <1>3
      <4> QED BY <1>4, <4>1
    <3> QED BY <1>4, <3>1 DEF Surjection
  <2>2. IsFiniteSet(1..k) /\ Cardinality(1..k) = k
    <3>1. 1 \in Int /\ k \in Int
      BY <1>0
    <3>2. IsFiniteSet(1..k) /\ Cardinality(1..k) = IF 1 > k THEN 0 ELSE k - 1 + 1
      BY <3>1, FS_Interval
    <3> QED BY <1>0, <3>2
  <2>3. IsFiniteSet(D) /\ Cardinality(D) <= k
    BY <2>1, <2>2, FS_Surjection
  <2>4. D = S
    BY <1>4
  <2> QED BY <1>0, <2>3, <2>4
<1>6. W \subseteq S /\ W # {}
  <2>1. S \ D \in SUBSET Post
    OBVIOUS
  <2>2. PICK p \in S \ D : par[p] \cap (S \ D) = {}
    BY <1>5, <2>1 DEF Grounded
  <2>3. p \in W
    BY <2>2 DEF Ready
  <2> QED BY <2>3 DEF Ready
<1>7. IsFiniteSet(W) /\ W \in SUBSET Post
  BY <1>6, FS_Subset
<1> HIDE DEF W
<1>8. /\ r.queue # <<>> /\ c \in W /\ Range(Tail(r.queue)) = W \ {c}
      /\ \A q \in W \ {c} : Rank[c] < Rank[q]
  BY <1>1, <1>6, <1>7, QueueHead
<1> HIDE DEF c
<1>9. c \in S /\ c \notin D /\ par[c] \cap S \subseteq D
  BY <1>8 DEF W, Ready
<1>10. /\ t \in Seq(S) /\ Len(t) = k + 1
       /\ \A i \in 1..k : t[i] = out[i]
       /\ t[k + 1] = c
  BY <1>1, <1>9, AppendProperties
<1> HIDE DEF t
<1>11. /\ \A i \in 1..(k + 1) : i \in 1..k \/ i = k + 1
       /\ \A i \in 1..k : i \in 1..(k + 1)
       /\ k + 1 \in 1..(k + 1) /\ DOMAIN t = 1..(k + 1)
  BY <1>0, <1>10, LenProperties
<1>12. Range(t) = E
  <2>1. Range(t) \subseteq E
    BY <1>4, <1>10, <1>11 DEF Range
  <2>2. D \subseteq Range(t)
    BY <1>4, <1>10, <1>11 DEF Range
  <2>3. c \in Range(t)
    BY <1>10, <1>11 DEF Range
  <2> QED BY <2>1, <2>2, <2>3
<1>13. Once(t)
  <2> SUFFICES ASSUME NEW i \in 1..(k + 1), NEW j \in 1..(k + 1), t[i] = t[j] PROVE i = j
    BY <1>10 DEF Once
  <2>1. CASE i \in 1..k /\ j \in 1..k
    <3>1. out[i] = out[j]
      BY <1>10, <2>1
    <3> QED BY <1>1, <2>1, <3>1 DEF Once
  <2>2. CASE i \in 1..k /\ j = k + 1
    BY <1>4, <1>9, <1>10, <2>2
  <2>3. CASE i = k + 1 /\ j \in 1..k
    BY <1>4, <1>9, <1>10, <2>3
  <2> QED BY <1>11, <2>1, <2>2, <2>3
<1>14. E \subseteq Ready(S, par, E) /\ Ready(S, par, D) \subseteq Ready(S, par, E)
  BY <1>1, <1>9 DEF Ready
<1>15. (W \ {c}) \cup new = Ready(S, par, E) \ E
  BY <1>1, <1>8, <1>14 DEF W
<1>16. Round(S, par, r) = [out |-> t, queue |-> Sorted(Ready(S, par, E) \ E)]
  BY <1>2, <1>8, <1>15 DEF NextQueue
<1>17. InOrder(t, S, par)
  <2>1. \A i \in 1..k : Above(t, i) = Above(out, i)
    <3> SUFFICES ASSUME NEW i \in 1..k PROVE Above(t, i) = Above(out, i)
      OBVIOUS
    <3>1. \A j \in 1..(i - 1) : j \in 1..k
      BY <1>0
    <3>2. \A j \in 1..(i - 1) : t[j] = out[j]
      BY <1>10, <3>1
    <3> QED BY <3>2 DEF Above
  <2>2. Above(t, k + 1) = D
    <3>1. (k + 1) - 1 = k
      BY <1>0
    <3>2. Above(t, k + 1) = {t[j] : j \in 1..k}
      BY <3>1 DEF Above
    <3>3. \A x \in Above(t, k + 1) : x \in D
      BY <1>4, <1>10, <3>2
    <3>4. \A x \in D : x \in Above(t, k + 1)
      BY <1>4, <1>10, <3>2
    <3> QED BY <3>3, <3>4
  <2>3. ASSUME NEW i \in 1..k
        PROVE  /\ par[t[i]] \cap S \subseteq Above(t, i)
               /\ \A q \in S \ (Above(t, i) \cup {t[i]}) :
                    par[q] \cap S \subseteq Above(t, i) => Rank[t[i]] < Rank[q]
    <3>1. t[i] = out[i] /\ Above(t, i) = Above(out, i)
      BY <1>10, <2>1
    <3> QED BY <1>1, <3>1 DEF InOrder
  <2>4. \A q \in S \ (D \cup {c}) : par[q] \cap S \subseteq D => Rank[c] < Rank[q]
    BY <1>8 DEF W, Ready
  <2>5. /\ par[t[k + 1]] \cap S \subseteq Above(t, k + 1)
        /\ \A q \in S \ (Above(t, k + 1) \cup {t[k + 1]}) :
             par[q] \cap S \subseteq Above(t, k + 1) => Rank[t[k + 1]] < Rank[q]
    BY <1>9, <1>10, <2>2, <2>4
  <2> QED BY <1>10, <1>11, <2>3, <2>5 DEF InOrder
<1> DEFINE v == Round(S, par, r)
<1>18. v.out = t /\ v.queue = Sorted(Ready(S, par, E) \ E)
  BY <1>16
<1> HIDE DEF v
<1>19. Reached(S, par, v, k + 1)
  BY <1>10, <1>12, <1>13, <1>14, <1>17, <1>18 DEF Reached
<1> QED BY <1>19 DEF v

\* getSortedPosts: every post once, each place held as said above.
LEMMA PostsInOrder ==
    ASSUME NEW S \in SUBSET Post, IsFiniteSet(S), NEW par, Grounded(par)
    PROVE  LET s == GetSortedPosts(S, par)
           IN  /\ s \in Seq(S) /\ Len(s) = Cardinality(S) /\ Range(s) = S
               /\ Once(s) /\ InOrder(s, S, par)
<1> DEFINE n == Cardinality(S)
           R == Rounds(S, par)
           s == GetSortedPosts(S, par)
           T == {k \in 0..n : Reached(S, par, R[k], k)}
<1>0. n \in Nat
  BY FS_CardinalityType
<1>1. R[0] = First(S, par) /\ \A k \in 1..n : R[k] = Round(S, par, R[k - 1])
  BY <1>0, RoundsDef
<1> HIDE DEF R, n
<1>2. 0 \in T
  <2>1. R[0].out = <<>> /\ R[0].queue = Sorted(Ready(S, par, {}))
    BY <1>1 DEF First
  <2>2. Range(<<>>) = {}
    BY DEF Range
  <2>3. /\ <<>> \in Seq(S) /\ Len(<<>>) = 0 /\ Once(<<>>) /\ InOrder(<<>>, S, par)
    BY EmptySeq DEF Once, InOrder
  <2>4. Reached(S, par, R[0], 0)
    BY <2>1, <2>2, <2>3 DEF Reached
  <2> QED BY <1>0, <2>4
<1>3. ASSUME NEW k \in 0..(n - 1), k \in T PROVE k + 1 \in T
  <2>1. k + 1 \in 1..n /\ (k + 1) - 1 = k /\ k + 1 \in 0..n
    BY <1>0
  <2>2. R[k + 1] = Round(S, par, R[k])
    BY <1>1, <2>1
  <2>3. Reached(S, par, R[k + 1], k + 1)
    BY <1>3, <2>2, RoundKeeps DEF n
  <2> QED BY <2>1, <2>3
<1>4. n \in T
  <2> HIDE DEF T
  <2>1. \A k \in 0..n : k \in T
    BY <1>0, <1>2, <1>3, UpTo
  <2> QED BY <1>0, <2>1
<1>5. s = R[n].out
  BY DEF GetSortedPosts, R, n
<1> HIDE DEF s
<1>6. s \in Seq(S) /\ Len(s) = n /\ Once(s) /\ InOrder(s, S, par)
  BY <1>4, <1>5 DEF Reached
<1>7. Range(s) = S
  <2>1. DOMAIN s = 1..n /\ s \in [1..n -> S]
    BY <1>6, LenProperties, ElementOfSeq
  <2>2. s \in Injection(1..n, S)
    BY <1>6, <2>1 DEF Once, Injection, IsInjective
  <2>3. Cardinality(1..n) = n
    <3>1. 1 \in Int /\ n \in Int
      BY <1>0
    <3>2. Cardinality(1..n) = IF 1 > n THEN 0 ELSE n - 1 + 1
      BY <3>1, FS_Interval
    <3> QED BY <1>0, <3>2
  <2>4. s \in Surjection(1..n, S)
    BY <2>2, <2>3, FS_Injection DEF n
  <2> QED BY <2>1, <2>4 DEF Surjection, Range
<1> QED BY <1>6, <1>7 DEF s, n

\* p is somewhere in the node, or on its way to the graph or the disk.
Around(p) ==
    \/ p \in Range(nodes) \cup seen
    \/ \E t \in Thread : p \in disk[t]
    \/ \E l \in loads : l.at = p \/ p \in l.rest
    \/ \E t \in tasks : t.post = p
    \/ \E s \in saves : s.post = p

\* The reply p is not written, or its proof of work is not done.
Unsent(p) == wrote[p] = NoThread \/ \E r \in replies : r.post = p /\ r.at = "build"

\* A reply is built once, and is nowhere before.
BuiltOnce ==
    /\ slot \in [Own -> Visit]
    /\ \A p \in Own : Unsent(p) => slot[p] = NoThread /\ ~Around(p)
    /\ \A r \in replies : wrote[r.post] # NoThread
    /\ \A r, x \in replies : r.post = x.post => r = x

\* The parents have an order, and nobody answers what is not written.
Rooted ==
    /\ parents \in [Post -> SUBSET Post] /\ Grounded(parents)
    /\ \A p \in Own : wrote[p] = NoThread => \A q \in Post : p \notin parents[q]

\* The graph has each post once, and is shown in order.
Drawn ==
    /\ IsFiniteSet(Range(nodes)) /\ Cardinality(Range(nodes)) = Len(nodes)
    /\ DOMAIN snapshot = 1..Len(nodes) /\ Range(snapshot) = Range(nodes)
    /\ Once(snapshot) /\ InOrder(snapshot, Range(nodes), parents)
    /\ Len(snapshot) = Len(nodes)

OrderInv == BuiltOnce /\ Rooted /\ Drawn

LEMMA NothingDrawn ==
    ASSUME nodes = <<>>, snapshot = <<>>
    PROVE  Drawn
<1>1. Range(<<>>) = {} /\ Len(<<>>) = 0 /\ DOMAIN <<>> = 1..0
  BY EmptySeq DEF Range
<1>2. IsFiniteSet({}) /\ Cardinality({}) = 0
  BY FS_EmptySet
<1>3. Once(<<>>) /\ \A S, par : InOrder(<<>>, S, par)
  BY <1>1 DEF Once, InOrder
<1>4. Range(nodes) = {} /\ Range(snapshot) = {} /\ DOMAIN snapshot = 1..0
  BY <1>1
<1>5. Len(nodes) = 0 /\ Len(snapshot) = 0
  BY <1>1
<1> QED BY <1>2, <1>3, <1>4, <1>5 DEF Drawn

LEMMA OrderStarts == Init => OrderInv
<1> SUFFICES ASSUME Init PROVE OrderInv
  OBVIOUS
<1> USE DEF Init
<1>1. Range(<<>>) = {} /\ Len(<<>>) = 0
  BY EmptySeq DEF Range
<1>2. BuiltOnce
  BY <1>1 DEF BuiltOnce, Around, Visit
<1>3. Rooted
  <2>1. parents \in [Post -> SUBSET Post]
    BY ThreadViewAssumption
  <2>2. Grounded(parents) /\ \A q \in Post : parents[q] \cap Own = {}
    BY ParentsAssumption
  <2> QED BY <2>1, <2>2 DEF Rooted
<1>4. Drawn
  BY <1>1, NothingDrawn
<1> QED BY <1>2, <1>3, <1>4 DEF OrderInv

-----------------------------------------------------------------------------
(* What is drawn *)

\* A post that is not in the graph joins it.
LEMMA DisplayDraws ==
    ASSUME nodes \in Seq(Post), Drawn, Rooted, NEW p \in Post, p \notin Range(nodes),
           Display(p), parents' = parents
    PROVE  Drawn'
<1> DEFINE N == Range(nodes')
           s == GetSortedPosts(N, parents)
<1>1. nodes' \in Seq(Post) /\ N = Range(nodes) \cup {p} /\ Len(nodes') = Len(nodes) + 1
  <2>1. nodes' = Append(nodes, p)
    BY DEF Display
  <2> QED BY <2>1, DisplayShape, AppendProperties
<1>2. Range(nodes) \subseteq Post /\ snapshot' = s
  <2>1. Range(nodes) \subseteq Post
    BY DEF Range
  <2> QED BY <2>1 DEF Display
<1> HIDE DEF N, s
<1>3. IsFiniteSet(N) /\ Cardinality(N) = Len(nodes') /\ N \in SUBSET Post
  <2>1. N \in SUBSET Post
    BY <1>1, <1>2
  <2>2. IsFiniteSet(Range(nodes)) /\ Cardinality(Range(nodes)) = Len(nodes)
    BY DEF Drawn
  <2>3. IsFiniteSet(Range(nodes) \cup {p})
        /\ Cardinality(Range(nodes) \cup {p}) = Cardinality(Range(nodes)) + 1
    BY <2>2, FS_AddElement
  <2>4. IsFiniteSet(N) /\ Cardinality(N) = Len(nodes')
    BY <1>1, <2>2, <2>3
  <2> QED BY <2>1, <2>4
<1>4. Grounded(parents)
  BY DEF Rooted
<1>5. /\ s \in Seq(N) /\ Len(s) = Cardinality(N) /\ Range(s) = N
      /\ Once(s) /\ InOrder(s, N, parents)
  BY <1>3, <1>4, PostsInOrder DEF s
<1>6. DOMAIN s = 1..Len(s)
  BY <1>5, LenProperties
<1>7. Once(snapshot)' /\ InOrder(snapshot, Range(nodes), parents)'
  <2>1. Once(snapshot')
    BY <1>2, <1>5
  <2>2. InOrder(snapshot', N, parents')
    BY <1>2, <1>5
  <2> QED BY <2>1, <2>2 DEF Once, InOrder, Above, N
<1> QED BY <1>2, <1>3, <1>5, <1>6, <1>7 DEF Drawn, N

LEMMA AddDraws ==
    ASSUME nodes \in Seq(Post), Drawn, Rooted, NEW p \in Post, NEW k, AddReceived(p, k),
           parents' = parents
    PROVE  Drawn'
<1>1. CASE IsNew(p, k)
  BY <1>1, DisplayDraws DEF AddReceived, IsNew
<1>2. CASE ~IsNew(p, k)
  BY <1>2 DEF AddReceived, Drawn, Once, InOrder, Above
<1> QED BY <1>1, <1>2

\* Nor does the order change with the parents of a post that is not in the graph.
LEMMA StaysDrawn ==
    ASSUME Drawn, UNCHANGED <<nodes, snapshot>>,
           \A q \in Range(nodes) : parents'[q] = parents[q]
    PROVE  Drawn'
<1>1. \A i \in 1..Len(snapshot) : snapshot[i] \in Range(nodes)
  BY DEF Drawn, Range
<1>2. InOrder(snapshot, Range(nodes), parents')
  BY <1>1 DEF Drawn, InOrder
<1> QED BY <1>2 DEF Drawn, Once, InOrder, Above

LEMMA ResetDraws == ASSUME NEW t, Reset(t) PROVE Drawn'
<1>1. nodes' = <<>> /\ snapshot' = <<>>
  BY DEF Reset
<1>2. Range(<<>>) = {} /\ Len(<<>>) = 0 /\ DOMAIN <<>> = 1..0
  BY EmptySeq DEF Range
<1> QED BY <1>1, <1>2, FS_EmptySet DEF Drawn, Once, InOrder

LEMMA DrawnNext ==
    ASSUME ThreadInv, OrderInv, [Next]_vars
    PROVE  Drawn'
<1> DEFINE Same == UNCHANGED <<nodes, snapshot, parents>>
<1>0. nodes \in Seq(Post) /\ Drawn /\ Rooted
  BY DEF ThreadInv, Types, OrderInv
<1>1. ASSUME Same PROVE Drawn'
  BY <1>0, <1>1, StaysDrawn
<1>2. ASSUME NEW t \in Thread, Activate(t) PROVE Drawn'
  <2>1. CASE open # t
    BY <1>2, <2>1, ResetDraws DEF Activate
  <2>2. CASE open = t
    BY <1>1, <1>2, <2>2 DEF Activate, view, written
  <2> QED BY <2>1, <2>2
<1>3. CASE Clear
  BY <1>3, ResetDraws DEF Clear
<1>4. ASSUME NEW l \in loads,
             LoadRead(l) \/ LoadDone(l) \/ \E p \in Post : LoadNext(l, p)
      PROVE  Drawn'
  BY <1>1, <1>4 DEF LoadRead, LoadDone, LoadNext, view, written
<1>5. ASSUME NEW l \in loads, LoadDecrypted(l) PROVE Drawn'
  BY <1>0, <1>5, AddDraws DEF LoadDecrypted, written
<1>6. ASSUME NEW p \in Post, OnGossipPacket(p) \/ OnHintBody(p) PROVE Drawn'
  BY <1>1, <1>6 DEF OnGossipPacket, OnHintBody, HandlePacket, written
<1>7. ASSUME NEW p \in Post, SubmitReply(p) PROVE Drawn'
  <2>1. p \in Own /\ wrote[p] = NoThread /\ UNCHANGED <<nodes, snapshot>>
    BY <1>7 DEF SubmitReply, view
  <2>2. p \notin Range(nodes)
    BY <2>1 DEF OrderInv, BuiltOnce, Unsent, Around
  <2>3. PICK T : parents' = [parents EXCEPT ![p] = T]
    BY <1>7 DEF SubmitReply
  <2>4. Range(nodes) \subseteq Post /\ parents \in [Post -> SUBSET Post]
    BY <1>0 DEF Range, Rooted
  <2>5. \A q \in Range(nodes) : parents'[q] = parents[q]
    BY <2>2, <2>3, <2>4
  <2> QED BY <1>0, <2>1, <2>5, StaysDrawn
<1>8. ASSUME NEW t \in tasks, PacketDecrypted(t) PROVE Drawn'
  <2>1. t.post \in Post
    BY DEF ThreadInv, Types, Tasks
  <2> QED BY <1>0, <1>8, <2>1, AddDraws DEF PacketDecrypted, written
<1>9. ASSUME NEW s \in saves, Saved(s) \/ SaveFails(s) PROVE Drawn'
  BY <1>1, <1>9 DEF Saved, SaveFails, view, written
<1>10. ASSUME NEW r \in replies, ReplyBuilt(r) PROVE Drawn'
  <2>1. CASE open = NoThread
    BY <1>1, <1>10, <2>1 DEF ReplyBuilt, written
  <2>2. CASE open # NoThread
    <3>1. r.post \in Own /\ r.post \in Post
      BY ThreadViewAssumption DEF ThreadInv, Types, Works
    <3>2. Unsent(r.post)
      BY <1>10 DEF ReplyBuilt, Unsent
    <3>3. r.post \notin Range(nodes)
      BY <3>1, <3>2 DEF OrderInv, BuiltOnce, Around
    <3> QED BY <1>0, <1>10, <2>2, <3>1, <3>3, DisplayDraws DEF ReplyBuilt, written
  <2> QED BY <2>1, <2>2
<1>11. ASSUME NEW r \in replies, BuildFails(r) \/ ReplySaved(r) PROVE Drawn'
  BY <1>1, <1>11 DEF BuildFails, ReplySaved, view, written
<1>12. CASE UNCHANGED vars
  BY <1>1, <1>12 DEF vars, view, written
<1> QED BY <1>2, <1>3, <1>4, <1>5, <1>6, <1>7, <1>8, <1>9, <1>10, <1>11, <1>12 DEF Next

-----------------------------------------------------------------------------
(* Replies are built once *)

\* What does not touch the replies may not bring one that is not sent.
LEMMA SameReplies ==
    ASSUME BuiltOnce, UNCHANGED <<replies, wrote, slot>>,
           \A p \in Own : Unsent(p) /\ ~Around(p) => ~Around(p)'
    PROVE  BuiltOnce'
  BY DEF BuiltOnce, Unsent

\* A reply that is over, or saved next, is not to be sent any more.
LEMMA ReplyLeaves ==
    ASSUME BuiltOnce, UNCHANGED wrote, NEW r \in replies,
           NEW n, n.post = r.post, n.at = "save",
           replies' = replies \ {r} \/ replies' = (replies \ {r}) \cup {n},
           slot' \in [Own -> Visit], \A p \in Own \ {r.post} : slot'[p] = slot[p],
           \A p \in Own \ {r.post} : Unsent(p) /\ ~Around(p) => ~Around(p)'
    PROVE  BuiltOnce'
<1>1. /\ \A p \in Own : Unsent(p) => slot[p] = NoThread /\ ~Around(p)
      /\ \A q \in replies : wrote[q.post] # NoThread
      /\ \A q, x \in replies : q.post = x.post => q = x
  BY DEF BuiltOnce
<1>2. \A q \in replies' : q \in replies \ {r} \/ q = n
  OBVIOUS
<1>3. \A q \in replies' : wrote'[q.post] # NoThread
  BY <1>1, <1>2
<1>4. \A q, x \in replies' : q.post = x.post => q = x
  BY <1>1, <1>2
<1>5. ASSUME NEW p \in Own, Unsent(p)' PROVE Unsent(p) /\ p # r.post
  <2>1. CASE wrote[p] = NoThread
    BY <1>1, <2>1 DEF Unsent
  <2>2. CASE wrote[p] # NoThread
    <3>1. PICK q \in replies' : q.post = p /\ q.at = "build"
      BY <1>5, <2>2 DEF Unsent
    <3>2. q \in replies \ {r}
      BY <1>2, <3>1
    <3> QED BY <1>1, <3>1, <3>2 DEF Unsent
  <2> QED BY <2>1, <2>2
<1>6. \A p \in Own : Unsent(p)' => slot'[p] = NoThread /\ ~Around(p)'
  BY <1>1, <1>5
<1> QED BY <1>3, <1>4, <1>6 DEF BuiltOnce

LEMMA AddBrings ==
    ASSUME nodes \in Seq(Post), NEW p \in Post, NEW k, AddReceived(p, k)
    PROVE  Range(nodes') \subseteq Range(nodes) \cup {p}
<1>1. CASE IsNew(p, k)
  BY <1>1, DisplayShape DEF AddReceived
<1>2. CASE ~IsNew(p, k)
  BY <1>2 DEF AddReceived
<1> QED BY <1>1, <1>2

LEMMA BuiltOnceNext ==
    ASSUME ThreadInv, OrderInv, [Next]_vars
    PROVE  BuiltOnce'
<1>0. /\ BuiltOnce /\ Own \subseteq Post /\ nodes \in Seq(Post)
      /\ \A p \in Own : p # "get" /\ p # "loop"
  BY ThreadViewAssumption DEF ThreadInv, Types, OrderInv
<1>1. ASSUME NEW t \in Visit, Reset(t), UNCHANGED <<disk, tasks, saves, replies, written>>,
             \A l \in loads' : l \in loads \/ (l.at = "get" /\ l.rest = {})
      PROVE  BuiltOnce'
  <2>1. Range(nodes') = {} /\ seen' = {}
    BY <1>1 DEF Reset, Range
  <2>2. \A p \in Own : Around(p)' => Around(p)
    BY <1>0, <1>1, <2>1 DEF Around
  <2> QED BY <1>0, <1>1, <2>2, SameReplies DEF written
<1>2. ASSUME NEW t \in Thread, Activate(t) PROVE BuiltOnce'
  <2> DEFINE new == [n |-> acts', thread |-> t, at |-> "get", rest |-> {}]
  <2>1. loads' = loads \cup {new} /\ UNCHANGED <<disk, tasks, saves, replies, written>>
    BY <1>2 DEF Activate
  <2>2. new.at = "get" /\ new.rest = {}
    OBVIOUS
  <2> HIDE DEF new
  <2>3. \A l \in loads' : l \in loads \/ (l.at = "get" /\ l.rest = {})
    BY <2>1, <2>2
  <2>4. CASE open # t
    BY <1>1, <1>2, <2>1, <2>3, <2>4 DEF Activate, Visit
  <2>5. CASE open = t
    <3>1. UNCHANGED view
      BY <1>2, <2>5 DEF Activate
    <3>2. \A p \in Own : Around(p)' => Around(p)
      BY <1>0, <2>1, <2>3, <3>1 DEF Around, view
    <3> QED BY <1>0, <2>1, <3>2, SameReplies DEF written
  <2> QED BY <2>4, <2>5
<1>3. CASE Clear
  BY <1>1, <1>3 DEF Clear, Visit
<1>4. ASSUME NEW l \in loads, LoadRead(l) PROVE BuiltOnce'
  <2>1. PICK rest : /\ Move(l, "loop", rest) /\ rest \in {{}, disk[l.thread]}
    BY <1>4 DEF LoadRead
  <2>2. l.thread \in Thread
    BY DEF ThreadInv, Types, Loads
  <2>3. \A m \in loads' : m \in loads \/ (m.at = "loop" /\ m.rest \subseteq disk[l.thread])
    BY <2>1 DEF Move
  <2>4. UNCHANGED <<nodes, seen, disk, tasks, saves, replies, written>>
    BY <1>4 DEF LoadRead
  <2>5. \A p \in Own : Around(p)' => Around(p)
    BY <1>0, <2>2, <2>3, <2>4 DEF Around
  <2> QED BY <1>0, <2>4, <2>5, SameReplies DEF written
<1>5. ASSUME NEW l \in loads, NEW q \in Post, LoadNext(l, q) PROVE BuiltOnce'
  <2>1. /\ q \in l.rest /\ seen' = seen \cup {q}
        /\ UNCHANGED <<nodes, disk, tasks, saves, replies, written>>
    BY <1>5 DEF LoadNext
  <2>2. \A m \in loads' : m \in loads \/ (m.at \in {"loop", q} /\ m.rest \subseteq l.rest)
    BY <1>5 DEF LoadNext, Move
  <2>3. \A p \in Own : Around(p)' => Around(p)
    BY <1>0, <2>1, <2>2 DEF Around
  <2> QED BY <1>0, <2>1, <2>3, SameReplies DEF written
<1>6. ASSUME NEW l \in loads, LoadDecrypted(l) PROVE BuiltOnce'
  <2>1. /\ UNCHANGED <<seen, disk, tasks, saves, replies, written>>
        /\ Range(nodes') \subseteq Range(nodes) \cup {l.at}
    BY <1>0, <1>6, AddBrings DEF LoadDecrypted
  <2>2. \A m \in loads' : m \in loads \/ (m.at = "loop" /\ m.rest \subseteq l.rest)
    BY <1>6 DEF LoadDecrypted, Move
  <2>3. \A p \in Own : Around(p)' => Around(p)
    BY <1>0, <2>1, <2>2 DEF Around
  <2> QED BY <1>0, <2>1, <2>3, SameReplies DEF written
<1>7. ASSUME NEW l \in loads, LoadDone(l) PROVE BuiltOnce'
  <2>1. loads' \subseteq loads /\ UNCHANGED <<view, disk, tasks, saves, replies, written>>
    BY <1>7 DEF LoadDone
  <2>2. \A p \in Own : Around(p)' => Around(p)
    BY <2>1 DEF Around, view
  <2> QED BY <1>0, <2>1, <2>2, SameReplies DEF written
<1>8. ASSUME NEW q \in Post, OnGossipPacket(q) \/ OnHintBody(q) PROVE BuiltOnce'
  <2>1. HandlePacket(q) /\ (q \in Own => slot[q] # NoThread)
    BY <1>8 DEF OnGossipPacket, OnHintBody, HandlePacket
  <2>2. ~(q \in Own /\ Unsent(q))
    BY <1>0, <2>1 DEF BuiltOnce
  <2>3. /\ seen' = seen \cup {q} /\ \A t \in tasks' : t \in tasks \/ t.post = q
        /\ UNCHANGED <<nodes, disk, loads, saves, replies, written>>
    BY <2>1 DEF HandlePacket
  <2>4. \A p \in Own \ {q} : Around(p)' => Around(p)
    BY <2>3 DEF Around
  <2> QED BY <1>0, <2>2, <2>3, <2>4, SameReplies DEF written
<1>9. ASSUME NEW q \in Post, SubmitReply(q) PROVE BuiltOnce'
  <2> DEFINE new == [post |-> q, at |-> "build", thread |-> open]
  <2>1. /\ q \in Own /\ wrote[q] = NoThread /\ open # NoThread
        /\ wrote' = [wrote EXCEPT ![q] = open] /\ replies' = replies \cup {new}
        /\ UNCHANGED <<view, disk, loads, tasks, saves, slot>>
    BY <1>9 DEF SubmitReply
  <2>2. new.post = q /\ new.at = "build" /\ wrote \in [Own -> Visit]
    BY DEF ThreadInv, Types
  <2> HIDE DEF new
  <2>3. wrote'[q] = open /\ \A p \in Own \ {q} : wrote'[p] = wrote[p]
    BY <2>1, <2>2
  <2>4. \A r \in replies : r.post # q /\ r.post \in Own
    BY <1>0, <2>1 DEF BuiltOnce, ThreadInv, Types, Works
  <2>5. \A p \in Own : Unsent(p)' => Unsent(p)
    BY <2>1, <2>2, <2>3 DEF Unsent
  <2>6. \A p \in Own : Around(p)' => Around(p)
    BY <2>1 DEF Around, view
  <2>7. \A r \in replies' : wrote'[r.post] # NoThread
    BY <1>0, <2>1, <2>2, <2>3, <2>4 DEF BuiltOnce
  <2>8. \A r, x \in replies' : r.post = x.post => r = x
    BY <1>0, <2>1, <2>2, <2>4 DEF BuiltOnce
  <2> QED BY <1>0, <2>1, <2>5, <2>6, <2>7, <2>8 DEF BuiltOnce
<1>10. ASSUME NEW t \in tasks, PacketDecrypted(t) PROVE BuiltOnce'
  <2>1. t.post \in Post
    BY DEF ThreadInv, Types, Tasks
  <2>2. /\ Range(nodes') \subseteq Range(nodes) \cup {t.post} /\ tasks' \subseteq tasks
        /\ \A s \in saves' : s \in saves \/ s.post = t.post
        /\ UNCHANGED <<seen, disk, loads, replies, written>>
    BY <1>0, <1>10, <2>1, AddBrings DEF PacketDecrypted
  <2>3. \A p \in Own : Around(p)' => Around(p)
    BY <2>2 DEF Around
  <2> QED BY <1>0, <2>2, <2>3, SameReplies DEF written
<1>11. ASSUME NEW s \in saves, Saved(s) \/ SaveFails(s) PROVE BuiltOnce'
  <2>1. /\ saves' \subseteq saves
        /\ UNCHANGED <<view, loads, tasks, replies, written>>
    BY <1>11 DEF Saved, SaveFails
  <2>2. disk \in [Thread -> SUBSET Post]
    BY DEF ThreadInv, Types
  <2>3. \A t \in Thread : disk'[t] \subseteq disk[t] \cup {s.post}
    BY <1>11, <2>2 DEF Saved, SaveFails
  <2>4. \A p \in Own : Around(p)' => Around(p)
    BY <2>1, <2>3 DEF Around, view
  <2> QED BY <1>0, <2>1, <2>4, SameReplies DEF written
<1>12. ASSUME NEW r \in replies, ReplyBuilt(r) PROVE BuiltOnce'
  <2> DEFINE n == [post |-> r.post, at |-> "save", thread |-> open]
  <2>1. /\ n.post = r.post /\ n.at = "save" /\ r.post \in Post
        /\ replies' = replies \ {r} \/ replies' = (replies \ {r}) \cup {n}
        /\ UNCHANGED <<disk, loads, tasks, saves, written>>
    BY <1>0, <1>12 DEF ReplyBuilt, ThreadInv, Types, Works
  <2> HIDE DEF n
  <2>2. Range(nodes') \subseteq Range(nodes) \cup {r.post} /\ seen' \subseteq seen \cup {r.post}
    BY <1>0, <1>12, <2>1, DisplayShape DEF ReplyBuilt
  <2>3. \A p \in Own \ {r.post} : Around(p)' => Around(p)
    BY <2>1, <2>2 DEF Around
  <2>4. slot' \in [Own -> Visit] /\ slot' = slot /\ UNCHANGED wrote
    BY <1>0, <2>1 DEF BuiltOnce, written
  <2> QED BY <1>0, <2>1, <2>3, <2>4, ReplyLeaves
<1>13. ASSUME NEW r \in replies, BuildFails(r) PROVE BuiltOnce'
  <2> DEFINE n == [post |-> r.post, at |-> "save"]
  <2>1. n.post = r.post /\ n.at = "save"
    OBVIOUS
  <2> HIDE DEF n
  <2>2. /\ replies' = replies \ {r} /\ UNCHANGED <<view, disk, loads, tasks, saves, written>>
    BY <1>13 DEF BuildFails
  <2>3. \A p \in Own : Around(p)' => Around(p)
    BY <2>2 DEF Around, view
  <2>4. slot' \in [Own -> Visit] /\ slot' = slot /\ UNCHANGED wrote
    BY <1>0, <2>2 DEF BuiltOnce, written
  <2> QED BY <1>0, <2>1, <2>2, <2>3, <2>4, ReplyLeaves
<1>14. ASSUME NEW r \in replies, ReplySaved(r) PROVE BuiltOnce'
  <2> DEFINE n == [post |-> r.post, at |-> "save"]
  <2>1. n.post = r.post /\ n.at = "save"
    OBVIOUS
  <2> HIDE DEF n
  <2>2. /\ replies' = replies \ {r} /\ slot' = [slot EXCEPT ![r.post] = open]
        /\ UNCHANGED <<view, loads, tasks, saves, wrote>>
    BY <1>14 DEF ReplySaved
  <2>3. disk \in [Thread -> SUBSET Post] /\ open \in Visit /\ slot \in [Own -> Visit]
    BY <1>0 DEF BuiltOnce, ThreadInv, Types
  <2>4. slot' \in [Own -> Visit] /\ \A p \in Own \ {r.post} : slot'[p] = slot[p]
    BY <2>2, <2>3
  <2>5. \A t \in Thread : disk'[t] \subseteq disk[t] \cup {r.post}
    BY <1>14, <2>3 DEF ReplySaved
  <2>6. \A p \in Own \ {r.post} : Around(p)' => Around(p)
    BY <2>2, <2>5 DEF Around, view
  <2> QED BY <1>0, <2>1, <2>2, <2>4, <2>6, ReplyLeaves
<1>15. CASE UNCHANGED vars
  <2>1. \A p \in Own : Around(p)' => Around(p)
    BY <1>15 DEF vars, view, Around
  <2> QED BY <1>0, <1>15, <2>1, SameReplies DEF vars, written
<1> QED BY <1>2, <1>3, <1>4, <1>5, <1>6, <1>7, <1>8, <1>9, <1>10, <1>11, <1>12, <1>13,
           <1>14, <1>15 DEF Next

-----------------------------------------------------------------------------
(* The parents of a reply are displayed *)

LEMMA RootedNext ==
    ASSUME ThreadInv, OrderInv, [Next]_vars
    PROVE  Rooted'
<1>0. Rooted /\ BuiltOnce /\ nodes \in Seq(Post) /\ wrote \in [Own -> Visit]
  BY DEF ThreadInv, Types, OrderInv
<1>1. ASSUME UNCHANGED <<wrote, parents>> PROVE Rooted'
  BY <1>0, <1>1 DEF Rooted, Grounded
<1>2. ASSUME NEW p \in Post, SubmitReply(p) PROVE Rooted'
  <2>1. /\ p \in Own /\ wrote[p] = NoThread /\ wrote' = [wrote EXCEPT ![p] = open]
        /\ open # NoThread
    BY <1>2 DEF SubmitReply
  <2>2. PICK T \in GetTips(Range(nodes)) : parents' = [parents EXCEPT ![p] = T]
    BY <1>2 DEF SubmitReply
  <2>3. T \subseteq Range(nodes) /\ Range(nodes) \subseteq Post
    BY <1>0 DEF GetTips, Range
  <2>4. \A q \in Own : wrote[q] = NoThread => q \notin Range(nodes)
    BY <1>0 DEF BuiltOnce, Unsent, Around
  <2>5. /\ parents \in [Post -> SUBSET Post]
        /\ \A q \in Own : wrote[q] = NoThread => \A x \in Post : q \notin parents[x]
    BY <1>0 DEF Rooted
  <2>6. /\ parents' \in [Post -> SUBSET Post] /\ parents'[p] = T
        /\ \A q \in Post \ {p} : parents'[q] = parents[q]
    BY <2>2, <2>3, <2>5
  <2>7. \A q \in Own : wrote'[q] = NoThread => \A x \in Post : q \notin parents'[x]
    <3>1. \A q \in Own : wrote'[q] = NoThread => wrote[q] = NoThread
      BY <1>0, <2>1
    <3> QED BY <2>3, <2>4, <2>5, <2>6, <3>1
  <2>8. ASSUME NEW S \in SUBSET Post, S # {} PROVE \E q \in S : parents'[q] \cap S = {}
    <3>1. CASE S = {p}
      BY <2>1, <2>3, <2>4, <2>6, <3>1
    <3>2. CASE S # {p}
      <4>1. S \ {p} \in SUBSET Post /\ S \ {p} # {}
        BY <2>8, <3>2
      <4>2. PICK q \in S \ {p} : parents[q] \cap (S \ {p}) = {}
        BY <1>0, <4>1 DEF Rooted, Grounded
      <4>3. p \notin parents[q] /\ parents'[q] = parents[q]
        BY <2>1, <2>5, <2>6
      <4> QED BY <4>2, <4>3
    <3> QED BY <3>1, <3>2
  <2>9. Grounded(parents)'
    BY <2>8 DEF Grounded
  <2> QED BY <2>6, <2>7, <2>9 DEF Rooted
<1>3. CASE ~(\E p \in Post : SubmitReply(p)) /\ Next
  <2>1. UNCHANGED <<wrote, parents>>
    BY <1>3 DEF Next, Activate, Clear, LoadRead, LoadDecrypted, LoadDone, LoadNext,
       OnGossipPacket, OnHintBody, HandlePacket, PacketDecrypted, Saved, SaveFails,
       ReplyBuilt, BuildFails, ReplySaved, written
  <2> QED BY <1>1, <2>1
<1>4. CASE UNCHANGED vars
  BY <1>1, <1>4 DEF vars, written
<1> QED BY <1>2, <1>3, <1>4

-----------------------------------------------------------------------------
\* The order of getSortedPosts is the one displayed.
LEMMA DrawnInOrder == ASSUME nodes \in Seq(Post), Drawn PROVE DisplayOrder
<1> DEFINE n == Len(snapshot)
           above(i) == {snapshot[k] : k \in 1..(i - 1)}
<1>1. /\ DOMAIN snapshot = 1..n /\ Range(snapshot) = Range(nodes) /\ n = Len(nodes)
      /\ n \in Nat
      /\ Once(snapshot) /\ InOrder(snapshot, Range(nodes), parents)
  BY DEF Drawn
<1> HIDE DEF n
<1>2. \A i \in 1..n : snapshot[i] \in Range(nodes)
  BY <1>1 DEF Range
<1>3. ASSUME NEW i \in 1..n, NEW j \in 1..n, j > i
      PROVE  snapshot[j] \notin above(i) \cup {snapshot[i]}
  <2>1. \A k \in 1..(i - 1) : k \in 1..n /\ k # j
    BY <1>1, <1>3
  <2> QED BY <1>1, <1>3, <2>1 DEF Once, n
<1>4. \A i \in 1..n : Above(snapshot, i) = above(i)
  BY DEF Above
<1> HIDE DEF above
<1>5. \A i, j \in 1..n :
        /\ parents[snapshot[i]] \cap Range(nodes) \subseteq above(i)
        /\ j > i /\ parents[snapshot[j]] \cap Range(nodes) \subseteq above(i)
             => Rank[snapshot[i]] < Rank[snapshot[j]]
  BY <1>1, <1>2, <1>3, <1>4 DEF InOrder, n
<1> QED BY <1>1, <1>5 DEF DisplayOrder, above, n

\* Whatever order posts and replies came in, the open thread displays each of its posts
\* once, none above its parents, the earliest first where parents leave it open
\* (getSortedPosts).
THEOREM PostsAreInOrder == Spec => []DisplayOrder
<1>1. Init => ThreadInv /\ OrderInv
  BY ThreadInvInit, OrderStarts
<1>2. ThreadInv /\ OrderInv /\ [Next]_vars => ThreadInv' /\ OrderInv'
  BY ThreadInvNext, BuiltOnceNext, RootedNext, DrawnNext DEF OrderInv
<1>3. ThreadInv /\ OrderInv => DisplayOrder
  BY DrawnInOrder DEF ThreadInv, Types, OrderInv
<1> QED BY <1>1, <1>2, <1>3, PTL DEF Spec
=============================================================================
