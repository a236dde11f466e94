----------------------- MODULE MailboxStorageProofs -----------------------
(***************************************************************************)
(* Proofs about MailboxStorage for any topics, entries, peers and limits,  *)
(* and any number of PUTs, failures, prunings and restarts: what is kept   *)
(* for others stays within its limits.                                     *)
(***************************************************************************)
EXTENDS MailboxStorage, FiniteSetTheorems, SequenceTheorems, TLAPS

\* The awaits at which the new entries have been chosen, and of these the ones before
\* the write.
Before == {"usage", "learn", "charge", "read", "write"}
Chosen == Before \cup {"settle"}
Place  == Chosen \cup {"none", "get", "count"}
Locals == [existing : SUBSET Entry, cand : SUBSET Entry, rec : SUBSET Entry, total : Nat]

Held     == Cardinality(Stored)
Of(t, S) == {t} \X S

Types ==
    /\ store \in [Topic -> SUBSET Entry] /\ old \subseteq Topic
    /\ usage \in Nat \cup {Unknown}
    /\ quota \in [Peer -> Nat] /\ lapsed \subseteq Peer
    /\ queue \in Seq(Job) /\ pc \in Place /\ (pc = "none" <=> queue = <<>>)
    /\ loc \in Locals
    /\ told \in [Slot -> Nat] /\ blind \in BOOLEAN

\* What the running job knows of its topic: pruning can only have removed since.
Chose ==
    /\ pc \in Chosen => /\ loc.cand # {} /\ loc.cand \cap loc.existing = {}
                        /\ Cardinality(loc.existing) + Cardinality(loc.cand) <= MaxPerTopic
    /\ pc = "count" => store[job.topic] = {}
    /\ pc \in Before \ {"write"} => store[job.topic] \subseteq loc.existing
    /\ pc = "write" => store[job.topic] \subseteq loc.rec /\ loc.rec \subseteq loc.existing
    /\ pc = "settle" => loc.cand \subseteq store[job.topic] /\ job.topic \notin old

\* There is room for the topic until it is written.
Roomy == pc \in Before => Cardinality(Records \cup {job.topic}) <= MaxTopics

\* The counter is behind only between the write and the settlement, and the total that
\* the job has read covers what is stored.
Counted ==
    ~blind =>
      /\ usage # Unknown /\ pc # "settle" => Held <= usage
      /\ pc \in {"learn", "charge", "read"} => Held <= loc.total
      /\ pc = "write" => Cardinality(Stored \cup Of(job.topic, loc.rec)) <= loc.total
      /\ pc = "settle" => Held <= loc.total + Cardinality(loc.cand)
      /\ pc \in {"read", "write", "settle"} => loc.total + Cardinality(loc.cand) <= MaxTotal

\* Listeners have heard only of what is stored, and not yet of what was just written.
Telling ==
    /\ \A s \in Slot : told[s] > 0 => s \in Stored
    /\ pc = "settle" => \A e \in loc.cand : told[<<job.topic, e>>] = 0

StoreInv == Types /\ Chose /\ Roomy /\ Counted /\ Telling /\ WellStored

-----------------------------------------------------------------------------
(* Sets and sequences *)

LEMMA SlotsFinite ==
    ASSUME NEW S, S \subseteq Slot
    PROVE  IsFiniteSet(S) /\ Cardinality(S) \in Nat
<1>1. IsFiniteSet(Slot)
  BY FS_Product, MailboxStorageAssumption DEF Slot
<1>2. IsFiniteSet(S)
  BY <1>1, FS_Subset
<1> QED BY <1>2, FS_CardinalityType

LEMMA EntriesFinite ==
    ASSUME NEW S, S \subseteq Entry
    PROVE  IsFiniteSet(S) /\ Cardinality(S) \in Nat
<1>1. IsFiniteSet(S)
  BY FS_Subset, MailboxStorageAssumption
<1> QED BY <1>1, FS_CardinalityType

LEMMA TopicsFinite ==
    ASSUME NEW S, S \subseteq Topic
    PROVE  IsFiniteSet(S) /\ Cardinality(S) \in Nat
<1>1. IsFiniteSet(S)
  BY FS_Subset, MailboxStorageAssumption
<1> QED BY <1>1, FS_CardinalityType

LEMMA SmallerSet ==
    ASSUME NEW T, IsFiniteSet(T), NEW S, S \subseteq T
    PROVE  Cardinality(S) <= Cardinality(T)
  BY FS_Subset

LEMMA Together ==
    ASSUME NEW S, IsFiniteSet(S), NEW T, IsFiniteSet(T)
    PROVE  IsFiniteSet(S \cup T) /\ Cardinality(S \cup T) <= Cardinality(S) + Cardinality(T)
<1>1. /\ IsFiniteSet(S \cup T)
      /\ Cardinality(S \cup T) = Cardinality(S) + Cardinality(T) - Cardinality(S \cap T)
  BY FS_Union
<1>2. IsFiniteSet(S \cap T)
  BY FS_Intersection
<1>3. Cardinality(S) \in Nat /\ Cardinality(T) \in Nat /\ Cardinality(S \cap T) \in Nat
  BY <1>2, FS_CardinalityType
<1> QED BY <1>1, <1>3

LEMMA OfSize ==
    ASSUME NEW t \in Topic, NEW S \in SUBSET Entry
    PROVE  Of(t, S) \subseteq Slot /\ Cardinality(Of(t, S)) = Cardinality(S)
<1>1. IsFiniteSet(S) /\ Cardinality(S) \in Nat
  BY EntriesFinite
<1>2. IsFiniteSet({t}) /\ Cardinality({t}) = 1
  BY FS_Singleton
<1>3. Cardinality({t} \X S) = Cardinality({t}) * Cardinality(S)
  BY <1>1, <1>2, FS_Product
<1> QED BY <1>1, <1>2, <1>3 DEF Of, Slot

LEMMA HeldNat ==
    ASSUME store \in [Topic -> SUBSET Entry]
    PROVE  /\ Held \in Nat /\ Cardinality(Records) \in Nat
           /\ DiskUsage \in Nat /\ Held <= DiskUsage
<1>1. Held \in Nat
  BY SlotsFinite DEF Held, Stored
<1>2. Cardinality(Records) \in Nat
  BY TopicsFinite DEF Records
<1>3. Seal * Cardinality(Records) \in Nat
  BY <1>2, MailboxStorageAssumption
<1> DEFINE more == Seal * Cardinality(Records)
<1>4. more \in Nat /\ DiskUsage = Held + more
  BY <1>3 DEF DiskUsage, Held
<1> HIDE DEF more
<1> QED BY <1>1, <1>2, <1>4

\* What is removed needs no room.
LEMMA Shrunk ==
    ASSUME store \in [Topic -> SUBSET Entry], store' \in [Topic -> SUBSET Entry],
           \A t \in Topic : store'[t] \subseteq store[t], NEW t \in Topic, NEW S \in SUBSET Entry
    PROVE  /\ Held' <= Held
           /\ Cardinality(Stored' \cup Of(t, S)) <= Cardinality(Stored \cup Of(t, S))
           /\ Cardinality(Records') <= Cardinality(Records)
           /\ Cardinality(Records' \cup {t}) <= Cardinality(Records \cup {t})
<1>1. /\ Stored \subseteq Slot /\ Stored' \subseteq Stored
      /\ Records \subseteq Topic /\ Records' \subseteq Records
  BY DEF Stored, Records, Slot
<1>2. Stored \cup Of(t, S) \subseteq Slot
  BY <1>1, OfSize
<1>3. IsFiniteSet(Stored) /\ IsFiniteSet(Stored \cup Of(t, S))
  BY <1>1, <1>2, SlotsFinite
<1>4. IsFiniteSet(Records) /\ IsFiniteSet(Records \cup {t})
  BY <1>1, TopicsFinite
<1>5. /\ Stored' \cup Of(t, S) \subseteq Stored \cup Of(t, S)
      /\ Records' \cup {t} \subseteq Records \cup {t}
  BY <1>1
<1> QED BY <1>1, <1>3, <1>4, <1>5, SmallerSet DEF Held

\* The job in front stays while the queue does not move.
LEMMA JobTyped ==
    ASSUME Types, pc # "none"
    PROVE  /\ job \in Job /\ job.topic \in Topic /\ job.from \in Peer
           /\ job.entries \in SUBSET Entry
<1>1. queue # <<>> /\ queue \in Seq(Job)
  BY DEF Types
<1>2. Head(queue) \in Job
  BY <1>1, HeadTailProperties
<1> QED BY <1>2 DEF job, Job
\* The parts of the invariant that a step without effect on the table keeps.
LEMMA SameStore ==
    ASSUME UNCHANGED store
    PROVE  /\ Stored' = Stored /\ Records' = Records /\ Held' = Held
           /\ TopicBound' = TopicBound /\ TopicsBound' = TopicsBound
  BY DEF Stored, Records, Held, TopicBound, TopicsBound

-----------------------------------------------------------------------------
LEMMA StoreInvInit == Init => StoreInv
<1> SUFFICES ASSUME Init PROVE StoreInv
  OBVIOUS
<1>1. Types
  <2>1. loc \in Locals
    BY DEF Init, Locals, NoLocals
  <2>2. queue \in Seq(Job)
    BY EmptySeq DEF Init
  <2>3. /\ quota \in [Peer -> Nat] /\ told \in [Slot -> Nat]
        /\ usage \in Nat \cup {Unknown} /\ store \in [Topic -> SUBSET Entry]
    BY DEF Init
  <2> QED BY <2>1, <2>2, <2>3 DEF Init, Types, Place
<1>2. Stored = {} /\ Records = {}
  BY DEF Init, Stored, Records, Slot
<1>3. /\ Cardinality({}) = 0 /\ Held = 0 /\ Cardinality(Records) = 0
  BY <1>2, FS_EmptySet DEF Held
<1>4. Chose /\ Roomy /\ Telling
  BY DEF Init, Chose, Roomy, Telling, Before, Chosen
<1>5. Counted
  BY DEF Init, Counted
<1>6. WellStored
  BY <1>3, MailboxStorageAssumption
  DEF Init, WellStored, TopicBound, TopicsBound, TotalBound, QuotaBound, ToldOnce, Held
<1> QED BY <1>1, <1>4, <1>5, <1>6 DEF StoreInv

\* A job that is over, done or not, leaves nothing behind but the counter and what the
\* listeners were told.
LEMMA LeaveKeeps ==
    ASSUME StoreInv, pc # "none", Leave, UNCHANGED <<store, old>>,
           usage' \in Nat \cup {Unknown}, ~blind' /\ usage' # Unknown => Held <= usage',
           blind' \in BOOLEAN, blind => blind',
           quota' \in [Peer -> Nat], QuotaBound', lapsed' \subseteq Peer,
           told' \in [Slot -> Nat], ToldOnce', \A s \in Slot : told'[s] > 0 => s \in Stored
    PROVE  StoreInv'
<1>1. queue # <<>> /\ queue \in Seq(Job)
  BY DEF StoreInv, Types
<1>2. Tail(queue) \in Seq(Job) /\ (Len(queue) = 1 <=> Tail(queue) = <<>>)
  <2>1. Tail(queue) \in Seq(Job) /\ Len(Tail(queue)) = Len(queue) - 1
    BY <1>1, HeadTailProperties
  <2>2. Len(queue) \in Nat
    BY <1>1, LenProperties
  <2>3. Tail(queue) = <<>> <=> Len(Tail(queue)) = 0
    BY <2>1, EmptySeq
  <2> QED BY <2>1, <2>2, <2>3
<1>3. /\ pc' \in {"none", "get"} /\ (pc' = "none" <=> queue' = <<>>)
      /\ queue' \in Seq(Job) /\ loc' = NoLocals
  BY <1>2 DEF Leave
<1>4. Types'
  BY <1>3 DEF StoreInv, Types, Place, Locals, NoLocals
<1>5. Chose' /\ Roomy'
  BY <1>3 DEF Chose, Roomy, Before, Chosen
<1>6. Counted' /\ Telling'
  BY <1>3, SameStore DEF Counted, Telling
<1>7. WellStored'
  BY SameStore DEF StoreInv, WellStored, TotalBound, Held
<1> QED BY <1>4, <1>5, <1>6, <1>7 DEF StoreInv

\* A job that goes on to its next await, and what it has to know there.
LEMMA GotoKeeps ==
    ASSUME StoreInv, pc # "none", NEW where \in Place \ {"none", "get", "settle"},
           NEW l \in Locals, Goto(where, l), UNCHANGED <<store, old, told>>,
           usage' \in Nat \cup {Unknown}, ~blind' /\ usage' # Unknown => Held <= usage',
           blind' \in BOOLEAN, blind => blind',
           quota' \in [Peer -> Nat], QuotaBound', lapsed' \subseteq Peer,
           Chose', Roomy',
           ~blind' =>
             /\ where \in {"learn", "charge", "read"} => Held <= l.total
             /\ where = "write" => Cardinality(Stored \cup Of(job.topic, l.rec)) <= l.total
             /\ where \in {"read", "write"} => l.total + Cardinality(l.cand) <= MaxTotal
    PROVE  StoreInv'
<1>1. pc' = where /\ loc' = l /\ queue' = queue /\ job' = job
  BY DEF Goto, job
<1>2. queue # <<>>
  BY DEF StoreInv, Types
<1>3. Types'
  BY <1>1, <1>2 DEF StoreInv, Types
<1>4. Counted'
  BY <1>1, SameStore DEF Counted
<1>5. Telling'
  BY <1>1, SameStore DEF StoreInv, Telling
<1>6. WellStored'
  BY SameStore DEF StoreInv, WellStored, TotalBound, ToldOnce, Held
<1> QED BY <1>3, <1>4, <1>5, <1>6 DEF StoreInv
\* A job that is refused or fails leaves all as it was.
LEMMA GivesUp ==
    ASSUME StoreInv, pc \notin {"none", "settle"}, Leave,
           UNCHANGED <<store, old, usage, told, blind>>,
           quota' \in [Peer -> Nat], QuotaBound', lapsed' \subseteq Peer
    PROVE  StoreInv'
<1>1. usage' \in Nat \cup {Unknown} /\ blind' \in BOOLEAN /\ told' \in [Slot -> Nat]
  BY DEF StoreInv, Types
<1>2. ~blind' /\ usage' # Unknown => Held <= usage'
  BY DEF StoreInv, Counted
<1>3. ToldOnce' /\ \A s \in Slot : told'[s] > 0 => s \in Stored
  BY DEF StoreInv, WellStored, ToldOnce, Telling
<1> QED BY <1>1, <1>2, <1>3, LeaveKeeps

\* What is chosen is new to what was read, and fits.
LEMMA TakeKeeps ==
    ASSUME StoreInv, pc \in {"get", "count"}, NEW existing \in SUBSET Entry, Take(existing),
           Cardinality(existing) < MaxPerTopic, store[job.topic] \subseteq existing,
           Cardinality(Records \cup {job.topic}) <= MaxTopics,
           UNCHANGED <<store, old, usage, quota, lapsed, told, blind>>
    PROVE  StoreInv'
<1> DEFINE fresh == job.entries \ existing
           room  == MaxPerTopic - Cardinality(existing)
<1>1. /\ fresh \subseteq Entry /\ IsFiniteSet(fresh) /\ Cardinality(fresh) \in Nat
      /\ Cardinality(existing) \in Nat
  <2>1. fresh \subseteq Entry
    BY JobTyped DEF StoreInv
  <2> QED BY <2>1, EntriesFinite
<1>2. room \in Nat \ {0}
  BY <1>1, MailboxStorageAssumption
<1>3. /\ quota' \in [Peer -> Nat] /\ QuotaBound' /\ lapsed' \subseteq Peer
      /\ usage' \in Nat \cup {Unknown} /\ blind' \in BOOLEAN
      /\ ~blind' /\ usage' # Unknown => Held <= usage'
  BY DEF StoreInv, Types, WellStored, QuotaBound, Counted
<1>4. CASE fresh = {}
  BY <1>3, <1>4, GivesUp DEF Take
<1>5. CASE fresh # {}
  <2>1. PICK cand \in SUBSET fresh :
          /\ Cardinality(cand) = Smaller(room, Cardinality(fresh))
          /\ Goto("usage", [existing |-> existing, cand |-> cand, rec |-> {}, total |-> 0])
    BY <1>5 DEF Take
  <2> DEFINE l == [existing |-> existing, cand |-> cand, rec |-> {}, total |-> 0]
  <2>2. Cardinality(fresh) # 0
    BY <1>1, <1>5, FS_EmptySet
  <2>3. /\ Cardinality(cand) \in Nat \ {0} /\ Cardinality(cand) <= room
    BY <1>1, <1>2, <2>1, <2>2 DEF Smaller
  <2>4. cand # {} /\ cand \cap existing = {} /\ cand \subseteq Entry
    BY <1>1, <2>3, FS_EmptySet
  <2>5. /\ l \in Locals /\ l.existing = existing /\ l.cand = cand
    BY <2>4 DEF Locals
  <2>6. Goto("usage", l)
    BY <2>1
  <2> HIDE DEF l
  <2>7. pc' = "usage" /\ loc' = l /\ job' = job /\ store' = store /\ Records' = Records
    BY <2>6, SameStore DEF Goto, job
  <2>8. Chose'
    <3>1. Cardinality(existing) + Cardinality(cand) <= MaxPerTopic
      BY <1>1, <1>2, <2>3, MailboxStorageAssumption
    <3>2. loc'.existing = existing /\ loc'.cand = cand /\ (store[job.topic])' = store[job.topic]
      BY <2>5, <2>7
    <3> QED BY <2>4, <2>7, <3>1, <3>2 DEF Chose, Before
  <2>9. Roomy'
    BY <2>7 DEF Roomy
  <2>10. "usage" \in Place \ {"none", "get", "settle"}
    BY DEF Place, Chosen, Before
  <2> QED BY <1>3, <2>5, <2>6, <2>8, <2>9, <2>10, GotoKeeps
<1> QED BY <1>4, <1>5

LEMMA AcceptGetKeeps ==
    ASSUME StoreInv, AcceptGet
    PROVE  StoreInv'
<1> DEFINE t == job.topic
<1>1. /\ pc = "get" /\ UNCHANGED <<store, old, usage, quota, lapsed, told, blind>>
  BY DEF AcceptGet
<1>2. /\ t \in Topic /\ store[t] \in SUBSET Entry /\ Cardinality(store[t]) \in Nat
  BY <1>1, JobTyped, EntriesFinite DEF StoreInv, Types
<1>3. /\ quota' \in [Peer -> Nat] /\ QuotaBound' /\ lapsed' \subseteq Peer
      /\ usage' \in Nat \cup {Unknown} /\ blind' \in BOOLEAN
      /\ ~blind' /\ usage' # Unknown => Held <= usage'
  BY <1>1 DEF StoreInv, Types, WellStored, QuotaBound, Counted
<1>4. CASE Leave
  BY <1>1, <1>3, <1>4, GivesUp
<1>5. CASE store[t] = {} /\ Goto("count", NoLocals)
  <2>1. pc' = "count" /\ job' = job /\ store' = store
    BY <1>1, <1>5 DEF Goto, job
  <2>2. Chose' /\ Roomy'
    BY <1>5, <2>1 DEF Chose, Roomy, Before, Chosen
  <2>3. NoLocals \in Locals /\ "count" \in Place \ {"none", "get", "settle"}
    BY DEF NoLocals, Locals, Place
  <2> QED BY <1>1, <1>3, <1>5, <2>2, <2>3, GotoKeeps
<1>6. CASE /\ store[t] # {} /\ Cardinality(store[t]) < MaxPerTopic /\ Take(store[t])
  <2>1. Records \cup {t} = Records /\ Cardinality(Records) <= MaxTopics
    BY <1>2, <1>6 DEF Records, StoreInv, WellStored, TopicsBound
  <2> QED BY <1>1, <1>2, <1>6, <2>1, TakeKeeps
<1>7. MaxPerTopic \in Nat
  BY MailboxStorageAssumption
<1> QED BY <1>2, <1>4, <1>5, <1>6, <1>7 DEF AcceptGet

LEMMA AcceptCountKeeps ==
    ASSUME StoreInv, AcceptCount
    PROVE  StoreInv'
<1> DEFINE t == job.topic
<1>1. /\ pc = "count" /\ UNCHANGED <<store, old, usage, quota, lapsed, told, blind>>
      /\ t \in Topic /\ store[t] = {}
  BY JobTyped DEF AcceptCount, StoreInv, Chose
<1>2. CASE Leave
  BY <1>1, <1>2, GivesUp DEF StoreInv, Types, WellStored, QuotaBound
<1>3. CASE Cardinality(Records) < MaxTopics /\ Take({})
  <2>1. Cardinality({}) < MaxPerTopic
    BY FS_EmptySet, MailboxStorageAssumption
  <2>2. IsFiniteSet(Records) /\ Cardinality(Records) \in Nat
    BY TopicsFinite DEF Records
  <2>3. t \notin Records
    BY <1>1 DEF Records
  <2> HIDE DEF t
  <2>4. Cardinality(Records \cup {t}) = Cardinality(Records) + 1
    BY <2>2, <2>3, FS_AddElement
  <2>5. Cardinality(Records \cup {t}) <= MaxTopics
    BY <1>3, <2>2, <2>4, MailboxStorageAssumption
  <2> USE DEF t
  <2> QED BY <1>1, <1>3, <2>1, <2>5, TakeKeeps
<1>4. Cardinality(Records) \in Nat /\ MaxTopics \in Nat
  BY TopicsFinite, MailboxStorageAssumption DEF Records
<1> QED BY <1>2, <1>3, <1>4 DEF AcceptCount
\* Before it reads for the write, a job keeps what it chose.
LEMMA ChoiceStays ==
    ASSUME StoreInv, pc \in Before \ {"write"}, NEW where \in Before \ {"write"}, NEW l,
           l.existing = loc.existing, l.cand = loc.cand, Goto(where, l),
           UNCHANGED <<store, old>>
    PROVE  Chose' /\ Roomy'
<1>1. pc' = where /\ loc' = l /\ job' = job /\ Records' = Records
      /\ (store[job.topic])' = store[job.topic]
  BY SameStore DEF Goto, job
<1>2. Chose'
  BY <1>1 DEF StoreInv, Chose, Before, Chosen
<1>3. Roomy'
  BY <1>1 DEF StoreInv, Roomy
<1> QED BY <1>2, <1>3

LEMMA AcceptUsageKeeps ==
    ASSUME StoreInv, AcceptUsage
    PROVE  StoreInv'
<1>1. /\ pc = "usage" /\ pc # "none" /\ pc \in Before \ {"write"}
      /\ UNCHANGED <<store, old, usage, quota, lapsed, told>>
  BY DEF AcceptUsage, Before
<1>2. /\ loc \in Locals /\ usage' \in Nat \cup {Unknown} /\ blind \in BOOLEAN
      /\ quota' \in [Peer -> Nat] /\ QuotaBound' /\ lapsed' \subseteq Peer
      /\ ~blind /\ usage # Unknown => Held <= usage
  BY <1>1 DEF StoreInv, Types, WellStored, QuotaBound, Counted
<1>3. ASSUME NEW where \in {"charge", "learn"}, NEW n \in Nat,
             Goto(where, [loc EXCEPT !.total = n]), blind' \in BOOLEAN, blind => blind',
             ~blind' => Held <= n
      PROVE  StoreInv'
  <2> DEFINE l == [loc EXCEPT !.total = n]
  <2>1. /\ l \in Locals /\ l.existing = loc.existing /\ l.cand = loc.cand /\ l.total = n
    BY <1>2 DEF Locals
  <2>2. Goto(where, l)
    BY <1>3
  <2>3. /\ where \in Before \ {"write"} /\ where \in Place \ {"none", "get", "settle"}
        /\ where \notin {"read", "write"}
    BY <1>3 DEF Before, Place, Chosen
  <2> HIDE DEF l
  <2>4. Chose' /\ Roomy'
    BY <1>1, <2>1, <2>2, <2>3, ChoiceStays
  <2>5. ~blind' /\ usage' # Unknown => Held <= usage'
    BY <1>1, <1>2, <1>3
  <2>6. ~blind' => Held <= l.total
    BY <1>3, <2>1
  <2> QED BY <1>1, <1>2, <1>3, <2>1, <2>2, <2>3, <2>4, <2>5, <2>6, GotoKeeps
<1>4. CASE usage # Unknown /\ Goto("charge", [loc EXCEPT !.total = usage]) /\ blind' = blind
  <2>1. usage \in Nat
    BY <1>1, <1>2, <1>4
  <2> QED BY <1>2, <1>3, <1>4, <2>1
<1>5. CASE usage = Unknown /\ Goto("learn", [loc EXCEPT !.total = DiskUsage]) /\ blind' = blind
  <2>1. DiskUsage \in Nat /\ Held <= DiskUsage
    BY HeldNat DEF StoreInv, Types
  <2> QED BY <1>2, <1>3, <1>5, <2>1
<1>6. CASE Goto("learn", [loc EXCEPT !.total = 0]) /\ blind' = TRUE
  BY <1>3, <1>6
<1> QED BY <1>4, <1>5, <1>6 DEF AcceptUsage

LEMMA AcceptLearnKeeps ==
    ASSUME StoreInv, AcceptLearn
    PROVE  StoreInv'
<1>1. /\ pc = "learn" /\ pc # "none" /\ pc \in Before \ {"write"} /\ Goto("charge", loc)
      /\ UNCHANGED <<store, old, quota, lapsed, told, blind>> /\ usage' = loc.total
  BY DEF AcceptLearn, Before
<1>2. /\ loc \in Locals /\ loc.total \in Nat /\ blind' \in BOOLEAN
      /\ quota' \in [Peer -> Nat] /\ QuotaBound' /\ lapsed' \subseteq Peer
  BY <1>1 DEF StoreInv, Types, WellStored, QuotaBound, Locals
<1>3. ~blind' => Held <= loc.total
  BY <1>1 DEF StoreInv, Counted
<1>4. "charge" \in Before \ {"write"} /\ "charge" \in Place \ {"none", "get", "settle"}
  BY DEF Before, Place, Chosen
<1>5. Chose' /\ Roomy'
  BY <1>1, <1>4, ChoiceStays
<1> QED BY <1>1, <1>2, <1>3, <1>4, <1>5, GotoKeeps

LEMMA AcceptChargeKeeps ==
    ASSUME StoreInv, AcceptCharge
    PROVE  StoreInv'
<1> DEFINE bytes == Cardinality(loc.cand)
           p     == job.from
           ok    == Fits(bytes) /\ (p # Self => WithinQuota(p, bytes))
<1>1. /\ pc = "charge" /\ pc \in Before \ {"write"}
      /\ UNCHANGED <<store, old, usage, told, blind>>
  BY DEF AcceptCharge, Before
<1>2. /\ loc \in Locals /\ p \in Peer /\ bytes \in Nat /\ blind' \in BOOLEAN
      /\ usage' \in Nat \cup {Unknown} /\ quota \in [Peer -> Nat] /\ lapsed \subseteq Peer
  BY <1>1, JobTyped, EntriesFinite DEF StoreInv, Types, Locals
<1>3. ~blind => (usage # Unknown => Held <= usage) /\ Held <= loc.total
  BY <1>1 DEF StoreInv, Counted
<1>4. \A q \in Peer : quota[q] <= MaxPerHour
  BY DEF StoreInv, WellStored, QuotaBound
<1>5. MaxPerHour \in Nat
  BY MailboxStorageAssumption
<1>6. Charged(p) \in Nat /\ Charged(p) <= MaxPerHour
  BY <1>2, <1>4, <1>5 DEF Charged
<1>7. lapsed' \subseteq Peer /\ quota' \in [Peer -> Nat] /\ QuotaBound'
  <2>1. CASE Fits(bytes) /\ p # Self
    <3> DEFINE n == Charged(p) + (IF ok THEN bytes ELSE 0)
    <3>1. n \in Nat /\ n <= MaxPerHour
      BY <1>2, <1>5, <1>6, <2>1 DEF WithinQuota
    <3>2. lapsed' = lapsed \ {p} /\ quota' = [quota EXCEPT ![p] = n]
      BY <2>1 DEF AcceptCharge
    <3> HIDE DEF n, p
    <3> QED BY <1>2, <1>4, <3>1, <3>2 DEF QuotaBound
  <2>2. CASE ~(Fits(bytes) /\ p # Self)
    BY <1>2, <1>4, <2>2 DEF AcceptCharge, QuotaBound
  <2> QED BY <2>1, <2>2
<1>8. CASE ~ok
  <2>1. Leave
    BY <1>8 DEF AcceptCharge
  <2> QED BY <1>1, <1>7, <2>1, GivesUp
<1>9. CASE ok
  <2>1. Goto("read", loc) /\ loc.total + bytes <= MaxTotal
    BY <1>9 DEF AcceptCharge, Fits
  <2>2. "read" \in Before \ {"write"} /\ "read" \in Place \ {"none", "get", "settle"}
    BY DEF Before, Place, Chosen
  <2>3. Chose' /\ Roomy'
    BY <1>1, <2>1, <2>2, ChoiceStays
  <2> QED BY <1>1, <1>2, <1>3, <1>7, <2>1, <2>2, <2>3, GotoKeeps
<1> QED BY <1>8, <1>9
\* What is stored of the topic was there when the job chose, so the write is needed.
LEMMA PutReadKeeps ==
    ASSUME StoreInv, PutRead
    PROVE  StoreInv'
<1> DEFINE rec == store[job.topic]
           l   == [loc EXCEPT !.rec = rec]
<1>1. /\ pc = "read" /\ pc \in Before \ {"write"} /\ pc \in Chosen
      /\ UNCHANGED <<store, old, usage, quota, lapsed, told, blind>>
  BY DEF PutRead, Before, Chosen
<1>2. /\ loc \in Locals /\ job.topic \in Topic /\ rec \in SUBSET Entry
      /\ store \in [Topic -> SUBSET Entry]
      /\ usage' \in Nat \cup {Unknown} /\ blind' \in BOOLEAN
      /\ quota' \in [Peer -> Nat] /\ QuotaBound' /\ lapsed' \subseteq Peer
  BY <1>1, JobTyped DEF StoreInv, Types, WellStored, QuotaBound
<1>3. /\ l \in Locals /\ l.existing = loc.existing /\ l.cand = loc.cand /\ l.rec = rec
      /\ l.total = loc.total
  BY <1>2 DEF Locals
<1>4. /\ loc.cand # {} /\ loc.cand \cap loc.existing = {} /\ rec \subseteq loc.existing
      /\ Cardinality(loc.existing) + Cardinality(loc.cand) <= MaxPerTopic
  BY <1>1 DEF StoreInv, Chose
<1>5. Goto("write", l)
  BY <1>4 DEF PutRead
<1>6. "write" \in Place \ {"none", "get", "settle"}
  BY DEF Place, Chosen, Before
<1> HIDE DEF l
<1>7. pc' = "write" /\ loc' = l /\ job' = job /\ (store[job.topic])' = rec /\ Records' = Records
  BY <1>1, <1>5, SameStore DEF Goto, job
<1>8. Chose'
  BY <1>3, <1>4, <1>7 DEF Chose, Before
<1>9. Roomy'
  BY <1>1, <1>7 DEF StoreInv, Roomy
<1>10. Stored \cup Of(job.topic, rec) = Stored
  <2>1. Of(job.topic, rec) \subseteq Stored
    BY <1>2 DEF Of, Stored, Slot
  <2> QED BY <2>1
<1>11. ~blind' =>
         /\ usage' # Unknown => Held <= usage'
         /\ Cardinality(Stored \cup Of(job.topic, l.rec)) <= l.total
         /\ l.total + Cardinality(l.cand) <= MaxTotal
  BY <1>1, <1>3, <1>10 DEF StoreInv, Counted, Held
<1> QED BY <1>1, <1>2, <1>3, <1>5, <1>6, <1>8, <1>9, <1>11, GotoKeeps

\* The one step that adds to the table, several awaits after the job looked at it.
LEMMA PutWriteKeeps ==
    ASSUME StoreInv, PutWrite
    PROVE  StoreInv'
<1> DEFINE t   == job.topic
           new == loc.rec \cup loc.cand
<1>1. /\ pc = "write" /\ pc \in Before /\ pc \in Chosen /\ pc # "none"
      /\ store' = [store EXCEPT ![t] = new] /\ old' = old \ {t}
      /\ pc' = "settle" /\ loc' = loc /\ queue' = queue /\ job' = job
      /\ UNCHANGED <<usage, quota, lapsed, told, blind>>
  BY DEF PutWrite, Before, Chosen, Goto, job
<1>2. /\ t \in Topic /\ loc \in Locals /\ store \in [Topic -> SUBSET Entry]
      /\ loc.rec \in SUBSET Entry /\ loc.cand \in SUBSET Entry /\ loc.existing \in SUBSET Entry
      /\ loc.total \in Nat
  BY <1>1, JobTyped DEF StoreInv, Types, Locals
<1>3. /\ store[t] \subseteq loc.rec /\ loc.rec \subseteq loc.existing
      /\ loc.cand # {} /\ loc.cand \cap loc.existing = {}
      /\ Cardinality(loc.existing) + Cardinality(loc.cand) <= MaxPerTopic
      /\ Cardinality(Records \cup {t}) <= MaxTopics
  BY <1>1 DEF StoreInv, Chose, Roomy
<1>4. /\ store' \in [Topic -> SUBSET Entry] /\ store'[t] = new
      /\ \A u \in Topic \ {t} : store'[u] = store[u]
  BY <1>1, <1>2
<1>5. Types'
  <2>1. "settle" \in Place /\ queue # <<>>
    BY <1>1 DEF StoreInv, Types, Place, Chosen
  <2> QED BY <1>1, <1>2, <1>4, <2>1 DEF StoreInv, Types
<1> HIDE DEF t
<1>6. Chose'
  <2>1. (store[job.topic])' = new /\ (job.topic)' \notin old'
    BY <1>1, <1>4 DEF t
  <2> QED BY <1>1, <1>3, <2>1 DEF Chose, Before
<1>7. Roomy'
  BY <1>1 DEF Roomy, Before
<1>8. Stored \subseteq Stored' /\ Stored' \subseteq (Stored \cup Of(t, loc.rec)) \cup Of(t, loc.cand)
  BY <1>2, <1>3, <1>4 DEF Stored, Slot, Of
<1>9. Records' \subseteq Records \cup {t}
  BY <1>2, <1>4 DEF Records
<1>10. Held' <= Cardinality(Stored \cup Of(t, loc.rec)) + Cardinality(loc.cand)
  <2> DEFINE A == Stored \cup Of(t, loc.rec)
             B == Of(t, loc.cand)
  <2>1. A \subseteq Slot /\ B \subseteq Slot /\ Cardinality(B) = Cardinality(loc.cand)
    BY <1>2, OfSize DEF Stored
  <2>2. /\ IsFiniteSet(A) /\ IsFiniteSet(B) /\ Cardinality(A) \in Nat /\ Cardinality(B) \in Nat
    BY <2>1, SlotsFinite
  <2>3. Stored' \subseteq A \cup B /\ A \cup B \subseteq Slot
    BY <1>8, <2>1
  <2> HIDE DEF A, B
  <2>4. IsFiniteSet(A \cup B) /\ Cardinality(A \cup B) <= Cardinality(A) + Cardinality(B)
    BY <2>2, Together
  <2>5. Cardinality(Stored') <= Cardinality(A \cup B)
    BY <2>3, <2>4, SmallerSet
  <2>6. Cardinality(Stored') \in Nat /\ Cardinality(A \cup B) \in Nat
    BY <2>3, SlotsFinite
  <2>7. Cardinality(Stored') <= Cardinality(A) + Cardinality(loc.cand)
    BY <2>1, <2>2, <2>4, <2>5, <2>6
  <2> QED BY <2>7 DEF Held, A
<1>11. /\ Held' \in Nat /\ Cardinality(Stored \cup Of(t, loc.rec)) \in Nat
       /\ Cardinality(loc.cand) \in Nat /\ Cardinality(loc.existing) \in Nat
       /\ MaxTotal \in Nat /\ MaxTopics \in Nat /\ MaxPerTopic \in Nat
  <2>1. Stored' \subseteq Slot /\ Stored \cup Of(t, loc.rec) \subseteq Slot
    BY <1>2, OfSize DEF Stored, Slot
  <2> QED BY <1>2, <2>1, SlotsFinite, EntriesFinite, MailboxStorageAssumption DEF Held
<1>12. ~blind => /\ Held' <= loc.total + Cardinality(loc.cand)
                 /\ loc.total + Cardinality(loc.cand) <= MaxTotal
  <2>1. ~blind => /\ Cardinality(Stored \cup Of(t, loc.rec)) <= loc.total
                  /\ loc.total + Cardinality(loc.cand) <= MaxTotal
    BY <1>1 DEF StoreInv, Counted, t
  <2> QED BY <1>2, <1>10, <1>11, <2>1
<1>13. Counted'
  BY <1>1, <1>12 DEF Counted
<1>14. Telling'
  <2>1. \A s \in Slot : told[s] > 0 => s \in Stored'
    BY <1>8 DEF StoreInv, Telling
  <2>2. ASSUME NEW e \in loc.cand PROVE told[<<t, e>>] = 0
    <3>1. <<t, e>> \in Slot /\ <<t, e>> \notin Stored
      BY <1>2, <1>3 DEF Slot, Stored
    <3>2. told[<<t, e>>] \in Nat /\ ~(told[<<t, e>>] > 0)
      BY <3>1 DEF StoreInv, Types, Telling
    <3> QED BY <3>2
  <2> QED BY <1>1, <2>1, <2>2 DEF Telling, t
<1>15. WellStored'
  <2>1. TopicBound'
    <3>1. Cardinality(new) <= MaxPerTopic
      <4>1. new \subseteq loc.existing \cup loc.cand
        BY <1>3
      <4>2. IsFiniteSet(loc.existing) /\ IsFiniteSet(loc.cand)
        BY <1>2, EntriesFinite
      <4>3. /\ IsFiniteSet(loc.existing \cup loc.cand)
            /\ Cardinality(loc.existing \cup loc.cand)
                 <= Cardinality(loc.existing) + Cardinality(loc.cand)
        BY <4>2, Together
      <4>4. Cardinality(new) <= Cardinality(loc.existing \cup loc.cand)
        BY <4>1, <4>3, SmallerSet
      <4>5. Cardinality(new) \in Nat /\ Cardinality(loc.existing \cup loc.cand) \in Nat
        BY <1>2, EntriesFinite
      <4> QED BY <1>3, <1>11, <4>3, <4>4, <4>5
    <3> QED BY <1>4, <3>1 DEF StoreInv, WellStored, TopicBound
  <2>2. TopicsBound'
    <3>1. Records \cup {t} \subseteq Topic /\ Records' \subseteq Topic
      BY <1>2 DEF Records
    <3>2. /\ IsFiniteSet(Records \cup {t}) /\ Cardinality(Records \cup {t}) \in Nat
          /\ Cardinality(Records') \in Nat
      BY <3>1, TopicsFinite
    <3>3. Cardinality(Records') <= Cardinality(Records \cup {t})
      BY <1>9, <3>2, SmallerSet
    <3> QED BY <1>3, <1>11, <3>2, <3>3 DEF TopicsBound
  <2>3. TotalBound'
    <3>1. ~blind' => Held' <= MaxTotal
      BY <1>1, <1>2, <1>11, <1>12
    <3> QED BY <3>1 DEF TotalBound, Held
  <2>4. QuotaBound' /\ ToldOnce'
    BY <1>1 DEF StoreInv, WellStored, QuotaBound, ToldOnce
  <2> QED BY <2>1, <2>2, <2>3, <2>4 DEF WellStored
<1> QED BY <1>5, <1>6, <1>7, <1>13, <1>14, <1>15 DEF StoreInv
\* The counter catches up with the write, whatever was pruned in between.
LEMMA AcceptSettleKeeps ==
    ASSUME StoreInv, AcceptSettle
    PROVE  StoreInv'
<1>1. /\ pc = "settle" /\ pc # "none" /\ pc \in Chosen /\ Leave
      /\ usage' = loc.total + Cardinality(loc.cand)
      /\ UNCHANGED <<store, old, quota, lapsed, blind>>
  BY DEF AcceptSettle, Chosen
<1>2. /\ loc \in Locals /\ job.topic \in Topic /\ loc.cand \in SUBSET Entry /\ loc.total \in Nat
      /\ quota' \in [Peer -> Nat] /\ QuotaBound' /\ lapsed' \subseteq Peer
      /\ told \in [Slot -> Nat] /\ blind' \in BOOLEAN
  BY <1>1, JobTyped DEF StoreInv, Types, Locals, WellStored, QuotaBound
<1>3. usage' \in Nat
  BY <1>1, <1>2, EntriesFinite
<1>4. ~blind => Held <= loc.total + Cardinality(loc.cand)
  BY <1>1 DEF StoreInv, Counted
<1>5. /\ loc.cand \subseteq store[job.topic] /\ \A e \in loc.cand : told[<<job.topic, e>>] = 0
      /\ \A s \in Slot : told[s] <= 1 /\ (told[s] > 0 => s \in Stored)
  BY <1>1 DEF StoreInv, Chose, Telling, WellStored, ToldOnce
<1>6. told' \in [Slot -> Nat] /\ ToldOnce' /\ \A s \in Slot : told'[s] > 0 => s \in Stored
  <2>1. CASE job.from = Self
    BY <1>2, <1>5, <2>1 DEF AcceptSettle, ToldOnce
  <2>2. CASE job.from # Self
    <3> DEFINE heard(s) == s[1] = job.topic /\ s[2] \in loc.cand
    <3>1. told' = [s \in Slot |-> IF heard(s) THEN Smaller(told[s] + 1, 2) ELSE told[s]]
      BY <2>2 DEF AcceptSettle
    <3>2. ASSUME NEW s \in Slot, heard(s) PROVE told[s] = 0 /\ s \in Stored
      <4>1. s = <<job.topic, s[2]>> /\ s[2] \in loc.cand
        BY <3>2 DEF Slot
      <4> QED BY <1>5, <4>1, <3>2 DEF Stored
    <3> HIDE DEF heard
    <3>3. ASSUME NEW s \in Slot
          PROVE  told'[s] \in Nat /\ told'[s] <= 1 /\ (told'[s] > 0 => s \in Stored)
      <4>1. CASE heard(s)
        BY <3>1, <3>2, <4>1 DEF Smaller
      <4>2. CASE ~heard(s)
        BY <1>2, <1>5, <3>1, <4>2
      <4> QED BY <4>1, <4>2
    <3> QED BY <3>1, <3>3 DEF ToldOnce
  <2> QED BY <2>1, <2>2
<1>7. ~blind' /\ usage' # Unknown => Held <= usage'
  BY <1>1, <1>4
<1> QED BY <1>1, <1>2, <1>3, <1>6, <1>7, LeaveKeeps

LEMMA StoreFailsKeeps ==
    ASSUME StoreInv, StoreFails
    PROVE  StoreInv'
<1>1. /\ pc \notin {"none", "settle"} /\ Leave
      /\ UNCHANGED <<store, old, usage, quota, lapsed, told, blind>>
  BY DEF StoreFails
<1>2. quota' \in [Peer -> Nat] /\ QuotaBound' /\ lapsed' \subseteq Peer
  BY <1>1 DEF StoreInv, Types, WellStored, QuotaBound
<1> QED BY <1>1, <1>2, GivesUp

\* A job that joins a queue at work waits; in an empty one it begins.
LEMMA PutArrivesKeeps ==
    ASSUME StoreInv, NEW j \in Job, PutArrives(j)
    PROVE  StoreInv'
<1>1. /\ queue' = Append(queue, j) /\ pc' = IF queue = <<>> THEN "get" ELSE pc
      /\ UNCHANGED <<store, old, usage, quota, lapsed, loc, told, blind>>
  BY DEF PutArrives
<1>2. queue \in Seq(Job) /\ (pc = "none" <=> queue = <<>>)
  BY DEF StoreInv, Types
<1>3. queue' \in Seq(Job) /\ queue' # <<>>
  BY <1>1, <1>2, AppendProperties
<1>4. Types'
  <2>1. pc' \in Place /\ pc' # "none"
    BY <1>1, <1>2 DEF StoreInv, Types, Place
  <2> QED BY <1>1, <1>3, <2>1 DEF StoreInv, Types
<1>5. WellStored'
  BY <1>1, SameStore
  DEF StoreInv, WellStored, TotalBound, QuotaBound, ToldOnce, Held
<1>6. CASE pc = "none"
  <2>1. pc' = "get"
    BY <1>1, <1>2, <1>6
  <2>2. Chose' /\ Roomy'
    BY <2>1 DEF Chose, Roomy, Before, Chosen
  <2>3. Counted' /\ Telling'
    BY <1>1, <1>6, <2>1, SameStore DEF StoreInv, Counted, Telling
  <2> QED BY <1>4, <1>5, <2>2, <2>3 DEF StoreInv
<1>7. CASE pc # "none"
  <2>1. pc' = pc /\ job' = job
    <3>1. Len(queue) \in Nat \ {0} /\ Head(queue) = queue[1] /\ Head(queue') = queue'[1]
      BY <1>2, <1>3, <1>7, EmptySeq
    <3>2. queue'[1] = queue[1]
      BY <1>1, <1>2, <3>1, AppendProperties
    <3> QED BY <1>1, <1>2, <1>7, <3>1, <3>2 DEF job
  <2>2. Chose' /\ Roomy'
    BY <1>1, <2>1, SameStore DEF StoreInv, Chose, Roomy
  <2>3. Counted' /\ Telling'
    BY <1>1, <2>1, SameStore DEF StoreInv, Counted, Telling
  <2> QED BY <1>4, <1>5, <2>2, <2>3 DEF StoreInv
<1> QED BY <1>6, <1>7

-----------------------------------------------------------------------------
(* Pruning, time and restarts *)

\* The table shrinks under a job that has looked at it already.
LEMMA PruneStoreKeeps ==
    ASSUME StoreInv, PruneStore
    PROVE  StoreInv'
<1>1. UNCHANGED <<usage, quota, lapsed, queue, pc, loc, blind>> /\ job' = job
  BY DEF PruneStore, job
<1>2. /\ store \in [Topic -> SUBSET Entry] /\ told \in [Slot -> Nat] /\ old \subseteq Topic
  BY DEF StoreInv, Types
<1>3. /\ store' \in [Topic -> SUBSET Entry] /\ told' \in [Slot -> Nat]
      /\ \A t \in Topic : store'[t] = store[t] \/ (store'[t] = {} /\ t \in old)
      /\ old' \subseteq old
      /\ \A s \in Slot : /\ told'[s] \in {0, told[s]}
                         /\ told'[s] > 0 => store'[s[1]] = store[s[1]]
  BY <1>2 DEF PruneStore, Slot
<1>4. \A t \in Topic : store'[t] \subseteq store[t]
  BY <1>3
<1>5. Types'
  BY <1>1, <1>2, <1>3 DEF StoreInv, Types
<1>6. pc # "none" => job.topic \in Topic
  BY JobTyped DEF StoreInv
<1>7. Chose'
  <2>1. CASE pc = "none"
    BY <1>1, <2>1 DEF Chose, Before, Chosen
  <2>2. CASE pc # "none"
    <3>1. /\ store'[job.topic] \subseteq store[job.topic]
          /\ job.topic \notin old => store'[job.topic] = store[job.topic]
      BY <1>3, <1>4, <1>6, <2>2
    <3>2. (store[job.topic])' = store'[job.topic]
      BY <1>1
    <3> QED BY <1>1, <1>3, <3>1, <3>2 DEF StoreInv, Chose
  <2> QED BY <2>1, <2>2
<1>8. /\ Held' <= Held /\ Cardinality(Records') <= Cardinality(Records)
      /\ Held \in Nat /\ Held' \in Nat
      /\ Cardinality(Records) \in Nat /\ Cardinality(Records') \in Nat
  <2>1. Held \in Nat /\ Cardinality(Records) \in Nat
    BY <1>2, HeldNat
  <2>2. Held' \in Nat /\ Cardinality(Records') \in Nat
    BY <1>3, SlotsFinite, TopicsFinite DEF Held, Stored, Records
  <2>3. /\ Stored' \subseteq Stored /\ Stored \subseteq Slot
        /\ Records' \subseteq Records /\ Records \subseteq Topic
    BY <1>4 DEF Stored, Records, Slot
  <2>4. IsFiniteSet(Stored) /\ IsFiniteSet(Records)
    BY <2>3, SlotsFinite, TopicsFinite
  <2> QED BY <2>1, <2>2, <2>3, <2>4, SmallerSet DEF Held
<1>9. Roomy'
  <2> SUFFICES ASSUME pc \in Before PROVE Cardinality(Records' \cup {job.topic}) <= MaxTopics
    BY <1>1 DEF Roomy
  <2>1. job.topic \in Topic
    BY <1>6 DEF Before
  <2>2. Cardinality(Records \cup {job.topic}) <= MaxTopics
    BY DEF StoreInv, Roomy
  <2>3. {} \in SUBSET Entry
    OBVIOUS
  <2>4. Cardinality(Records' \cup {job.topic}) <= Cardinality(Records \cup {job.topic})
    BY <1>2, <1>3, <1>4, <2>1, <2>3, Shrunk
  <2>5. Records' \cup {job.topic} \subseteq Topic /\ Records \cup {job.topic} \subseteq Topic
    BY <2>1 DEF Records
  <2>6. /\ Cardinality(Records' \cup {job.topic}) \in Nat
        /\ Cardinality(Records \cup {job.topic}) \in Nat
    BY <2>5, TopicsFinite
  <2> QED BY <2>2, <2>4, <2>6, MailboxStorageAssumption
<1>10. Counted'
  <2>1. loc \in Locals /\ usage \in Nat \cup {Unknown}
    BY DEF StoreInv, Types
  <2>2. loc.total \in Nat /\ loc.cand \in SUBSET Entry /\ loc.rec \in SUBSET Entry
    BY <2>1 DEF Locals
  <2>3. Cardinality(loc.cand) \in Nat
    BY <2>2, EntriesFinite
  <2>4. pc = "write" /\ ~blind => Cardinality(Stored' \cup Of(job.topic, loc.rec)) <= loc.total
    <3> SUFFICES ASSUME pc = "write", ~blind
                 PROVE  Cardinality(Stored' \cup Of(job.topic, loc.rec)) <= loc.total
      OBVIOUS
    <3>1. job.topic \in Topic
      BY <1>6
    <3>2. Cardinality(Stored \cup Of(job.topic, loc.rec)) <= loc.total
      BY DEF StoreInv, Counted
    <3>3. Cardinality(Stored' \cup Of(job.topic, loc.rec))
            <= Cardinality(Stored \cup Of(job.topic, loc.rec))
      BY <1>2, <1>3, <1>4, <2>2, <3>1, Shrunk
    <3>4. /\ Stored' \cup Of(job.topic, loc.rec) \subseteq Slot
          /\ Stored \cup Of(job.topic, loc.rec) \subseteq Slot
      BY <2>2, <3>1, OfSize DEF Stored, Slot
    <3>5. /\ Cardinality(Stored' \cup Of(job.topic, loc.rec)) \in Nat
          /\ Cardinality(Stored \cup Of(job.topic, loc.rec)) \in Nat
      BY <3>4, SlotsFinite
    <3> QED BY <2>2, <3>2, <3>3, <3>5
  <2>5. ~blind =>
          /\ usage # Unknown /\ pc # "settle" => Held' <= usage
          /\ pc \in {"learn", "charge", "read"} => Held' <= loc.total
          /\ pc = "settle" => Held' <= loc.total + Cardinality(loc.cand)
          /\ pc \in {"read", "write", "settle"} => loc.total + Cardinality(loc.cand) <= MaxTotal
    BY <1>8, <2>1, <2>2, <2>3 DEF StoreInv, Counted
  <2> QED BY <1>1, <2>4, <2>5 DEF Counted
<1>11. Telling'
  <2>1. ASSUME NEW s \in Slot, told'[s] > 0 PROVE s \in Stored'
    <3>1. told[s] > 0 /\ store'[s[1]] = store[s[1]]
      BY <1>3, <2>1
    <3>2. s \in Stored
      BY <3>1 DEF StoreInv, Telling
    <3> QED BY <3>1, <3>2 DEF Stored
  <2>2. ASSUME pc = "settle", NEW e \in loc.cand PROVE told'[<<job.topic, e>>] = 0
    <3>1. told[<<job.topic, e>>] = 0
      BY <2>2 DEF StoreInv, Telling
    <3>2. <<job.topic, e>> \in Slot
      BY <1>6, <2>2 DEF StoreInv, Types, Locals, Slot
    <3> QED BY <1>3, <3>1, <3>2
  <2> QED BY <1>1, <2>1, <2>2 DEF Telling
<1>12. WellStored'
  <2>1. TopicBound'
    <3> SUFFICES ASSUME NEW t \in Topic PROVE Cardinality(store'[t]) <= MaxPerTopic
      BY DEF TopicBound
    <3>1. Cardinality(store[t]) <= MaxPerTopic
      BY DEF StoreInv, WellStored, TopicBound
    <3>2. Cardinality({}) = 0 /\ 0 <= MaxPerTopic
      BY FS_EmptySet, MailboxStorageAssumption
    <3> QED BY <1>3, <3>1, <3>2
  <2>2. TopicsBound' /\ TotalBound'
    <3>1. MaxTopics \in Nat /\ MaxTotal \in Nat
      BY MailboxStorageAssumption
    <3>2. Cardinality(Records') <= MaxTopics /\ (~blind => Held' <= MaxTotal)
      BY <1>8, <3>1 DEF StoreInv, WellStored, TopicsBound, TotalBound, Held
    <3> QED BY <1>1, <3>2 DEF TopicsBound, TotalBound, Held
  <2>3. QuotaBound' /\ ToldOnce'
    BY <1>1, <1>3 DEF StoreInv, WellStored, QuotaBound, ToldOnce
  <2> QED BY <2>1, <2>2, <2>3 DEF WellStored
<1> QED BY <1>5, <1>7, <1>9, <1>10, <1>11, <1>12 DEF StoreInv
LEMMA PruneResetKeeps ==
    ASSUME StoreInv, PruneReset
    PROVE  StoreInv'
<1>1. /\ UNCHANGED <<store, old, queue, pc, loc, told, blind>> /\ job' = job
      /\ usage' \in {usage, Unknown} /\ lapsed' = {}
      /\ quota' = [p \in Peer |-> IF p \in lapsed THEN 0 ELSE quota[p]]
  BY DEF PruneReset, job
<1>2. quota' \in [Peer -> Nat] /\ QuotaBound'
  <2>1. quota \in [Peer -> Nat] /\ \A p \in Peer : quota[p] <= MaxPerHour /\ 0 <= MaxPerHour
    BY MailboxStorageAssumption DEF StoreInv, Types, WellStored, QuotaBound
  <2> QED BY <1>1, <2>1 DEF QuotaBound
<1>3. Types'
  BY <1>1, <1>2 DEF StoreInv, Types
<1>4. Chose' /\ Roomy' /\ Telling'
  BY <1>1, SameStore DEF StoreInv, Chose, Roomy, Telling
<1>5. Counted'
  BY <1>1, SameStore DEF StoreInv, Counted
<1>6. WellStored'
  BY <1>1, <1>2, SameStore DEF StoreInv, WellStored, TotalBound, ToldOnce, Held
<1> QED BY <1>3, <1>4, <1>5, <1>6 DEF StoreInv

LEMMA AgesKeeps ==
    ASSUME StoreInv, NEW t \in Topic, Ages(t)
    PROVE  StoreInv'
<1>1. /\ UNCHANGED <<store, usage, quota, lapsed, queue, pc, loc, told, blind>> /\ job' = job
      /\ old' = old \cup {t} /\ (pc = "settle" => t # job.topic)
  BY DEF Ages, job
<1>2. Types'
  BY <1>1 DEF StoreInv, Types
<1>3. Chose'
  BY <1>1 DEF StoreInv, Chose
<1>4. Roomy' /\ Telling' /\ Counted'
  BY <1>1, SameStore DEF StoreInv, Roomy, Telling, Counted
<1>5. WellStored'
  BY <1>1, SameStore DEF StoreInv, WellStored, TotalBound, QuotaBound, ToldOnce, Held
<1> QED BY <1>2, <1>3, <1>4, <1>5 DEF StoreInv

\* Whatever the process had in memory is gone; what is stored is measured anew.
LEMMA RestartKeeps ==
    ASSUME StoreInv, Restart
    PROVE  StoreInv'
<1>1. /\ UNCHANGED <<store, old, told, blind>> /\ usage' = Unknown
      /\ quota' = [p \in Peer |-> 0] /\ lapsed' = {}
      /\ queue' = <<>> /\ pc' = "none" /\ loc' = NoLocals
  BY DEF Restart
<1>2. Types'
  <2>1. queue' \in Seq(Job)
    BY <1>1, EmptySeq
  <2>2. loc' \in Locals /\ pc' \in Place
    BY <1>1 DEF Locals, NoLocals, Place
  <2>3. quota' \in [Peer -> Nat]
    BY <1>1
  <2> QED BY <1>1, <2>1, <2>2, <2>3 DEF StoreInv, Types
<1>3. Chose' /\ Roomy'
  BY <1>1 DEF Chose, Roomy, Before, Chosen
<1>4. Counted' /\ Telling'
  BY <1>1, SameStore DEF StoreInv, Counted, Telling
<1>5. QuotaBound'
  BY <1>1, MailboxStorageAssumption DEF QuotaBound
<1>6. WellStored'
  BY <1>1, <1>5, SameStore DEF StoreInv, WellStored, TotalBound, ToldOnce, Held
<1> QED BY <1>2, <1>3, <1>4, <1>6 DEF StoreInv

\* An hour passes, or nothing does.
LEMMA RestKeeps ==
    ASSUME StoreInv, HourPasses \/ UNCHANGED vars
    PROVE  StoreInv'
<1>1. /\ UNCHANGED <<store, old, usage, quota, queue, pc, loc, told, blind>> /\ job' = job
      /\ lapsed' \subseteq Peer
  BY DEF HourPasses, vars, job, StoreInv, Types
<1>2. Types'
  BY <1>1 DEF StoreInv, Types
<1>3. Chose' /\ Roomy' /\ Telling' /\ Counted'
  BY <1>1, SameStore DEF StoreInv, Chose, Roomy, Telling, Counted
<1>4. WellStored'
  BY <1>1, SameStore DEF StoreInv, WellStored, TotalBound, QuotaBound, ToldOnce, Held
<1> QED BY <1>2, <1>3, <1>4 DEF StoreInv

LEMMA StoreInvNext == StoreInv /\ [Next]_vars => StoreInv'
<1> SUFFICES ASSUME StoreInv, [Next]_vars PROVE StoreInv'
  OBVIOUS
<1>1. CASE \E j \in Job : PutArrives(j)
  BY <1>1, PutArrivesKeeps
<1>2. CASE AcceptGet \/ AcceptCount
  BY <1>2, AcceptGetKeeps, AcceptCountKeeps
<1>3. CASE AcceptUsage \/ AcceptLearn \/ AcceptCharge
  BY <1>3, AcceptUsageKeeps, AcceptLearnKeeps, AcceptChargeKeeps
<1>4. CASE PutRead \/ PutWrite \/ AcceptSettle
  BY <1>4, PutReadKeeps, PutWriteKeeps, AcceptSettleKeeps
<1>5. CASE StoreFails
  BY <1>5, StoreFailsKeeps
<1>6. CASE PruneStore \/ PruneReset
  BY <1>6, PruneStoreKeeps, PruneResetKeeps
<1>7. CASE \E t \in Topic : Ages(t)
  BY <1>7, AgesKeeps
<1>8. CASE Restart
  BY <1>8, RestartKeeps
<1>9. CASE HourPasses \/ UNCHANGED vars
  BY <1>9, RestKeeps
<1> QED
  BY <1>1, <1>2, <1>3, <1>4, <1>5, <1>6, <1>7, <1>8, <1>9 DEF Next, Accept

\* For any topics, entries, peers and limits, and however PUTs, failures, pruning, hours
\* and restarts interleave, what is kept for others stays within its limits
\* (acceptForStorageNow, chargePeerQuota, pruneExpired).
THEOREM StaysWithinLimits == Spec => []WellStored
<1>1. StoreInv => WellStored
  BY DEF StoreInv
<1> QED BY <1>1, StoreInvInit, StoreInvNext, PTL DEF Spec
=============================================================================
