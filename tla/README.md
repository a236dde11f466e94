# A formal model of Aether

Aether is a bulletin board without servers: browsers connect to each other over
WebRTC, flood signed packets through the mesh, keep each other's posts in a
distributed mailbox and hide the author of a post behind an onion circuit. This
directory holds TLA+ models of the parts of it where the order of events decides
whether it works, TLC configurations that check them on small instances, and
proofs that TLAPS checks for instances of any size.

Every definition is a translation of code. `PROJECT.json` names, for each, the file
and the lines it stands for ("map"), lists what can go wrong and which property
would catch it ("hazards"), and for each property a plausible bug of the code that
the property finds ("mutants", operators called "Mutant" in the modules).

To check a run: `tlc -config OnionGuard.cfg MCOnionCircuit`; to check the proofs:
`tlapm PeerTableProofs.tla`, and so for every module whose name ends in Proofs: one each
for PeerTable, TrackerSession, ThreadView, MailboxStorage and MailboxFetch, NodeProofs for
what runs inside one node and its data channels, NeighbourProofs for what a node does with its neighbours, and
RelayProofs for what is flooded and by whom.

## 1. The system and its parts

Paths are relative to `src/packages/core/src/` unless they begin with `packages/` or
`aether-cache/`, which are relative to `src/`. All of it but the cache node is
JavaScript: a callback runs to its end, and between two awaits of an async function any
other callback may run. That is the unit of interleaving. The cache node is Rust: tasks
that own their state and take one message after the other from their queues; there the
handling of a message is the unit.

| Part | State it keeps | Operations | Talks to | What is hard |
|---|---|---|---|---|
| Connection table (`network/PeerManager.ts`, `WebRTCPeer.ts`, `RingMaintainer.ts`, `PEXHandler.ts`, `PeerMisbehaviorManager.ts`) | connections by peer id, flags of each, buffered ICE candidates, bans, cool-downs | connect, relay of offers and candidates, HELLO/JOIN, rebalance, disconnect, stop | tracker client (lists, relay), all message handlers | objects are replaced while their timers, close events and promises are still due; JOIN is confirmed before the origin is known; rebalance re-enters itself |
| Tracker client (`network/SignalingClient.ts`, parts of `PeerManager.ts`) | socket, generation, pending attempt, detach timer | connect, setUrl, disconnect, sendRelay, re-announce, detach | tracker server | several sockets of one client in various stages of closing |
| Tracker server (`packages/tracker/src/TrackerServer.ts`, `SessionManager.ts`) | connections, counter per address, sessions by identity, nonces, timers | accept, hello, join, relay, ping, shutdown | tracker clients | join is verified after an await; one identity on several sockets; half-open connections |
| Gossip (`network/gossip/ZoneGossipRouter.ts`, `SeenCache.ts`, `PacketValidator.ts`) | two caches of seen ids, subscriptions | broadcast, handleGossip, handleExitFluff, cleanup | connection table, circuit, listeners | caches expire and overflow; clocks differ; the zone a node reads changes |
| Onion circuit (`network/onion/OnionCircuit.ts`, `network/gossip/DandelionRouter.ts`, `crypto/OnionRouter.ts`) | pinned guard, its table of exits, queue of cells, waiting sends; cells seen and held back for others | send, emitCell per slot, echo, retry, PEX with the guard, handleCell, relay, defer, stop | gossip, hints, connection table | guard and exits change while cells wait; retries race late echoes; counters of deferred work |
| Mailbox (`network/mailbox/DHTMailbox.ts`, `storage/IndexedDBStore.ts`) | records by topic, usage counter, hourly quotas, queue of jobs, open requests | PUT, accept for storage, prune, GET/RES, fetch | connection table, database, listeners | checks and writes are awaits apart; reads fail; crashes; three ways to settle a fetch |
| Hints (`network/hint/HintRouter.ts`, `SchrodingerMailbox.ts`, `HintRelease.ts`) | buffered unopened hints, keys, three caches; hints held back; backlog | originate, handleHint, handleExitHint, ingestLocal, reflood, addKey, removeKey, plan, fetchBody | circuit, mailbox, listeners | key and hint come in either order, over five ways; a sliding window that is pruned as it is read |
| Open thread (`logic/ThreadOrchestrator.ts`, `ThreadDAGManager.ts`) | graph of posts on display, seen ids, posts on disk | open, load, packet, reply, clear | gossip, hints, database, proof-of-work worker | the user changes the thread between two awaits |
| Boards (`logic/BoardOrchestrator.ts`) | threads of the open board, status line, three timers | activate, packet, submit, synchronise, merge statistics, clear | as above, connection table | the same, and a status line that five callbacks write |
| Zones (`network/ZoneManager.ts`) | depth, subscribed zones, watched topics, timer | recompute, watch, release | gossip, connection table | a timer set for an earlier estimate; zones change under open views |
| Replication (`network/mailbox/ReplicationManager.ts`) | debounce timer | connect, disconnect, periodic check, rebalance | mailbox, hints | churn restarts the debounce; neighbours leave between choice and sending |
| Framing (`network/stream/*`, `WebRTCPeer.ts`, `aether-cache/src/network/chunked.rs`) | partial messages | send, receive, time out | connection table | sends interleave at full buffers; channels close |
| Conduct (`network/RateLimiter.ts`, `PeerMisbehaviorManager.ts`, `Heartbeat.ts`) | token buckets, scores, bans, pings | allow, record, ban, ping, pong, forget | connection table | arithmetic of elapsed time; reconnection |
| Local store (`storage/*`, `crypto/NodeIdentityStore.ts`, `Identity.ts`) | data key in memory and sealed, records, identities | unlock, change passphrase, migrate, lock, wipe, save | everything that persists | crashes, two tabs, half a migration |
| Trusted guards (`trust/TrustedGuards.ts`, `cli/guardMaintainer.ts`) | none (files) | sign, verify, import | people | files edited, merged and repeated on their way |
| Session (`node/AetherNode.ts`, `packages/ui/src/providers/P2PProvider.tsx`) | the other parts, lock screen | create, start, stop, unlock, lock, wipe, reset | all | commands overlap at their awaits |
| Cache node (`aether-cache/`) | table of connections, seen caches, archive | connect, handshake, relay, store, clean up | browser nodes, tracker | queues between tasks: events and orders of one connection overtake those of the next |
| Cryptography, proof of work (`crypto/*`, `worker/*`) | none | transformations of bytes | all | not order dependent |

What makes the modelled parts correct:

* **Connection table**: a verified connection really has the owner of its id at the
  far end; limits on unfinished handshakes and on neighbours hold for every order of
  events; a live connection is not lost to another's offer or to an old timer; banned
  ids and, after stop(), everybody stay out; every handshake ends.
* **Tracker**: both ends agree who is registered; no session of a dead connection; the
  counters of the address limit are exact; a node has one socket, which is going to
  detach, and none once stopped.
* **Gossip**: a packet is relayed and shown once, shown if the zone is read, reaches
  everybody, and dies out.
* **Circuit**: an author's cell leaves only through the pinned guard towards an exit
  that guard has named; the guard changes only when it is gone; send() returns.
* **Mailbox**: what is kept for others stays within its limits; one failing job does
  not stop the rest.
* **Hints**: nothing that could be opened stays unopened; the author's hint leaves
  only through the circuit, after a delay that is worth something; a body is looked for
  once and the caller answered.
* **Thread, board**: what is on disk is shown, what was shown is kept, the order of
  display depends on the posts alone, the status line fits the list.
* **Zones, replication**: what is open is heard; the depth falls slowly; copies and
  hints end up with the nearest neighbours.
* **Framing, conduct**: a message arrives whole, once or not at all; no more passes than
  the limits allow.
* **Store, session**: nothing is lost by a crash, two tabs or a change of passphrase; no
  node runs without the passphrase.
* **Guards**: what is used is word for word what enough maintainers signed.
* **Cache node**: its tables agree on which connection is alive; what it relayed is kept.

## 2. Modules and the code

Names of the source are kept where they are names in TLA+. An action is a callback or
the code between two awaits, with everything it calls. Cryptography appears by what
it guarantees: ids stand for contents, signatures for their signer and what was
signed. MC modules only give values to constants.

**PeerTable** (`PeerManager.ts` and neighbours). `conn[p]` is the entry of `peers` for
id p with the number of its WebRTCPeer object (`inst`), so that a timer or promise
carries the object it was made for and `IsStillCurrent` is the code's check. `closing`
holds objects whose close event is still to come, `resolving` the promises of getStats,
`signed` the signatures that exist, each with its signer, the challenge and the two
sessions it covers: a JOIN presents any of them (`Presented`), which covers replays and
challenges passed on, and `VerifyClaim` says which of them the code accepts. Far ends
are "self" (owns the id), "other" (uses the name) or "none" (never answers).
`rebalance()` is a loop in which disconnect() re-enters; it is RebalanceStep, repeated
while `rebalancing`, with nothing in between, which is what the re-entrance guard
amounts to. `MaxInst` bounds the objects per id.

**TrackerSession** (`SignalingClient.ts`, tracker part of `PeerManager.ts`,
`TrackerServer.ts`, `SessionManager.ts`). A socket has a number, a client end `cl` and a
server end `sv` that learn of each other's close separately, and two queues. `current`
is the generation of a client; SetUrl and the destruction of the server are actions too.
`phase` is where the attempt is. HandleJoin is the code after the await of the
verification, so anything may have happened to the socket since the join arrived.
Several nodes may have the same identity (tabs) or address. Rate limits are never met by
these clients, and which peers an answer lists is left out.

**Gossip** (`ZoneGossipRouter.ts`, `SeenCache.ts`, `PacketValidator.ts`) on several
nodes with links that fail. Time is counted in cleanup periods; the caches are sequences
with the time of entry, trimmed and expired as in the code; an author's clock may be
ahead or behind. The circuit is a lossy, repeating way to some exit. A copy carries the
time it claims; the id is a hash over the bytes the proof of work covers, the time among
them, so that a copy that was dated anew no longer fits its id (`PowPreimage`,
`DerivePacketId`, `VerifyPow`).

**OnionCircuit** (`OnionCircuit.send`, `emitCell`, `DandelionRouter`), the author's side.
Cells that left are kept as history with guard, exit and the tables known then. Cover
cells leave no trace in the state and are stuttering.

**MailboxStorage** (`DHTMailbox.handlePut`, `acceptForStorageNow`, `pruneExpired`,
`IndexedDBStore`). One job of the storage queue is followed from await to await
(`pc`, `loc`); each database operation may fail; pruning and a restart happen in
between. `blind` records that the size on disk could not be read and was taken for 0.
Records cost `Seal` more than their entries.

**MailboxFetch** (`fetch`, `handleGet`, `handleRes`, `SchrodingerMailbox.fetchBody`), the
asking half. `near` are the K nearest a call chose, `pending` the requests, `grace` and
the hard timer the two ways to end early; questions and answers travel in `net`, late
ones too, and neighbours come and go. **FetchPromise** is what it promises: a call is
answered, once, with nothing but genuine entries and with everything the node had
itself. `P == INSTANCE FetchPromise WITH floor <- own, answer <- result` is the mapping.

**Replication** (`ReplicationManager.ts`, `putToKNearest`, `sendBacklogTo`, `reflood`).
`timer` is what is left of the debounce, `job` and `chosen` the locals of
`rebalanceOnce` at its awaits; neighbours lose what they had when they leave.

**HintRouter** (`HintRouter.ts`) on one node, with all five ways in. What comes in is a
copy of a hint whose proof of work is right or not; the id does not depend on it.
`forgotten` holds the hints some cache has dropped: the caches are bounded in the code,
and Expire drops any entry at any time, which covers every size.

**ThreadView** (`ThreadOrchestrator.ts`, `ThreadDAGManager.ts`). Loads, packets, saves
and replies are processes with the locals they captured. `GetSortedPosts` is the
topological sort of the code: `Rounds` of its queue, sorted whenever a post joins it.
Posts name their parents by their hashes, so none is its own ancestor
(`ParentsAssumption`); that nobody answers a reply of this user is a limit of the model,
stated in the same assumption. The status line is left out.

**BoardView** (`BoardOrchestrator.ts`) in the same way, with the status line, the timer
of its verdict, the debounce of synchronisation, the timer of statistics and submissions.
A board stands for its id and key, a packet for the thread it opens.

**OnionRelay** (`OnionRouter.wrapCircuit`, `unwrap`, `OnionCircuit.handleCell`, `relay`,
`defer`). A cell is its layers from the outside in; `pending` is the work behind timers
and `perPeer` the code's own count of it. `seen` is the SeenCache of cell ids with its time
to live, its cleanup and its eviction of the oldest; an entry carries the time and the
number of its admission, and work the entry of its cell, so that the state tells which
arrival was acted on.

**Zones** (`ZoneManager.ts`): the estimate of the network's size is an input, as the depth
it asks for; `falling` is what is left of the timer that lowers the depth.

**Conduct** (`PeerManager.handleData`, `RateLimiter`, `PeerMisbehaviorManager`,
`Heartbeat`): one neighbour and one category, since buckets and scores share nothing.

**Channel** (`ChunkedSender`, `ChunkedReceiver`, `WebRTCPeer.send`, and `chunked.rs`):
sends are processes that poll; `from` and `to` say whether an end is a browser or a cache
node, which differ in waiting, eviction and timeouts.

**LocalVault** (`IndexedDBStore`, `DataVault`, `SecretVault`, the two identity stores): two
stores on one database, each at an await of unlock, migration or a change of passphrase;
a crash forgets the store's memory and work.

**NodeSession** (`P2PProvider.tsx`, `AetherNode.create/start/stop/panicWipe`): attempts to
unlock and commands as processes; `silent` records that a lock or wipe is through.

**Guards** (`TrustedGuards.ts`, `guardMaintainer.ts`): lists travel as `drafts`; `agreed`
remembers what each maintainer really signed.

**Lists** has what Release, Guards and Channel need of lists (a filter, a sum), written as
recursive functions of the length so that it can be proved about.

**CachePeers** (`peer_manager.rs`, `webrtc_peer.rs`, the handshake in `router.rs`): one
actor per connection, told apart by its session, and the queues `inbox`, `events`,
`control` and `orders` between the tasks. **CacheRelay** (`router.rs`, `seen_cache.rs`,
`rate_limiter.rs`, `mailbox.rs`, `sqlite_store.rs`): the map and the order of eviction of
a seen cache apart, as in the code, and the archive as rows of the table that PUTs are
stored in, under topics that may be the ids of packets. Queries may fail: a topic that
cannot be read is taken for empty, topics that cannot be counted for none, an insertion
ends where it fails, and a packet whose row cannot be written is lost. Each row records
(`by`) which limits had been read when it was stored.

There are two kinds of abstraction that hold in all modules. Byte formats are left out.
The environment is free: any message a peer could send may come, at any time, in any
order, and may be lost.

## 3. What is checked

Twelve runs; each takes at most a few minutes.

| Run | Configuration | Shows |
|---|---|---|
| peers_handshake | Peers (MCPeers) | Connections: VerifiedIsOwner, PendingBound, DegreeBound, KeptOut, SignalBuffer, LiveLinkKept. Conduct: WellConducted. Hints: NoneMissed, OnceEach. Cells of others: Relayed |
| peers_relays | Relays (MCRelays) | Gossip: OnlyOnce, Shown. Cache node: CacheHolds, TableTrue. Whom rebalance() drops: EvictionOrder |
| mailbox_limits | MailboxLimits (MCMailboxStorage) | WellStored |
| onion_guard | OnionGuard (MCOnionCircuit) | ExitBehindGuard, SendReturns |
| thread_view | ThreadView (MCThreadView) | DisplayOrder, DiskShown, ShownKept |
| tracker_session | TrackerSession (MCTrackerSession) | AddressExact, NoGhosts, Registered, OneSocket, Detaching |
| node_parts | Node (MCNode) | Session: KeysEarned. Store: VaultKept. Zones: ZonesFollow. Delays: HeldForGain. Guards: Endorsed. Board: StatusFits, DiskListed, WorkKept |
| delivers | Delivers (MCDelivers) | Fetching: Promised (implements FetchPromise), RequestsAgree. Copies: Spread. Chunks: Intact, SendsEnd |
| settles | Settles (MCSettles) | ComesToRest: handshakes settle, an excess of peers heals, floods reach everybody and end, the mailbox queue drains with its limits kept |
| thread_reply | ThreadReply (MCThreadView) | OneThread is **violated**, see section 6 |
| session_lock | SessionLock (MCNodeSession) | LockSilences is **violated**, see section 6 |
| cache_peers | CachePeers (MCCachePeers) | MarkedHandshook is **violated**, see section 6 |

The comment above each property says what it means and which function it is about.

**Several modules in one run.** MCPeers, MCRelays, MCNode, MCDelivers and MCSettles check
modules that share no state together. A variable `part` is chosen at the start; each
behaviour moves the module it names and leaves the others as they began. The states are
the sum and not the product of theirs, and every property is checked on exactly the
behaviours of its module, with the others at rest in an initial state where it holds.
Where a module is fair to actions that are enabled at the start, the fairness is stated
for the behaviours of its `part` alone.

**Bounds.** They are constants of the modules, named in the configurations.

* Connections: two ids with two objects each, since every hazard of the table is an
  object meeting its successor or one other connection, and limits of 1, so that two
  exceed them. EvictionOrder: three ids for one place, in two network groups, so that a
  call has several victims and a choice. In settles: two ids with one object.
* Conduct: a burst of 2 refilled by 1, three frames over four units of time, so that the
  bucket runs dry, is refilled in part and in full; two violations ban, and the ban ends.
* Hints: two with different keys, a buffer of one. Cells: two, routes of up to three
  layers (one too long), two neighbours of which each may hold one, a link that breaks or
  a stop; a cache
  of one id with a lifetime of one unit, three admissions and two units of time, so that a
  cell comes back after its entry was evicted as well as after it expired.
* Gossip: two nodes, one packet, a window and a lifetime of one period within a horizon of
  four, so that a cache entry expires while copies are under way; two retries, two resent
  copies, any subscriptions at the start of which one changes, and a link failure. In settles: a triangle, two
  packets and caches of size 1, the smallest case in which packets evict each other.
* Cache node: one packet, one hint and two topics, of which one is the id of the packet,
  from two senders; PUTs of two good entries and one that is not; caches of one id with
  a lifetime of a minute (an id that expired and comes again evicts itself), one row per
  topic and one topic, so that gossip or a failed query exceeds either; one remote id in two
  connections (three in cache_peers).
* tracker_session: two sockets, enough for one to replace, refuse or outlive the other;
  three nodes of which two share an identity and two an address; one place per address
  and one session in all; one call of setTrackerUrl or sendRelay and one node that stops.
* onion_guard: three other nodes (guard, its successor, exit), one message with two
  attempts, a queue of one, three changes of the neighbourhood, two answers of guards.
* mailbox_limits: three topics and three entries against limits of two topics, two
  entries per topic and three in all; topics and entries are interchangeable (symmetry).
  A quota of two is renewed in behaviours without pruning and restart (`Apart`), which it
  does not meet.
  In settles: one topic, two entries, a failure, a restart, a quota of one and a new hour.
* thread_view: two threads, two posts of others and a reply, two actions of the user,
  one packet at a time in decryption, one failed save. Board: two boards, a thread of
  another and one of the user, two actions, two packets in decryption, one failure.
* Session: two attempts and two commands, two passphrases. Store: two stores, two
  passphrases, two old records and a new one, two user actions, two data keys at most.
* Zones: depths up to 3, a wait of three minutes, two topics and three views. Delays: two
  sizes, a window of three and a patience of three units within five. Guards: two
  maintainers, both needed, and an outsider, three lists, two guards, a day.
* Fetching: one call, three neighbours for K = 2, a genuine and a junk entry, four moves of
  the network. Copies: three neighbours for Near = 2, one slot of two parts that fill two
  messages, four comings and goings. Chunks: messages of one, two and three chunks, a
  buffer that is full after one, one reassembly at a time.

**Fairness.** Safety needs none. Connections: rebalance continues (it is a loop); the
handshake timer of an object fires and its getStats() promise settles, both under strong
fairness: each is disabled while another callback runs to its end, and a promise or timer
that is due between callbacks again and again is served in the end. Weak fairness does not
do: the repair timer of RingMaintainer can disable them for a moment in every round.
Gossip: received messages are handled, the cleanup timer fires, time passes. Mailbox: the
database answers or fails. Fetching: the reads of the node's own store return and the
hard timer fires; nothing is assumed of neighbours. Replication: its timers fire and its
steps go on; that churn ends is part of the bounds, and the property speaks of that case.
Channel: polling senders run, and what is buffered is delivered while the channel is open.
Onion circuit: slots tick, echo timers fire. These are promises of the event loop and of
SCTP; nothing is assumed of other nodes.

**Deadlock** is not checked: the bounds (or a crash, a stopped node, a full horizon) end a
behaviour.

## 4. What is proved

For every value of the constants, by TLAPS. Where a module's assumptions go beyond the
types of its constants they are named below. A module proved together with others in one
proof module states its assumption as a hypothesis of the theorem.

**Connections** (`PeerTableProofs`; PeerTable's assumptions: a finite set of peers, limits
with room for the local links, distinct distances, groups and far ends as in the code):

* `TypeCorrect`: TypeOK.
* `OwnerVerified`: VerifiedIsOwner. It is not inductive: an entry becomes verified by
  a signature made some steps earlier. The invariant adds `ObjectsExist` (an object in
  the table has been created) and `SignaturesBound` (a signature that names an object
  was made for it, over a link to its own far end).
* `PendingBounded`: PendingBound. Every entry is created by `Connect`, and the count
  it checks is the one the bound is about, also when an entry is replaced.
* `DegreeBounded`: DegreeBound. While rebalance() is not running, verified peers exceed
  MAX_DEGREE by at most the promises under way; rests on a lemma that a table over the
  limit always has a victim (`VictimExists`), so the loop does not stop early.
* `StayOut`: KeptOut.
* `SignalsAreBuffered`: SignalBuffer. `Keyed` (the list of senders has each once, and has
  exactly those with candidates) and `Clear` (no candidates are kept of an id with an
  inbound session) make it inductive.
* Two action properties, `LiveLinksStay` (LiveLinkKept) and `EvictsInOrder`
  (EvictionOrder, which relays checks through an instance of the module).

`StepShape` reduces the actions to eight shapes (an entry is created, dropped, opened,
verified, ...), and the invariants are proved once per shape.

**Tracker** (`TrackerSessionProofs`; types of the constants; nodes, identities and
addresses may be infinite):

* `TypeCorrect`, with the limit per address.
* `SingleSocket` (OneSocket) and `AlwaysDetaching` (Detaching), from `ClientInv`, which
  adds that no socket counts as registered before it was open (`Fresh`).
* `AddressCounted` (AddressExact), `NoGhostSessions` (NoGhosts) and `RegisteredFound`
  (Registered), from `ServerInv`. It adds `Tracked` (an open server end is in
  `connections`, what is there has not closed, and belongs to an opened socket) and,
  for RegisteredFound, `Announced` and `Unspoken`: a "peers" answer that is still in the
  queue of a connection open at the server tells the truth, and nothing was said before
  a connection was accepted.

**Gossip** (`RelayProofs`):

* `CopiesAreShown`: Shown, for caches of any size. `CachesTell`: what the cache of shown
  packets holds has been shown.
* `PacketsPassOnce`: OnlyOnce, under two hypotheses besides the types. The packets there
  are fit into a cache (50 000 entries in `SeenCache.ts`; MCSettles has the smallest
  case in which they do not), and `Drift + Ahead <= TTL`: the time window and the
  cache's lifetime are both 15 minutes in the code, so this says that authors' clocks do
  not run ahead, which the property is about anyhow (section 6 has what happens if they
  do). `Kept` is the heart of the invariant: a cache has an id once (`Once`), an entry
  is not older than its packet could be (`Dated`), and whatever was relayed or shown is
  in the cache or past its window (`Counted`), so that expiry and the rejection of stale
  copies meet. `Roomy` says that the trim never takes an entry; it follows by counting
  the ids in the sequence.

**Cache node** (`RelayProofs`):

* `TableIsTrue`: TableTrue, for any number of connections and any order in which the tasks
  read their queues. `TableHolds` ties the table to its actors, `NotForgotten` says that a
  live actor outside the table has a close order in its inbox, and `NewsTrue` that an
  event in a queue which says that a session ended is right, however late it is read.
* `CacheKeepsItsPromise`: CacheHolds, for PUTs under any topic and any failures of the
  database. `HandedOver`: what was broadcast is stored, had its day, could not be stored, or
  waits in the mailbox task's queue; an order of eviction may name expired ids, so that the
  bound on a cache rests on `Evictable` (every id in the map is in the order, which has the
  bound). `TopicsBounded`: a row stored by a PUT that could read its topic is among the
  oldest MAX_ENTRIES_PER_TOPIC of it, and one stored after the topics were counted among
  those of the oldest MAX_TOPICS topics; rows added later, by gossip or by a PUT that could
  not read, have higher ids and do not disturb it.

**Neighbours** (`NeighbourProofs`):

* `NothingMissed` (NoneMissed) and `AnnouncedOnce` (OnceEach). `Sourced` adds that whatever
  was done with a hint was done after it came in, and that a cache holds what was done with
  a hint it has not forgotten.
* `NeighboursAreHeldToTheirShare`: WellConducted. `Paid` states the bucket's account over every
  stretch of admissions that is still of interest: tokens left plus frames let through since do
  not exceed the burst plus the refill, in integers. `PingsRecent` adds that a ping
  that is remembered is younger than the interval after which it is forgotten.
* `CellsAreRelayedOnce`: Relayed. `Counted` (perPeer is the number of waiting jobs, by
  neighbour), `ActedOnce` (an arrival has one piece of work, waiting or done), `SeenWell`
  (the cache keeps its limit, and its entries differ in their number) and `Past`: a cell
  that is acted on is in the cache until its time to live is over or MaxSeenCells admissions,
  its own not counted, have followed. That eviction takes no other is a matter of counting:
  the entries have different numbers from the oldest one's to that of the last admission.
* `ExitsAreNamed`: ExitBehindGuard. `Named`: the table is the one of the guard of the
  moment, and a cell that waits keeps the exit its own guard named. `Once`: attempts are
  numbered and a number is used for one cell.

**Inside a node** (`NodeProofs`):

* `KeysAreEarned`: KeysEarned. `Staged`: where an attempt can be when it has earned the
  key, made its node, or is the one the provider refers to.
* `VaultIsKept`: VaultKept, the rows and identities across crashes, two stores and
  changes of passphrase. `OneKey` says that everything is sealed with the one data key
  and a passphrase that fitted, that every old record is in its old table or sealed, and
  what each store holds at each of its awaits (`Working`): one that copies has every old
  record that is not sealed yet. It holds while one key was made, as the property.
* `ZonesAreFollowed`: ZonesFollow, an action property and an invariant in one: the
  depth falls one at a time and not before the wait is over. The assumption that views
  are finite gives the counts; that 2^d > 0 is assumed because the prover cannot do the
  induction, and TLC evaluates it.
* `StatusAlwaysFits` (StatusFits), `DiskIsListed` (DiskListed) and the action property
  `WorkIsKept` (WorkKept). `Follows`: once no load of the board is under way, or a
  synchronization has been begun, a status that says it is searching has a timer or
  waits for a first neighbour. `Accounted`: every packet seen for the open board is
  listed or waits to be merged, and every packet read is seen or will be looked at.
* `DelaysGain`: HeldForGain, measured on everything ever seen and relayed. `Remembers`:
  the queues are what the histories hold within the window, which is what makes a rate
  computed after pruning a true one; it needs lemmas about filters and sums of lists.
  `Gained` fixes, for each hint held back, what plan() knew. The assumption `Seen <=
  Target * Window` keeps the rate below the one (8 hints in every millisecond, with the
  values of the code) at which the delay rounds to nothing.
* `ListsAreEndorsed`: Endorsed. `Genuine`: a signature on a list that travels was made by its
  signer over that content, so a list that counts `Threshold` signers over one content has that
  many who agreed; repeated signatures are where this could fail.

**Data channels** (`NodeProofs`; every message is at least one chunk, positive limits):
`MessagesArriveWhole` (Intact), for any messages and lengths. A message is put together
from chunks that were cut, interleaved, dropped and timed out many steps apart, so the
invariant accounts for each chunk: `Numbered` (ids tell begun messages apart), `Underway`
(what is in the channel was sent, and is there once), `InPieces` (an entry of the receiver
belongs to one message that was not handed on, holds some of its chunks but not all, and
none that is still to come), `HandedOn` (nothing is left of a message that arrived) and
`NoneLost` (while the channel is open and not strained, each chunk that was sent is in the
channel, in an entry, or arrived with its message, and the messages on their way are at
most as many as there may be entries, so that no eviction takes one: `RoomForOne`, by the
pigeonhole principle). The first four hold under eviction and timeouts too. TLC checked
them on the instance of `delivers` first.

**Mailbox** (`MailboxStorageProofs`; finite sets of topics and entries, positive limits):
`StaysWithinLimits` (WellStored). A job checks the limits and writes several awaits later,
so none of them is inductive. The invariant says what the running job still knows at each
await: `Chose` (its entries are new to what it read, and pruning can only have removed
since), `Roomy` (there is room for its topic until it is written), `Counted` (the total it
read covers what is stored, together with what the write will put back; the counter lags
only between write and settlement) and `Telling` (listeners heard only of what is
stored). It was checked by TLC as an invariant of mailbox_limits first.

**Fetching** (`MailboxFetchProofs`): `RequestsSettled` (RequestsAgree) and
`FetchKeepsPromise`: the initial states and every step of the fetch are initial states and
steps (or stutters) of FetchPromise, the half of the refinement that is not liveness.
Both rest on `Looked`, what a call has seen at each of its awaits.

**Threads** (`ThreadViewProofs`): `ShownIsKept` (ShownKept) and `ReadIsShown` (DiskShown).
`Placed`: a post that got anywhere has a thread. `Reading`: what a load has still to look
at is on disk. `OnItsWay`: a post of the open thread that was seen is displayed, or a
packet or load under way will display it; a post that was read was seen or will be looked
at. Neither needs the order of the posts.

`PostsAreInOrder` (DisplayOrder) has two halves. What getSortedPosts returns for any
finite set of posts whose parents have an order (`Grounded`) is `PostsInOrder`: `Reached`
says what holds after k rounds (k posts are out, once each and in order, and exactly those
whose parents are out wait, sorted), and `RoundKeeps` that a round is never idle while
posts are left. It is proved by counting the rounds (`UpTo`, from the well-foundedness of
the naturals), and `Sorted` places each post by counting those before it. The other half
is that the graph stays such a set: `BuiltOnce` (a reply is nowhere before its proof of
work ends, and no two submissions are for one reply), `Rooted` (its parents are on display
and nobody answers it yet, so that the parents keep their order) and `Drawn` (the graph
has no post twice, and the snapshot is its order). TLC checked it as an invariant of
thread_view first.

**Only model-checked**: liveness (ComesToRest, SendReturns, SendsEnd, Spread, the fairness
of FetchPromise), which the prover does not handle. Every invariant that a passing run
checks is a theorem.

## 5. Not modelled

Formats and cryptography (stateless), the user interface beyond its provider and the
desktop and web shells, simulators, and the first-generation client and server that
`packages/` replaced. Within the modelled components: the ranking of threads and the
Merkle digests (functions of their input), the status line of a thread (as that of a
board), the tracker client and configuration of the cache node. Two nodes whose offers
cross (glare, `PeerManager.ts:548`) need two connection tables and both relay paths in one
model, whose state space is out of reach. `PROJECT.json` gives the status of every
component.

## 6. Findings and observations

**A reply can land in another thread** (`logic/ThreadOrchestrator.ts:414`, run
thread_reply). submitReply fixes thread, key and parents before the proof of work and
reads the open thread again after it. If the user has opened another thread meanwhile,
the reply is displayed and saved there, and its slot is sealed with that thread's key.
It follows that the reply can be missing from its own thread too: a load of the thread it
was filed under, still running after the user went back, marks it as seen, and the load
of its own thread skips it (`:187`). DiskShown is therefore stated for posts that are on
disk under their own thread only (`Misfiled`); the case needs three visits, so that no
run with the bounds below meets it, and the proof of ReadIsShown covers it.

**lock() does not stop an unlock under way** (`packages/ui/src/providers/P2PProvider.tsx:211`,
run session_lock). It is meant to stop communication and to wipe the key from memory. While
unlock() is at one of its awaits there is no node in nodeRef yet: lock() locks the store
and is through, and the unlock then opens the store again or starts its node. The same
holds for panicWipe().

**A new connection is taken for verified** (`aether-cache/src/network/peer_manager.rs:296`,
run cache_peers). MarkVerified names the peer but not the session. If a re-offer is
handled between the JOIN of the old connection and MarkVerified, the flag is set on the new
connection, which never shook hands; the handling of PeerReset is there to prevent that.

Seen while modelling, described here because they are consequences of deliberate
choices or depend on rare conditions:

* Tracker: sendRelay (`SignalingClient.ts:204`) asks for an open socket, not for a
  registered one. A signal sent while the registration is under way is answered with
  not-joined and the connection is closed; the next re-announcement repairs it.
  A detach timer of an earlier connection (`PeerManager.ts:449`) is cleared only after
  the next connect has resolved, so it can end an attempt under way.
* Connection table: the comment on rebalance() (`PeerManager.ts:301`) says outbound
  connections are not evicted; the fallback at `:334` does when nothing else is left.
* Gossip: a packet whose author's clock runs ahead outlives its cache entry and is
  relayed twice (`SeenCache.ts:7`, `PacketValidator.ts:119`); OnlyOnce is therefore
  about punctual authors.
* Mailbox: a failed mailboxUsageBytes() counts as zero (`DHTMailbox.ts:251`), so the
  byte limit may be exceeded after such a failure; hence `blind`.
* Circuit: a slot that discovers that the guard is gone drops the cells queued for
  exits behind it (`OnionCircuit.ts:354`); retries make up for it.
  The comment at `OnionCircuit.ts:482` says that a cell that comes again is not processed.
  That holds while its id is remembered: seenCells is a SeenCache, which drops ids after 15
  minutes and the oldest beyond 50 000 (`SeenCache.ts:28`, `:34`). Its comment at `:7` relies
  on timestamps to stop what is older, and a cell has none, so that the same cell is relayed
  or given to the exit handlers again after that; hence `FarApart` in Relayed.
* Hints: a hint is announced again once the cache of announced hints forgot it while it
  is still buffered (`HintRouter.ts:159`); hence `forgotten`.
* Thread: a post whose save has not finished is not visible after leaving and reopening
  the thread until it has; a reply is lost with an error message if no thread is open
  when its proof of work ends; the comment on getSortedPosts lists a rule by weight that
  the code does not apply.
* Board: a packet of board A that is decrypted while the user opens B is merged into the
  list of B; an activate(A) that resumes after activate(B) starts the
  timer of statistics for A.
* Store: two unlock() calls on an empty database both make a key; what the loser seals
  cannot be read again (`IndexedDBStore.ts:110`; VaultKept is about `made < 2`).
  changePassphrase() seals the data key anew but not the identities, which then open with
  the old passphrase only, and loadOrMine() refuses to start.
* Zones: with fewer than eight neighbours recomputeDepth() returns early, so that a deep
  node stays deep, where the comment at `ZoneManager.ts:99` promises depth 0.
* Conduct: a neighbour that reconnects gets a fresh burst, since disconnecting forgets its
  buckets (`RateLimiter.ts:114`).
* Delays: nothing in the repository calls noteRelayBytes(), so that the throughput is 0
  and no body is ever taken for part of the noise.
* Guards: the command line tool signs a list with two declarations of one peer, which every
  verifier refuses; a list of the same version with other content may be imported again.
* Replication: the debounce is restarted by every connection event, so while churn goes on
  faster than 10 s nothing is copied (`ReplicationManager.ts:50`).
* Framing: a sender that polls a channel which closes with a full buffer polls for ever
  (`ChunkedSender.ts:18`); SendsEnd is about open channels.
* Cache node: a late PeerDisconnected of an old connection makes the gossip task forget
  the new one (`lib.rs:23` says the session prevents it), and Connected of an old
  session overwrites the challenge of the new one. has() of a seen cache removes an
  expired id from the map but not from the order, so an id that comes again is evicted
  early (`seen_cache.rs:24`), and ids live for 15 minutes while packets are valid for
  30. The archive keeps repeated PUTs as rows of their own, and its topics are not
  limited on the path from gossip, which stores in the same table: a topic that a PUT names
  may be the id of a packet (`entry.rs:42`, `mailbox.rs:178`) and hold more than
  MAX_ENTRIES_PER_TOPIC rows. A packet that cannot be inserted, or is over MAX_ENTRY_BYTES,
  was already noted as delivered, so that copies of it do not help (`mailbox.rs:160`, `:163`;
  hence `unkept`); a failed read of a topic lifts its limit and a failed count that of
  the topics (`mailbox.rs:111`, `:119`; hence `by`). The sleep of the cleanup (`mailbox.rs:53`) starts
  again with every message, so that a busy node never cleans up.

## 7. What is left

The order of work was: the connection table and the tracker, then gossip, circuit,
mailbox, hints and threads, then everything else of section 2 and the refinement of
FetchPromise. What could follow:

* a model of two connection tables, for offers that cross;
* a composition of circuit, relays and gossip from author to reader, with an abstract
  specification of a broadcast that delivers each packet at most once per node.
