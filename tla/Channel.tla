------------------------------- MODULE Channel -------------------------------
(***************************************************************************)
(* Messages on one data channel: WebRTCPeer.send() and ChunkedSender cut   *)
(* them into chunks, ChunkedReceiver puts them together again, and so do   *)
(* chunked.rs and webrtc_peer.rs in the cache node (aether-cache).  `from` *)
(* and `to` say which implementation is at which end.                      *)
(*                                                                         *)
(* A browser's sends interleave: each waits, polling every 10 ms, while    *)
(* the channel buffers more than MAX_BUFFERED.  The cache node's actor     *)
(* sends one message after the other and never waits.  The channel is      *)
(* ordered and reliable until it closes.  Chunks are told apart by their   *)
(* place; ids do not wrap around while a message is on its way.            *)
(***************************************************************************)
EXTENDS Integers, Sequences, FiniteSets, SequencesExt, Lists

CONSTANTS
    Message,
    Length,         \* Length[m]: chunks m is cut into, 1 if it is sent as it is
    Full,           \* MAX_BUFFERED, in chunks
    MaxPending,     \* MAX_PENDING_MESSAGES
    MaxChunks       \* MAX_CHUNKS

ASSUME ChannelAssumption ==
    /\ Length \in [Message -> Nat \ {0}]
    /\ {Full, MaxPending, MaxChunks} \subseteq Nat \ {0}

VARIABLES
    from, to,       \* "web" or "cache"
    dc,             \* readyState: "open" or "closed"
    buffer,         \* chunks buffered or on their way
    sends,          \* sends[m]: progress of send(m)
    msg_counter,
    reassembly,     \* pending, oldest first
    arrived,        \* history: what was handed to onMessage
    strained        \* history: a reassembly timed out, or messages outnumbered MaxPending

channel_vars == <<from, to, dc, buffer, sends, msg_counter, reassembly, arrived, strained>>

-----------------------------------------------------------------------------
(* Sending *)

Sending(m) == sends[m].is = "sending"
Whole(m) == [i \in 1..Length[m] |-> <<m, i>>]
Chunk(m, i) == [id |-> sends[m].id, seq |-> i, total |-> Length[m], part |-> <<m, i>>]

OnTheWay == {m \in Message : sends[m].is # "new" /\ Whole(m) \notin ToSet(arrived)}

\* Mutant: the counter is moved on when the message is through.
SendLateId(m) ==
    /\ sends[m].is = "new" /\ dc = "open"
    /\ from = "cache" => \A n \in Message : ~Sending(n)
    /\ sends' = [sends EXCEPT ![m] = [is |-> "sending", id |-> msg_counter, next |-> 1]]
    /\ msg_counter' = IF \E n \in Message : Sending(n) THEN msg_counter ELSE msg_counter + 1
    /\ strained' = (strained \/ Cardinality(OnTheWay) >= MaxPending)
    /\ UNCHANGED <<from, to, dc, buffer, reassembly, arrived>>

\* send(): nothing on a channel that is not open; a new id for a message that is cut.
Send(m) ==
    /\ sends[m].is = "new" /\ dc = "open"
    /\ from = "cache" => \A n \in Message : ~Sending(n)
    /\ sends' = [sends EXCEPT ![m] = [is |-> "sending", id |-> msg_counter, next |-> 1]]
    /\ msg_counter' = msg_counter + 1
    /\ strained' = (strained \/ Cardinality(OnTheWay) >= MaxPending)
    /\ UNCHANGED <<from, to, dc, buffer, reassembly, arrived>>

\* What goes out before the next wait: a message that is sent whole, and the cache node,
\* never wait.
AtOnce(m) ==
    LET left == Length[m] - sends[m].next + 1
        room == Full - Len(buffer) + 1
    IN  IF Length[m] = 1 \/ from = "cache" \/ left < room THEN left ELSE room

\* Mutant: after a wait the message is sent from its start.
ProceedsAnew(m) ==
    LET n == AtOnce(m)
    IN  /\ Sending(m) /\ dc = "open" /\ n > 0
        /\ buffer' = buffer \o [i \in 1..n |-> Chunk(m, sends[m].next + i - 1)]
        /\ sends' = IF sends[m].next + n > Length[m] THEN [sends EXCEPT ![m].is = "sent"]
                    ELSE [sends EXCEPT ![m].next = 1]
        /\ UNCHANGED <<from, to, dc, msg_counter, reassembly, arrived, strained>>

\* The loop of send(), up to its next wait.
Proceeds(m) ==
    LET n == AtOnce(m)
    IN  /\ Sending(m) /\ dc = "open" /\ n > 0
        /\ buffer' = buffer \o [i \in 1..n |-> Chunk(m, sends[m].next + i - 1)]
        /\ sends' = IF sends[m].next + n > Length[m] THEN [sends EXCEPT ![m].is = "sent"]
                    ELSE [sends EXCEPT ![m].next = @ + n]
        /\ UNCHANGED <<from, to, dc, msg_counter, reassembly, arrived, strained>>

\* On a closed channel dc.send() throws; a send that finds its buffer full goes on polling.
Throws(m) ==
    /\ Sending(m) /\ dc = "closed" /\ AtOnce(m) > 0
    /\ sends' = [sends EXCEPT ![m].is = "failed"]
    /\ UNCHANGED <<from, to, dc, buffer, msg_counter, reassembly, arrived, strained>>

Close ==
    /\ dc = "open" /\ dc' = "closed" /\ reassembly' = <<>>
    /\ UNCHANGED <<from, to, buffer, sends, msg_counter, arrived, strained>>

-----------------------------------------------------------------------------
(* Receiving *)

Young == Only(reassembly, {r \in ToSet(reassembly) : ~r.late})
Known(R, id) == \E i \in DOMAIN R : R[i].id = id
StreamEntry(R, id) == R[CHOOSE i \in DOMAIN R : R[i].id = id]
Kept(R, c) == Only(R, {r \in ToSet(R) : r.id # c.id})

\* Room for one more message: the browser drops the oldest, the cache node has no limit.
StreamOpened(R, c) ==
    IF Known(R, c.id) THEN R
    ELSE Append(IF to = "web" /\ Len(R) >= MaxPending THEN Tail(R) ELSE R,
                [id |-> c.id, total |-> c.total, got |-> <<>>, late |-> FALSE])

\* The chunk added to its message, unless it is there.
Filled(R, c) ==
    [i \in DOMAIN R |->
       IF R[i].id # c.id \/ c.seq \in DOMAIN R[i].got THEN R[i]
       ELSE [R[i] EXCEPT !.got = [s \in DOMAIN @ \cup {c.seq} |->
                                    IF s = c.seq THEN c.part ELSE @[s]]]]

\* receive() of a chunk; the cache node's forgets first what has timed out, and the
\* browser's refuses messages that are too long or change their length.
Reassembles(c) ==
    LET R == StreamOpened(IF to = "cache" THEN Young ELSE reassembly, c)
        F == Filled(R, c)
        e == StreamEntry(F, c.id)
    IN  IF to = "web" /\ c.total > MaxChunks THEN UNCHANGED <<reassembly, arrived>>
        ELSE IF to = "web" /\ StreamEntry(R, c.id).total # c.total
             THEN reassembly' = Kept(R, c) /\ arrived' = arrived
        ELSE IF Cardinality(DOMAIN e.got) = e.total
             THEN /\ reassembly' = Kept(F, c)
                  /\ arrived' = Append(arrived, [i \in 1..e.total |-> e.got[i]])
        ELSE reassembly' = F /\ arrived' = arrived

Receive ==
    LET c == Head(buffer)
    IN  /\ dc = "open" /\ buffer # <<>> /\ buffer' = Tail(buffer)
        /\ IF c.total = 1 THEN arrived' = Append(arrived, <<c.part>>) /\ reassembly' = reassembly
           ELSE Reassembles(c)
        /\ UNCHANGED <<from, to, dc, sends, msg_counter, strained>>

\* Ten seconds pass.
TimesOut ==
    /\ \E i \in DOMAIN reassembly : ~reassembly[i].late
    /\ reassembly' = [i \in DOMAIN reassembly |-> [reassembly[i] EXCEPT !.late = TRUE]]
    /\ strained' = TRUE
    /\ UNCHANGED <<from, to, dc, buffer, sends, msg_counter, arrived>>

\* The browser's cleanup timer.
CleanupTimer ==
    /\ to = "web" /\ Young # reassembly /\ reassembly' = Young
    /\ UNCHANGED <<from, to, dc, buffer, sends, msg_counter, arrived, strained>>

-----------------------------------------------------------------------------
ChannelInit ==
    /\ from \in {"web", "cache"} /\ to \in {"web", "cache"} /\ "web" \in {from, to}
    /\ dc = "open" /\ buffer = <<>> /\ msg_counter = 0
    /\ sends = [m \in Message |-> [is |-> "new", id |-> 0, next |-> 1]]
    /\ reassembly = <<>> /\ arrived = <<>> /\ strained = FALSE

ChannelNext ==
    \/ \E m \in Message : Send(m) \/ Proceeds(m) \/ Throws(m)
    \/ Close \/ Receive \/ TimesOut \/ CleanupTimer

ChannelSpec == ChannelInit /\ [][ChannelNext]_channel_vars

\* The timers of the sender fire, and the network carries what is buffered.
ChannelFairness ==
    /\ \A m \in Message : WF_channel_vars(Proceeds(m) \/ Throws(m))
    /\ WF_channel_vars(Receive)

-----------------------------------------------------------------------------
(* Properties *)

\* Sends that interleave, evictions and timeouts: what is handed on is a message as it was
\* sent, never one mixed from two, and no message comes twice (ChunkedReceiver.receive).
\* While nothing timed out and there was room for all of them, none is missing but those
\* the browser takes for too long.
Intact ==
    /\ \A i \in DOMAIN arrived : arrived[i] \in {Whole(m) : m \in Message}
    /\ IsInjective(arrived)
    /\ dc = "open" /\ buffer = <<>> /\ ~strained =>
         \A m \in Message : sends[m].is = "sent" /\ Length[m] <= MaxChunks =>
           Whole(m) \in ToSet(arrived)
    /\ to = "web" => Len(reassembly) <= MaxPending

\* A send that waits for room in the buffer ends, unless the channel closes meanwhile:
\* then it may poll for ever (ChunkedSender.send).
SendsEnd == \A m \in Message : Sending(m) ~> ~Sending(m) \/ dc = "closed"
=============================================================================
