--------------------------- MODULE TrackerSession ---------------------------
(***************************************************************************)
(* Registration with a tracker, both ends: SignalingClient.ts with the     *)
(* tracker session of PeerManager.ts on the nodes, TrackerServer.ts and    *)
(* SessionManager.ts on the server.                                        *)
(*                                                                         *)
(* A socket has a client end and a server end.  Each end learns at its own *)
(* time that the other is gone, or never does; what was sent before may be *)
(* lost.  A join is verified an await after it arrived.  Signatures cannot *)
(* be forged, so a socket registers the identity of its own node.          *)
(***************************************************************************)
EXTENDS Integers, Sequences, FiniteSets

CONSTANTS
    Node,           \* AetherNode objects: two may share an identity (a second tab)
    Id,
    IdOf,
    Address,
    AddressOf,
    MaxSessions,
    MaxPerAddress,  \* maxConnectionsPerAddress
    MaxSocks,       \* bound: sockets opened
    MaxCalls,       \* bound: calls of setTrackerUrl and sendRelay
    MaxStops        \* bound: nodes that stop

ASSUME TrackerSessionAssumption ==
    /\ IdOf \in [Node -> Id] /\ AddressOf \in [Node -> Address]
    /\ MaxSessions \in Nat \ {0} /\ MaxPerAddress \in Nat \ {0}
    /\ {MaxSocks, MaxCalls, MaxStops} \subseteq Nat

Sock == 1..MaxSocks
None == 0

\* What the two ends say to each other; anything else is dropped or refused.
ToServer == {"join", "relay"}
ToClient == {"hello", "peers", "error", "relay"}

VARIABLES
    status,     \* "new", "running" or "stopped" (terminal)
    url,        \* a tracker is configured
    ws,         \* SignalingClient.ws
    current,    \* the socket whose generation is this.generation
    detach,     \* detachTimer is running
    owner,      \* owner[s]: the node that opened s; sockets are numbered in order
    cl,         \* readyState of the client end
    phase,      \* "hello", "joining", "joined", or "over" once it failed or closed
    sv,         \* readyState of the server end
    nonce,      \* conn.nonce: "unset", "live" or "used"
    timer,      \* conn.handshakeTimer is running
    named,      \* conn.peerId is set
    up, down,   \* messages on their way to the server and to the client
    conns,      \* connections
    perAddress,
    sessions,   \* SessionManager.sessions
    shut,       \* TrackerServer.stopped
    calls       \* number of calls of setTrackerUrl and sendRelay

node   == <<status, url, ws, current, detach>>
client == <<owner, cl, phase>>
conn   == <<sv, nonce, timer, named>>
server == <<conns, perAddress, sessions, shut>>
vars   == <<node, client, conn, server, up, down, calls>>

-----------------------------------------------------------------------------
(* SignalingClient *)

Opened == DOMAIN owner

Connected(n) == ws[n] # None /\ cl[ws[n]] = "open"

\* this.pending
Attempting(n) == current[n] # None /\ phase[current[n]] \in {"hello", "joining"}

\* closeSocket: the client ends after it.
Closing(n) ==
    IF ws[n] # None /\ cl[ws[n]] \in {"connecting", "open"}
    THEN [cl EXCEPT ![ws[n]] = "closing"] ELSE cl

Disconnect(n) ==
    /\ ws' = [ws EXCEPT ![n] = None]
    /\ current' = [current EXCEPT ![n] = None]
    /\ cl' = Closing(n)
    /\ UNCHANGED <<owner, phase>>

\* What is left of connect() once it knows that it must open a socket.
OpenSocket(n) ==
    /\ Len(owner) < MaxSocks
    /\ owner' = Append(owner, n)
    /\ cl' = [Closing(n) EXCEPT ![Len(owner')] = "connecting"]
    /\ ws' = [ws EXCEPT ![n] = Len(owner')]
    /\ current' = [current EXCEPT ![n] = Len(owner')]
    /\ UNCHANGED phase

\* connectTracker() up to its await, or to its end when there is nothing to await.
ConnectTracker(n) ==
    IF url[n] /\ ~Connected(n) /\ ~Attempting(n)
    THEN OpenSocket(n) /\ UNCHANGED detach
    ELSE /\ detach' = IF url[n] /\ Connected(n) THEN [detach EXCEPT ![n] = TRUE]
                                                ELSE detach
         /\ UNCHANGED <<ws, current, client>>

Start(n) ==
    /\ status[n] = "new"
    /\ status' = [status EXCEPT ![n] = "running"]
    /\ ConnectTracker(n)
    /\ UNCHANGED <<url, conn, server, up, down, calls>>

\* The re-announce timer, with fewer than four neighbours.
ReannounceTick(n) ==
    /\ status[n] = "running" /\ ~Connected(n)
    /\ ConnectTracker(n)
    /\ UNCHANGED <<status, url, conn, server, up, down, calls>>

\* setUrl(): an address that does not parse changes nothing.  The socket in use is
\* closed by what its caller does next.
SetUrl(n, on) == url' = [url EXCEPT ![n] = on]

\* setTrackerUrl with reconnectTracker.
SetTrackerUrl(n, on) ==
    /\ status[n] # "stopped"
    /\ calls < MaxCalls /\ calls' = calls + 1
    /\ SetUrl(n, on)
    /\ IF on /\ status[n] = "running"
       THEN OpenSocket(n) /\ detach' = [detach EXCEPT ![n] = FALSE]
       ELSE Disconnect(n) /\ UNCHANGED detach
    /\ UNCHANGED <<status, conn, server, up, down>>

DetachFires(n) ==
    /\ detach[n] /\ detach' = [detach EXCEPT ![n] = FALSE]
    /\ Disconnect(n)
    /\ UNCHANGED <<status, url, conn, server, up, down, calls>>

Stop(n) ==
    /\ status[n] # "stopped"
    /\ Cardinality({m \in Node : status[m] = "stopped"}) < MaxStops
    /\ status' = [status EXCEPT ![n] = "stopped"]
    /\ detach' = [detach EXCEPT ![n] = FALSE]
    /\ Disconnect(n)
    /\ UNCHANGED <<url, conn, server, up, down, calls>>

\* fail(): what an attempt does when it cannot succeed any more.
Fail(s) ==
    LET n == owner[s]
    IN  /\ phase' = [phase EXCEPT ![s] = "over"]
        /\ IF ws[n] = s THEN ws' = [ws EXCEPT ![n] = None] /\ cl' = Closing(n)
                        ELSE UNCHANGED <<ws, cl>>

ConnectTimeout(s) ==
    /\ s \in Opened /\ phase[s] \in {"hello", "joining"}
    /\ Fail(s)
    /\ UNCHANGED <<status, url, current, detach, owner, conn, server, up, down,
                   calls>>

\* The upgrade is answered.
SocketOpens(s) ==
    /\ s \in Opened /\ cl[s] = "connecting" /\ sv[s] # "none"
    /\ cl' = [cl EXCEPT ![s] = "open"]
    /\ UNCHANGED <<node, owner, phase, conn, server, up, down, calls>>

\* Mutant: the close of any socket of the node forgets the one in use.
ForgetAny(s) == [ws EXCEPT ![owner[s]] = None]

Forget(s) == IF ws[owner[s]] = s THEN [ws EXCEPT ![owner[s]] = None] ELSE ws

\* onerror and onclose: the other end closed, the network failed, or the socket
\* that was being closed is.
SocketClosed(s) ==
    /\ s \in Opened /\ cl[s] # "closed"
    /\ cl' = [cl EXCEPT ![s] = "closed"]
    /\ down' = [down EXCEPT ![s] = <<>>]
    /\ phase' = [phase EXCEPT ![s] = "over"]
    /\ ws' = Forget(s)
    /\ UNCHANGED <<status, url, current, detach, owner, conn, server, up, calls>>

\* Mutant: the detach timer is not started.
JoinedUnwatched(n) == UNCHANGED detach

\* connectTracker() after its await; its node is running, for stop() would have
\* ended the attempt.
Joined(n) == detach' = [detach EXCEPT ![n] = TRUE]

\* onmessage.  An end that is not open hears nothing, an old generation ignores it.
ClientMessage(s) ==
    /\ s \in Opened /\ cl[s] = "open" /\ down[s] # <<>>
    /\ down' = [down EXCEPT ![s] = Tail(@)]
    /\ LET n == owner[s]
           m == Head(down[s])
       IN  \/ /\ current[n] = s /\ phase[s] = "hello" /\ m = "hello"
              /\ phase' = [phase EXCEPT ![s] = "joining"]
              /\ up' = [up EXCEPT ![s] = Append(@, "join")]
              /\ UNCHANGED <<ws, detach, cl>>
           \/ /\ current[n] = s
              /\ \/ phase[s] = "hello" /\ m # "hello"
                 \/ phase[s] = "joining" /\ m = "error"
              /\ Fail(s)
              /\ UNCHANGED <<detach, up>>
           \/ /\ current[n] = s /\ phase[s] = "joining" /\ m = "peers"
              /\ phase' = [phase EXCEPT ![s] = "joined"]
              /\ Joined(n)
              /\ UNCHANGED <<ws, cl, up>>
           \/ /\ \/ current[n] # s
                 \/ phase[s] = "joined"
                 \/ phase[s] = "joining" /\ m \in {"hello", "relay"}
              /\ UNCHANGED <<ws, detach, phase, cl, up>>
    /\ UNCHANGED <<status, url, current, owner, conn, server, calls>>

\* A connection attempt that has no route over a neighbour sends its signal here,
\* whether the socket is registered or not.
SendRelay(n) ==
    /\ Connected(n) /\ calls < MaxCalls /\ calls' = calls + 1
    /\ up' = [up EXCEPT ![ws[n]] = Append(@, "relay")]
    /\ UNCHANGED <<node, client, conn, server, down>>

-----------------------------------------------------------------------------
(* TrackerServer and SessionManager *)

\* send: only an open end sends, and nothing reaches one that is closed.
Sent(s, m) ==
    IF sv[s] = "open" /\ cl[s] # "closed"
    THEN [down EXCEPT ![s] = Append(@, m)] ELSE down

\* ws.close() and ws.terminate() on the server ends of S.
Shutting(S) == [s \in Sock |-> IF s \in S /\ sv[s] = "open" THEN "closing" ELSE sv[s]]

\* sendError and close.
Reject(s) ==
    /\ down' = Sent(s, "error")
    /\ sv' = Shutting({s})

Full(a) == perAddress[a] >= MaxPerAddress

\* accept: one address may have only so many connections.
Accept(s) ==
    /\ s \in Opened /\ sv[s] = "none" /\ ~shut /\ cl[s] # "closed"
    /\ LET a == AddressOf[owner[s]]
       IN  IF Full(a)
           THEN /\ sv' = [sv EXCEPT ![s] = "closing"]
                /\ down' = [down EXCEPT ![s] = Append(@, "error")]
                /\ UNCHANGED <<conns, perAddress, timer>>
           ELSE /\ perAddress' = [perAddress EXCEPT ![a] = @ + 1]
                /\ conns' = conns \cup {s}
                /\ timer' = [timer EXCEPT ![s] = TRUE]
                /\ sv' = [sv EXCEPT ![s] = "open"]
                /\ UNCHANGED down
    /\ UNCHANGED <<node, client, nonce, named, sessions, shut, up, calls>>

\* sodium is ready: the challenge is sent.
SendHello(s) ==
    /\ s \in conns /\ nonce[s] = "unset" /\ sv[s] = "open"
    /\ nonce' = [nonce EXCEPT ![s] = "live"]
    /\ down' = Sent(s, "hello")
    /\ UNCHANGED <<node, client, sv, timer, named, server, up, calls>>

\* Mutant: a connection that shutdown() has dropped is released again.
CountedAgain(s) == TRUE

\* this.connections.delete(ws)
Counted(s) == s \in conns

\* Mutant: the session of the peer is removed, whichever socket it is on.
LosesAny(i, s) == IdOf[owner[s]] = i

\* The close listener of registerSession.
Loses(i, s) == sessions[i] = s

\* release, and the session the socket had.
Release(s) ==
    /\ IF Counted(s)
       THEN /\ conns' = conns \ {s}
            /\ timer' = [timer EXCEPT ![s] = FALSE]
            /\ perAddress' = [perAddress EXCEPT ![AddressOf[owner[s]]] = @ - 1]
       ELSE UNCHANGED <<conns, timer, perAddress>>
    /\ sessions' = [i \in Id |-> IF Loses(i, s) THEN None ELSE sessions[i]]

\* The close event of the server end: the closing handshake or its time limit is
\* over, or the other end is gone.
ServerClosed(s) ==
    /\ \/ sv[s] = "closing"
       \/ sv[s] = "open" /\ cl[s] \in {"closing", "closed"}
    /\ sv' = [sv EXCEPT ![s] = "closed"]
    /\ Release(s)
    /\ UNCHANGED <<node, client, nonce, named, shut, up, down, calls>>

\* The socket that is replaced is closed.
Replaced(old) == IF old = None THEN sv ELSE Shutting({old})

\* registerSession, and what handleJoin does with the socket it replaces.
Register(s) ==
    LET i   == IdOf[owner[s]]
        old == sessions[i]
    IN  IF old = None /\ Cardinality({j \in Id : sessions[j] # None}) >= MaxSessions
        THEN Reject(s) /\ UNCHANGED <<timer, named, sessions>>
        ELSE /\ sessions' = [sessions EXCEPT ![i] = s]
             /\ timer' = [timer EXCEPT ![s] = FALSE]
             /\ named' = [t \in Sock |-> IF t = s THEN TRUE
                                         ELSE IF t = old THEN FALSE ELSE named[t]]
             /\ sv' = Replaced(old)
             /\ down' = Sent(s, "peers")

\* Mutant: a socket that is closing or closed registers all the same.
VerifiedClosedToo(s) == Register(s)

\* The last check of handleJoin.
Verified(s) ==
    IF sv[s] = "open" THEN Register(s) ELSE UNCHANGED <<sv, timer, named, sessions, down>>

\* handleJoin after its await: the socket may have closed since the join was
\* received.  Host, version, proof of work or signature may be refused; the limit on
\* joins is never met by one per socket.
HandleJoin(s) ==
    /\ sv[s] # "none" /\ up[s] # <<>> /\ Head(up[s]) = "join"
    /\ up' = [up EXCEPT ![s] = Tail(@)]
    /\ nonce' = [nonce EXCEPT ![s] = "used"]
    /\ \/ nonce[s] = "live" /\ Verified(s)
       \/ Reject(s) /\ UNCHANGED <<timer, named, sessions>>
    /\ UNCHANGED <<node, client, conns, perAddress, shut, calls>>

\* handleRelay to the peer t; nobody is told that t is absent.
HandleRelay(s, t) ==
    /\ s \in conns /\ up[s] # <<>> /\ Head(up[s]) = "relay"
    /\ up' = [up EXCEPT ![s] = Tail(@)]
    /\ IF ~named[s] THEN Reject(s)
       ELSE /\ down' = IF t # IdOf[owner[s]] /\ sessions[t] # None
                       THEN Sent(sessions[t], "relay") ELSE down
            /\ UNCHANGED sv
    /\ UNCHANGED <<node, client, nonce, timer, named, server, calls>>

HandshakeTimeout(s) ==
    /\ timer[s] /\ timer' = [timer EXCEPT ![s] = FALSE]
    /\ IF named[s] THEN UNCHANGED <<sv, down>> ELSE Reject(s)
    /\ UNCHANGED <<node, client, nonce, named, server, up, calls>>

\* cleanupPings finds a session that has not answered.
Idle(i) ==
    /\ sessions[i] # None
    /\ sv' = Shutting({sessions[i]})
    /\ sessions' = [sessions EXCEPT ![i] = None]
    /\ UNCHANGED <<node, client, nonce, timer, named, conns, perAddress,
                   shut, up, down, calls>>

NoSessions == [i \in Id |-> None]

\* SessionManager.destroy(); the sockets of its sessions are closed with the others.
Destroy == sessions' = NoSessions

Shutdown ==
    /\ ~shut /\ shut' = TRUE
    /\ timer' = [s \in Sock |-> FALSE]
    /\ sv' = Shutting(conns)
    /\ conns' = {}
    /\ perAddress' = [a \in Address |-> 0]
    /\ Destroy
    /\ UNCHANGED <<node, client, nonce, named, up, down, calls>>

-----------------------------------------------------------------------------
ServerInit ==
    /\ conns = {} /\ perAddress = [a \in Address |-> 0]
    /\ sessions = NoSessions /\ shut = FALSE

Init ==
    /\ ServerInit
    /\ status = [n \in Node |-> "new"] /\ url = [n \in Node |-> TRUE]
    /\ ws = [n \in Node |-> None] /\ current = [n \in Node |-> None]
    /\ detach = [n \in Node |-> FALSE]
    /\ cl = [s \in Sock |-> "closed"] /\ phase = [s \in Sock |-> "hello"]
    /\ owner = <<>>
    /\ sv = [s \in Sock |-> "none"] /\ nonce = [s \in Sock |-> "unset"]
    /\ timer = [s \in Sock |-> FALSE] /\ named = [s \in Sock |-> FALSE]
    /\ up = [s \in Sock |-> <<>>] /\ down = [s \in Sock |-> <<>>]
    /\ calls = 0

Next ==
    \/ \E n \in Node :
         \/ Start(n) \/ ReannounceTick(n) \/ DetachFires(n) \/ Stop(n) \/ SendRelay(n)
         \/ \E on \in BOOLEAN : SetTrackerUrl(n, on)
    \/ \E s \in Sock :
         \/ ConnectTimeout(s) \/ SocketOpens(s) \/ SocketClosed(s) \/ ClientMessage(s)
         \/ Accept(s) \/ SendHello(s) \/ ServerClosed(s) \/ HandleJoin(s)
         \/ HandshakeTimeout(s)
         \/ \E i \in Id : HandleRelay(s, i)
    \/ \E i \in Id : Idle(i)
    \/ Shutdown

Spec == Init /\ [][Next]_vars

-----------------------------------------------------------------------------
(* Properties *)

ClientType ==
    /\ status \in [Node -> {"new", "running", "stopped"}] /\ url \in [Node -> BOOLEAN]
    /\ ws \in [Node -> Opened \cup {None}] /\ current \in [Node -> Opened \cup {None}]
    /\ detach \in [Node -> BOOLEAN]
    /\ owner \in Seq(Node) /\ Len(owner) <= MaxSocks
    /\ cl \in [Sock -> {"connecting", "open", "closing", "closed"}]
    /\ phase \in [Sock -> {"hello", "joining", "joined", "over"}]

ServerType ==
    /\ sv \in [Sock -> {"none", "open", "closing", "closed"}]
    /\ nonce \in [Sock -> {"unset", "live", "used"}]
    /\ timer \in [Sock -> BOOLEAN] /\ named \in [Sock -> BOOLEAN]
    /\ conns \subseteq Sock
    /\ perAddress \in [Address -> Int] /\ \A a \in Address : perAddress[a] <= MaxPerAddress
    /\ sessions \in [Id -> Sock \cup {None}] /\ shut \in BOOLEAN

WireType ==
    /\ up \in [Sock -> Seq(ToServer)] /\ down \in [Sock -> Seq(ToClient)]
    /\ calls \in 0..MaxCalls

\* The variables have their types and no address has too many connections.
TypeOK == ClientType /\ ServerType /\ WireType

\* The counter of every address is the number of its connections, across
\* refusals, closes that cross each other, and shutdown (accept, release).
AddressExact ==
    \A a \in Address :
      perAddress[a] = Cardinality({s \in conns : AddressOf[owner[s]] = a})

\* Every session is a connection that has yet to close: no socket registers after
\* it closed, although a join is verified after an await (handleJoin).  There are
\* never more than MaxSessions, and a connection that has no session is being timed
\* (handshakeTimer), whatever became of its join.
NoGhosts ==
    /\ \A i \in Id : sessions[i] # None =>
         sessions[i] \in conns /\ named[sessions[i]] /\ IdOf[owner[sessions[i]]] = i
    /\ Cardinality({i \in Id : sessions[i] # None}) <= MaxSessions
    /\ \A s \in conns : sv[s] = "open" /\ ~named[s] => timer[s]

\* A node that takes itself for registered is found by the others: as long as both
\* ends are open, the session of its identity is this socket, whichever older
\* sockets of the same identity close meanwhile.
Registered ==
    \A s \in Opened :
      phase[s] = "joined" /\ cl[s] = "open" /\ sv[s] = "open"
        => sessions[IdOf[owner[s]]] = s

\* A node has at most one socket that is connecting or open, the one in use: it
\* never registers twice (connect, setUrl, onclose of earlier sockets).  One that
\* stopped has none and never gets one again (stop).
OneSocket ==
    \A s \in Opened :
      cl[s] \in {"connecting", "open"} => ws[owner[s]] = s /\ status[owner[s]] = "running"

\* A registered node is about to detach: the tracker sees it for a limited time
\* (connectTracker), although timers of earlier connections still run.
Detaching ==
    \A s \in Opened : phase[s] = "joined" /\ cl[s] = "open" => detach[owner[s]]
=============================================================================
