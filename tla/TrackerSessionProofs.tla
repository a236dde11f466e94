------------------------ MODULE TrackerSessionProofs ------------------------
(***************************************************************************)
(* Proofs about TrackerSession for any nodes, identities, addresses,       *)
(* limits and number of sockets.                                           *)
(***************************************************************************)
EXTENDS TrackerSession, FiniteSetTheorems, SequenceTheorems, TLAPS

-----------------------------------------------------------------------------
(* Type correctness *)

\* closeSocket changes one client end, and only one that is connecting or open.
LEMMA ClosingShape ==
    ASSUME ClientType, NEW n \in Node
    PROVE  Closing(n) = [s \in Sock |->
             IF s = ws[n] /\ cl[s] \in {"connecting", "open"} THEN "closing" ELSE cl[s]]
<1>1. /\ cl \in [Sock -> {"connecting", "open", "closing", "closed"}]
      /\ ws[n] = None \/ ws[n] \in Sock
      /\ None \notin Sock
  BY TrackerSessionAssumption DEF ClientType, Opened, Sock, None
<1>2. CASE ws[n] \in Sock
  BY <1>1, <1>2 DEF Closing
<1>3. CASE ws[n] = None
  BY <1>1, <1>3 DEF Closing
<1> QED BY <1>1, <1>2, <1>3

\* Opening a socket: its number is new, and all that was open of the node closes.
LEMMA OpenShape ==
    ASSUME ClientType, NEW n \in Node, OpenSocket(n)
    PROVE  LET k == Len(owner) + 1
           IN  /\ k \in Sock /\ k \notin Opened /\ Opened' = Opened \cup {k}
               /\ owner' \in Seq(Node) /\ Len(owner') = k /\ owner'[k] = n
               /\ \A s \in Opened : owner'[s] = owner[s]
               /\ cl' = [s \in Sock |->
                    IF s = k THEN "connecting"
                    ELSE IF s = ws[n] /\ cl[s] \in {"connecting", "open"} THEN "closing"
                    ELSE cl[s]]
               /\ ws' = [ws EXCEPT ![n] = k] /\ current' = [current EXCEPT ![n] = k]
               /\ phase' = phase
<1> DEFINE k == Len(owner) + 1
<1>1. owner \in Seq(Node) /\ Len(owner) \in Nat /\ Len(owner) < MaxSocks
  BY DEF ClientType, OpenSocket
<1>2. owner' = Append(owner, n)
  BY DEF OpenSocket
<1>3. owner' \in Seq(Node) /\ Len(owner') = k /\ owner'[k] = n
  BY <1>1, <1>2
<1>4. \A s \in 1..Len(owner) : owner'[s] = owner[s]
  BY <1>1, <1>2
<1>5. k \in Sock /\ DOMAIN owner = 1..Len(owner) /\ DOMAIN owner' = 1..k
  BY <1>1, <1>3, TrackerSessionAssumption DEF Sock
<1>6. cl' = [Closing(n) EXCEPT ![k] = "connecting"]
  BY <1>3 DEF OpenSocket
<1>7. cl' = [s \in Sock |->
               IF s = k THEN "connecting"
               ELSE IF s = ws[n] /\ cl[s] \in {"connecting", "open"} THEN "closing"
               ELSE cl[s]]
  <2>1. Closing(n) = [s \in Sock |->
          IF s = ws[n] /\ cl[s] \in {"connecting", "open"} THEN "closing" ELSE cl[s]]
    BY ClosingShape
  <2> HIDE DEF k
  <2> QED BY <1>5, <1>6, <2>1
<1>8. Opened = 1..Len(owner) /\ Opened' = 1..k /\ k \notin Opened
      /\ Opened' = Opened \cup {k}
  BY <1>1, <1>5 DEF Opened
<1>9. ws' = [ws EXCEPT ![n] = k] /\ current' = [current EXCEPT ![n] = k] /\ phase' = phase
  BY <1>3 DEF OpenSocket
<1> QED BY <1>3, <1>4, <1>5, <1>7, <1>8, <1>9

LEMMA OpenType ==
    ASSUME ClientType, NEW n \in Node, OpenSocket(n)
    PROVE  /\ ws' \in [Node -> Opened' \cup {None}] /\ current' \in [Node -> Opened' \cup {None}]
           /\ owner' \in Seq(Node) /\ Len(owner') <= MaxSocks
           /\ cl' \in [Sock -> {"connecting", "open", "closing", "closed"}]
           /\ phase' \in [Sock -> {"hello", "joining", "joined", "over"}]
<1> DEFINE k == Len(owner) + 1
<1>1. k <= MaxSocks
  BY TrackerSessionAssumption DEF OpenSocket, ClientType
<1>2. /\ k \in Opened' /\ Opened \subseteq Opened' /\ owner' \in Seq(Node) /\ Len(owner') = k
      /\ ws' = [ws EXCEPT ![n] = k] /\ current' = [current EXCEPT ![n] = k] /\ phase' = phase
  BY OpenShape
<1>3. cl' \in [Sock -> {"connecting", "open", "closing", "closed"}]
  BY OpenShape DEF ClientType
<1> HIDE DEF k
<1> QED BY <1>1, <1>2, <1>3 DEF ClientType

LEMMA DisconnectType ==
    ASSUME ClientType, NEW n \in Node, Disconnect(n)
    PROVE  /\ ws' \in [Node -> Opened' \cup {None}] /\ current' \in [Node -> Opened' \cup {None}]
           /\ owner' \in Seq(Node) /\ Len(owner') <= MaxSocks
           /\ cl' \in [Sock -> {"connecting", "open", "closing", "closed"}]
           /\ phase' \in [Sock -> {"hello", "joining", "joined", "over"}]
BY ClosingShape DEF ClientType, Disconnect, Opened

\* A failed attempt forgets and closes its socket if that is the one in use.
LEMMA FailShape ==
    ASSUME ClientType, NEW s \in Opened, Fail(s)
    PROVE  /\ s \in Sock /\ owner[s] \in Node
           /\ phase' = [phase EXCEPT ![s] = "over"]
           /\ ws' = [m \in Node |-> IF m = owner[s] /\ ws[m] = s THEN None ELSE ws[m]]
           /\ cl' = [t \in Sock |->
                IF t = s /\ ws[owner[s]] = s /\ cl[s] \in {"connecting", "open"}
                THEN "closing" ELSE cl[t]]
<1> DEFINE n == owner[s]
<1>1. n \in Node /\ s \in Sock
  BY TrackerSessionAssumption DEF ClientType, Opened, Sock
<1>2. Closing(n) = [t \in Sock |->
        IF t = ws[n] /\ cl[t] \in {"connecting", "open"} THEN "closing" ELSE cl[t]]
  BY <1>1, ClosingShape
<1>3. /\ ws \in [Node -> Opened \cup {None}]
      /\ cl \in [Sock -> {"connecting", "open", "closing", "closed"}]
  BY DEF ClientType
<1> HIDE DEF n
<1>4. CASE ws[n] = s
  BY <1>1, <1>2, <1>3, <1>4 DEF Fail, n
<1>5. CASE ws[n] # s
  BY <1>1, <1>3, <1>5 DEF Fail, n
<1> QED BY <1>4, <1>5

LEMMA FailType ==
    ASSUME ClientType, NEW s \in Opened, Fail(s), current' = current, owner' = owner
    PROVE  /\ ws' \in [Node -> Opened' \cup {None}] /\ current' \in [Node -> Opened' \cup {None}]
           /\ cl' \in [Sock -> {"connecting", "open", "closing", "closed"}]
           /\ phase' \in [Sock -> {"hello", "joining", "joined", "over"}]
BY FailShape DEF ClientType, Opened

LEMMA SentType ==
    ASSUME TypeOK, NEW s \in Sock, NEW m \in ToClient
    PROVE  Sent(s, m) \in [Sock -> Seq(ToClient)]
<1>1. down \in [Sock -> Seq(ToClient)]
  BY DEF TypeOK, WireType
<1>2. Append(down[s], m) \in Seq(ToClient)
  BY <1>1
<1> QED BY <1>1, <1>2 DEF Sent

LEMMA ShuttingType ==
    ASSUME ServerType, NEW S
    PROVE  Shutting(S) \in [Sock -> {"none", "open", "closing", "closed"}]
BY DEF ServerType, Shutting

LEMMA InitType == Init => TypeOK
<1> SUFFICES ASSUME Init PROVE TypeOK
  OBVIOUS
<1>1. ClientType
  <2>1. owner \in Seq(Node) /\ Len(owner) <= MaxSocks
    <3>1. owner = <<>>
      BY DEF Init, ServerInit, NoSessions
    <3> QED BY <3>1, TrackerSessionAssumption
  <2>2. /\ ws \in [Node -> Opened \cup {None}] /\ current \in [Node -> Opened \cup {None}]
    BY DEF Init, ServerInit, NoSessions
  <2>3. /\ cl \in [Sock -> {"connecting", "open", "closing", "closed"}]
        /\ phase \in [Sock -> {"hello", "joining", "joined", "over"}]
    BY DEF Init, ServerInit, NoSessions
  <2>4. /\ status \in [Node -> {"new", "running", "stopped"}] /\ url \in [Node -> BOOLEAN]
        /\ detach \in [Node -> BOOLEAN]
    BY DEF Init, ServerInit, NoSessions
  <2> QED BY <2>1, <2>2, <2>3, <2>4 DEF ClientType
<1>2. ServerType
  <2>1. /\ sv \in [Sock -> {"none", "open", "closing", "closed"}]
        /\ nonce \in [Sock -> {"unset", "live", "used"}]
        /\ timer \in [Sock -> BOOLEAN] /\ named \in [Sock -> BOOLEAN]
    BY DEF Init, ServerInit, NoSessions
  <2>2. perAddress \in [Address -> Int] /\ \A a \in Address : perAddress[a] <= MaxPerAddress
    BY TrackerSessionAssumption DEF Init, ServerInit, NoSessions
  <2>3. conns \subseteq Sock /\ sessions \in [Id -> Sock \cup {None}] /\ shut \in BOOLEAN
    BY DEF Init, ServerInit, NoSessions
  <2> QED BY <2>1, <2>2, <2>3 DEF ServerType
<1>3. WireType
  BY TrackerSessionAssumption DEF Init, ServerInit, NoSessions, WireType
<1> QED BY <1>1, <1>2, <1>3 DEF TypeOK

\* What the steps of the nodes do to the server's side of the state, and the reverse.
LEMMA Untouched ==
    /\ ClientType /\ UNCHANGED <<node, client>> => ClientType'
    /\ ServerType /\ UNCHANGED <<conn, server>> => ServerType'
    /\ WireType /\ UNCHANGED <<up, down, calls>> => WireType'
BY DEF ClientType, ServerType, WireType, node, client, conn, server, Opened

LEMMA NextType == TypeOK /\ [Next]_vars => TypeOK'
<1> SUFFICES ASSUME TypeOK, [Next]_vars PROVE TypeOK'
  OBVIOUS
<1> USE TrackerSessionAssumption
<1>0. ClientType /\ ServerType /\ WireType
  BY DEF TypeOK
<1>1. ASSUME NEW n \in Node, ConnectTracker(n), status' \in [Node -> {"new", "running", "stopped"}],
             UNCHANGED <<url, conn, server, up, down, calls>>
      PROVE  TypeOK'
  <2>1. CASE url[n] /\ ~Connected(n) /\ ~Attempting(n)
    <3>1. OpenSocket(n) /\ detach' = detach
      BY <1>1, <2>1 DEF ConnectTracker
    <3>2. ClientType'
      BY <1>0, <1>1, <3>1, OpenType DEF ClientType
    <3> QED BY <1>0, <1>1, <3>2, Untouched DEF TypeOK
  <2>2. CASE ~(url[n] /\ ~Connected(n) /\ ~Attempting(n))
    <3>1. UNCHANGED <<ws, current, owner, cl, phase>> /\ detach' \in [Node -> BOOLEAN]
      BY <1>0, <1>1, <2>2 DEF ConnectTracker, client, ClientType
    <3>2. ClientType'
      BY <1>0, <1>1, <3>1 DEF ClientType, Opened
    <3> QED BY <1>0, <1>1, <3>2, Untouched DEF TypeOK
  <2> QED BY <2>1, <2>2
<1>2. ASSUME NEW n \in Node, Start(n) PROVE TypeOK'
  <2>1. status' \in [Node -> {"new", "running", "stopped"}]
    BY <1>0, <1>2 DEF Start, ClientType
  <2> QED BY <1>1, <1>2, <2>1 DEF Start
<1>3. ASSUME NEW n \in Node, ReannounceTick(n) PROVE TypeOK'
  <2>1. status' \in [Node -> {"new", "running", "stopped"}]
    BY <1>0, <1>3 DEF ReannounceTick, ClientType
  <2> QED BY <1>1, <1>3, <2>1 DEF ReannounceTick
<1>4. ASSUME NEW n \in Node, NEW on \in BOOLEAN, SetTrackerUrl(n, on) PROVE TypeOK'
  <2>1. /\ UNCHANGED <<status, conn, server, up, down>> /\ url' \in [Node -> BOOLEAN]
        /\ calls' \in 0..MaxCalls
    BY <1>0, <1>4 DEF SetTrackerUrl, SetUrl, ClientType, WireType
  <2>2. CASE on /\ status[n] = "running"
    <3>1. OpenSocket(n) /\ detach' = [detach EXCEPT ![n] = FALSE]
      BY <1>4, <2>2 DEF SetTrackerUrl, SetUrl
    <3>2. ClientType'
      BY <1>0, <2>1, <3>1, OpenType DEF ClientType
    <3> QED BY <1>0, <2>1, <3>2, Untouched DEF TypeOK, WireType
  <2>3. CASE ~(on /\ status[n] = "running")
    <3>1. Disconnect(n) /\ detach' = detach
      BY <1>4, <2>3 DEF SetTrackerUrl, SetUrl
    <3>2. ClientType'
      BY <1>0, <2>1, <3>1, DisconnectType DEF ClientType
    <3> QED BY <1>0, <2>1, <3>2, Untouched DEF TypeOK, WireType
  <2> QED BY <2>2, <2>3
<1>5. ASSUME NEW n \in Node, DetachFires(n) PROVE TypeOK'
  <2>1. ClientType'
    BY <1>0, <1>5, DisconnectType DEF DetachFires, ClientType
  <2> QED BY <1>0, <1>5, <2>1, Untouched DEF DetachFires, TypeOK
<1>6. ASSUME NEW n \in Node, Stop(n) PROVE TypeOK'
  <2>1. ClientType'
    BY <1>0, <1>6, DisconnectType DEF Stop, ClientType
  <2> QED BY <1>0, <1>6, <2>1, Untouched DEF Stop, TypeOK
<1>7. ASSUME NEW n \in Node, SendRelay(n) PROVE TypeOK'
  <2>1. ws[n] \in Sock
    BY <1>0, <1>7 DEF SendRelay, Connected, ClientType, Opened, Sock
  <2>2. Append(up[ws[n]], "relay") \in Seq(ToServer)
    BY <1>0, <2>1 DEF WireType, ToServer
  <2>3. WireType'
    BY <1>0, <1>7, <2>1, <2>2 DEF SendRelay, WireType
  <2> QED BY <1>0, <1>7, <2>3, Untouched DEF SendRelay, TypeOK
<1>8. ASSUME NEW s \in Sock, ConnectTimeout(s) PROVE TypeOK'
  <2>1. ClientType'
    BY <1>0, <1>8, FailType DEF ConnectTimeout, ClientType
  <2> QED BY <1>0, <1>8, <2>1, Untouched DEF ConnectTimeout, TypeOK
<1>9. ASSUME NEW s \in Sock, SocketOpens(s) PROVE TypeOK'
  <2>1. ClientType'
    BY <1>0, <1>9 DEF SocketOpens, ClientType, node, Opened
  <2> QED BY <1>0, <1>9, <2>1, Untouched DEF SocketOpens, TypeOK
<1>10. ASSUME NEW s \in Sock, SocketClosed(s) PROVE TypeOK'
  <2>1. ws' \in [Node -> Opened' \cup {None}]
    BY <1>0, <1>10 DEF SocketClosed, Forget, ClientType, Opened
  <2>2. ClientType'
    BY <1>0, <1>10, <2>1 DEF SocketClosed, ClientType, Opened
  <2>3. WireType'
    BY <1>0, <1>10 DEF SocketClosed, WireType
  <2> QED BY <1>0, <1>10, <2>2, <2>3, Untouched DEF SocketClosed, TypeOK
<1>11. ASSUME NEW s \in Sock, ClientMessage(s) PROVE TypeOK'
  <2>1. /\ s \in Opened /\ owner[s] \in Node /\ down[s] # <<>>
        /\ down' = [down EXCEPT ![s] = Tail(@)]
        /\ UNCHANGED <<status, url, current, owner, conn, server, calls>>
    BY <1>0, <1>11 DEF ClientMessage, ClientType, Opened
  <2>2. down' \in [Sock -> Seq(ToClient)]
    <3>1. down[s] \in Seq(ToClient)
      BY <1>0 DEF WireType
    <3>2. Tail(down[s]) \in Seq(ToClient)
      BY <2>1, <3>1
    <3> QED BY <1>0, <2>1, <3>2 DEF WireType
  <2>3. Append(up[s], "join") \in Seq(ToServer)
    BY <1>0 DEF WireType, ToServer
  <2>4. up' \in [Sock -> Seq(ToServer)] /\ detach' \in [Node -> BOOLEAN]
    BY <1>0, <1>11, <2>1, <2>3 DEF ClientMessage, Joined, WireType, ClientType
  <2>5. /\ ws' \in [Node -> Opened' \cup {None}]
        /\ cl' \in [Sock -> {"connecting", "open", "closing", "closed"}]
        /\ phase' \in [Sock -> {"hello", "joining", "joined", "over"}]
    <3>1. CASE Fail(s)
      BY <1>0, <2>1, <3>1, FailType
    <3>2. CASE ~Fail(s)
      <4>1. UNCHANGED <<ws, cl>> /\ phase' \in [Sock -> {"hello", "joining", "joined", "over"}]
        BY <1>0, <1>11, <3>2 DEF ClientMessage, ClientType
      <4> QED BY <1>0, <2>1, <4>1 DEF ClientType, Opened
    <3> QED BY <3>1, <3>2
  <2>6. ClientType'
    BY <1>0, <2>1, <2>4, <2>5 DEF ClientType, Opened
  <2> QED BY <1>0, <2>1, <2>2, <2>4, <2>6, Untouched DEF TypeOK, WireType
<1>12. ASSUME NEW s \in Sock, Accept(s) PROVE TypeOK'
  <2> DEFINE a == AddressOf[owner[s]]
  <2>1. a \in Address
    BY <1>0, <1>12 DEF Accept, Opened, ClientType
  <2>2. CASE Full(a)
    <3>1. Append(down[s], "error") \in Seq(ToClient)
      BY <1>0 DEF WireType, ToClient
    <3>2. /\ sv' = [sv EXCEPT ![s] = "closing"]
          /\ down' = [down EXCEPT ![s] = Append(down[s], "error")]
          /\ UNCHANGED <<conns, perAddress, timer, node, client, nonce, named, sessions, shut,
                         up, calls>>
      BY <1>12, <2>2 DEF Accept
    <3>3. ServerType'
      BY <1>0, <3>2 DEF ServerType
    <3>4. WireType'
      BY <1>0, <3>1, <3>2 DEF WireType
    <3> QED BY <1>0, <3>2, <3>3, <3>4, Untouched DEF TypeOK
  <2>3. CASE ~Full(a)
    <3>1. /\ perAddress' = [perAddress EXCEPT ![a] = @ + 1]
          /\ conns' = conns \cup {s} /\ timer' = [timer EXCEPT ![s] = TRUE]
          /\ sv' = [sv EXCEPT ![s] = "open"]
          /\ UNCHANGED <<down, node, client, nonce, named, sessions, shut, up, calls>>
      BY <1>12, <2>3 DEF Accept
    <3>2. perAddress' \in [Address -> Int] /\ \A b \in Address : perAddress'[b] <= MaxPerAddress
      BY <1>0, <2>1, <2>3, <3>1 DEF ServerType, Full
    <3>3. ServerType'
      BY <1>0, <3>1, <3>2 DEF ServerType
    <3> QED BY <1>0, <3>1, <3>3, Untouched DEF TypeOK
  <2> QED BY <2>2, <2>3
<1>13. ASSUME NEW s \in Sock, SendHello(s) PROVE TypeOK'
  <2>1. Sent(s, "hello") \in [Sock -> Seq(ToClient)]
    BY SentType DEF ToClient
  <2>2. WireType'
    BY <1>0, <1>13, <2>1 DEF SendHello, WireType
  <2>3. ServerType'
    BY <1>0, <1>13 DEF SendHello, ServerType, server
  <2> QED BY <1>0, <1>13, <2>2, <2>3, Untouched DEF SendHello, TypeOK
<1>14. ASSUME NEW s \in Sock, ServerClosed(s) PROVE TypeOK'
  <2>1. /\ sv' = [sv EXCEPT ![s] = "closed"] /\ Release(s)
        /\ UNCHANGED <<node, client, nonce, named, shut, up, down, calls>>
    BY <1>14 DEF ServerClosed
  <2>2. sessions' \in [Id -> Sock \cup {None}]
    BY <1>0, <2>1 DEF Release, Loses, ServerType
  <2>3. timer' \in [Sock -> BOOLEAN] /\ conns' \subseteq Sock
    BY <1>0, <2>1 DEF Release, Counted, ServerType
  <2>4. perAddress' \in [Address -> Int] /\ \A b \in Address : perAddress'[b] <= MaxPerAddress
    BY <1>0, <2>1 DEF Release, Counted, ServerType
  <2>5. ServerType'
    BY <1>0, <2>1, <2>2, <2>3, <2>4 DEF ServerType
  <2> QED BY <1>0, <2>1, <2>5, Untouched DEF TypeOK
<1>15. ASSUME NEW s \in Sock, HandleJoin(s) PROVE TypeOK'
  <2>1. /\ up[s] # <<>> /\ up' = [up EXCEPT ![s] = Tail(@)]
        /\ nonce' = [nonce EXCEPT ![s] = "used"]
        /\ Verified(s) \/ (Reject(s) /\ UNCHANGED <<timer, named, sessions>>)
        /\ UNCHANGED <<node, client, conns, perAddress, shut, calls>>
    BY <1>15 DEF HandleJoin
  <2>2. up' \in [Sock -> Seq(ToServer)]
    <3>1. up[s] \in Seq(ToServer)
      BY <1>0 DEF WireType
    <3>2. Tail(up[s]) \in Seq(ToServer)
      BY <2>1, <3>1
    <3> QED BY <1>0, <2>1, <3>2 DEF WireType
  <2>3. ASSUME Reject(s), UNCHANGED <<timer, named, sessions>> PROVE TypeOK'
    <3>1. down' \in [Sock -> Seq(ToClient)]
      BY <2>3, SentType DEF Reject, ToClient
    <3>2. ServerType'
      BY <1>0, <2>1, <2>3, ShuttingType DEF Reject, ServerType
    <3> QED BY <1>0, <2>1, <2>2, <3>1, <3>2, Untouched DEF TypeOK, WireType
  <2>4. CASE Verified(s) /\ sv[s] = "open"
    <3>1. Register(s)
      BY <2>4 DEF Verified
    <3> DEFINE i == IdOf[owner[s]]
               old == sessions[i]
    <3>2. CASE old = None /\ Cardinality({j \in Id : sessions[j] # None}) >= MaxSessions
      BY <2>3, <3>1, <3>2 DEF Register
    <3>3. CASE ~(old = None /\ Cardinality({j \in Id : sessions[j] # None}) >= MaxSessions)
      <4>1. /\ sessions' = [sessions EXCEPT ![i] = s] /\ timer' = [timer EXCEPT ![s] = FALSE]
            /\ named' = [t \in Sock |-> IF t = s THEN TRUE
                                        ELSE IF t = old THEN FALSE ELSE named[t]]
            /\ sv' = Replaced(old) /\ down' = Sent(s, "peers")
        BY <3>1, <3>3 DEF Register
      <4>2. down' \in [Sock -> Seq(ToClient)]
        BY <4>1, SentType DEF ToClient
      <4>3. sv' \in [Sock -> {"none", "open", "closing", "closed"}]
        BY <1>0, <4>1, ShuttingType DEF Replaced, ServerType
      <4>4. ServerType'
        BY <1>0, <2>1, <4>1, <4>3 DEF ServerType
      <4> QED BY <1>0, <2>1, <2>2, <4>2, <4>4, Untouched DEF TypeOK, WireType
    <3> QED BY <3>2, <3>3
  <2>5. CASE Verified(s) /\ sv[s] # "open"
    <3>1. UNCHANGED <<sv, timer, named, sessions, down>>
      BY <2>5 DEF Verified
    <3>2. ServerType'
      BY <1>0, <2>1, <3>1 DEF ServerType
    <3> QED BY <1>0, <2>1, <2>2, <3>1, <3>2, Untouched DEF TypeOK, WireType
  <2> QED BY <2>1, <2>3, <2>4, <2>5
<1>16. ASSUME NEW s \in Sock, NEW t \in Id, HandleRelay(s, t) PROVE TypeOK'
  <2>1. up' \in [Sock -> Seq(ToServer)]
    <3>1. up[s] \in Seq(ToServer) /\ up[s] # <<>> /\ up' = [up EXCEPT ![s] = Tail(@)]
      BY <1>0, <1>16 DEF WireType, HandleRelay
    <3>2. Tail(up[s]) \in Seq(ToServer)
      BY <3>1
    <3> QED BY <1>0, <3>1, <3>2 DEF WireType
  <2>2. sessions[t] # None => Sent(sessions[t], "relay") \in [Sock -> Seq(ToClient)]
    BY <1>0, SentType DEF ServerType, ToClient
  <2>3. Sent(s, "error") \in [Sock -> Seq(ToClient)]
    BY SentType DEF ToClient
  <2>4. down' \in [Sock -> Seq(ToClient)]
    BY <1>0, <1>16, <2>2, <2>3 DEF HandleRelay, Reject, WireType
  <2>5. ServerType'
    BY <1>0, <1>16, ShuttingType DEF HandleRelay, Reject, ServerType, server
  <2> QED BY <1>0, <1>16, <2>1, <2>4, <2>5, Untouched DEF HandleRelay, TypeOK, WireType
<1>17. ASSUME NEW s \in Sock, HandshakeTimeout(s) PROVE TypeOK'
  <2>1. Sent(s, "error") \in [Sock -> Seq(ToClient)]
    BY SentType DEF ToClient
  <2>2. WireType'
    BY <1>0, <1>17, <2>1 DEF HandshakeTimeout, Reject, WireType
  <2>3. ServerType'
    BY <1>0, <1>17, ShuttingType DEF HandshakeTimeout, Reject, ServerType, server
  <2> QED BY <1>0, <1>17, <2>2, <2>3, Untouched DEF HandshakeTimeout, TypeOK
<1>18. ASSUME NEW i \in Id, Idle(i) PROVE TypeOK'
  <2>1. ServerType'
    BY <1>0, <1>18, ShuttingType DEF Idle, ServerType
  <2> QED BY <1>0, <1>18, <2>1, Untouched DEF Idle, TypeOK
<1>19. CASE Shutdown
  <2>1. ServerType'
    BY <1>0, <1>19, ShuttingType DEF Shutdown, Destroy, NoSessions, ServerType
  <2> QED BY <1>0, <1>19, <2>1, Untouched DEF Shutdown, Destroy, NoSessions, TypeOK
<1>20. CASE UNCHANGED vars
  BY <1>0, <1>20, Untouched DEF vars, TypeOK
<1> QED BY <1>2, <1>3, <1>4, <1>5, <1>6, <1>7, <1>8, <1>9, <1>10, <1>11, <1>12, <1>13,
           <1>14, <1>15, <1>16, <1>17, <1>18, <1>19, <1>20 DEF Next

\* In every reachable state the variables have their types and no address has more
\* than MaxPerAddress connections (accept).
THEOREM TypeCorrect == Spec => []TypeOK
BY InitType, NextType, PTL DEF Spec

-----------------------------------------------------------------------------
(* The sockets of a node *)

\* No socket is registered before it was open.
Fresh ==
    \A s \in Sock : s \notin Opened \/ cl[s] = "connecting" => phase[s] # "joined"

\* The parts of OneSocket.
InUse == \A s \in Opened : cl[s] \in {"connecting", "open"} => ws[owner[s]] = s

Running ==
    \A s \in Opened : cl[s] \in {"connecting", "open"} => status[owner[s]] = "running"

ClientInv == InUse /\ Running /\ Detaching /\ Fresh

LEMMA InitClient == Init => ClientInv
BY DEF Init, ServerInit, NoSessions, ClientInv, InUse, Running, Detaching, Fresh, Opened

\* A new socket of a running node, with or without a reset of its detach timer.
LEMMA OpenClient ==
    ASSUME TypeOK, ClientInv, NEW n \in Node, OpenSocket(n),
           status'[n] = "running", \A m \in Node \ {n} : status'[m] = status[m],
           \A m \in Node \ {n} : detach'[m] = detach[m]
    PROVE  ClientInv'
<1> DEFINE k == Len(owner) + 1
<1>0. ClientType
  BY DEF TypeOK
<1>1. /\ k \in Sock /\ k \notin Opened /\ Opened' = Opened \cup {k} /\ owner'[k] = n
      /\ \A s \in Opened : owner'[s] = owner[s] /\ owner[s] \in Node /\ s \in Sock
      /\ ws' = [ws EXCEPT ![n] = k] /\ phase' = phase
  <2>1. \A s \in Opened : owner[s] \in Node /\ s \in Sock
    BY <1>0, TrackerSessionAssumption DEF ClientType, Opened, Sock
  <2> QED BY <1>0, <2>1, OpenShape
<1>2. /\ cl'[k] = "connecting"
      /\ \A s \in Sock \ {k} : /\ cl'[s] \in {cl[s], "closing"}
                               /\ s = ws[n] => cl'[s] \notin {"connecting", "open"}
  BY <1>0, <1>1, OpenShape
<1> HIDE DEF k
<1>3. ASSUME NEW s \in Opened, cl'[s] \in {"connecting", "open"}
      PROVE  cl[s] = cl'[s] /\ owner[s] # n /\ owner'[s] = owner[s] /\ ws[owner[s]] = s
  BY <1>1, <1>2, <1>3 DEF ClientInv, InUse
<1>4. InUse'
  BY <1>0, <1>1, <1>3 DEF InUse, ClientType
<1>5. Running'
  BY <1>1, <1>3 DEF ClientInv, Running
<1>6. Detaching'
  BY <1>1, <1>2, <1>3 DEF ClientInv, Detaching
<1>7. Fresh'
  BY <1>1, <1>2 DEF ClientInv, Fresh
<1> QED BY <1>4, <1>5, <1>6, <1>7 DEF ClientInv

\* After disconnect() the node has no socket that is connecting or open.
LEMMA DisconnectClient ==
    ASSUME TypeOK, ClientInv, NEW n \in Node, Disconnect(n),
           \A m \in Node \ {n} : status'[m] = status[m] /\ detach'[m] = detach[m]
    PROVE  ClientInv'
<1>0. ClientType
  BY DEF TypeOK
<1>1. /\ Opened' = Opened /\ owner' = owner /\ phase' = phase /\ ws' = [ws EXCEPT ![n] = None]
      /\ \A s \in Opened : owner[s] \in Node /\ s \in Sock
  BY <1>0, TrackerSessionAssumption DEF ClientType, Opened, Sock, Disconnect
<1>2. \A s \in Sock : /\ cl'[s] \in {cl[s], "closing"}
                      /\ s = ws[n] => cl'[s] \notin {"connecting", "open"}
  BY <1>0, ClosingShape DEF Disconnect
<1>3. ASSUME NEW s \in Opened, cl'[s] \in {"connecting", "open"}
      PROVE  cl[s] = cl'[s] /\ owner[s] # n /\ ws[owner[s]] = s
  BY <1>1, <1>2, <1>3 DEF ClientInv, InUse
<1>4. InUse'
  BY <1>0, <1>1, <1>3 DEF InUse, ClientType
<1>5. Running'
  BY <1>1, <1>3 DEF ClientInv, Running
<1>6. Detaching'
  BY <1>1, <1>3 DEF ClientInv, Detaching
<1>7. Fresh'
  BY <1>1, <1>2 DEF ClientInv, Fresh
<1> QED BY <1>4, <1>5, <1>6, <1>7 DEF ClientInv

LEMMA FailClient ==
    ASSUME TypeOK, ClientInv, NEW s \in Opened, Fail(s), UNCHANGED <<owner, status, detach>>
    PROVE  ClientInv'
<1>0. ClientType
  BY DEF TypeOK
<1>1. \A t \in Opened : owner[t] \in Node /\ t \in Sock
  BY <1>0, TrackerSessionAssumption DEF ClientType, Opened, Sock
<1>2. /\ phase' = [phase EXCEPT ![s] = "over"]
      /\ \A m \in Node : ws'[m] = IF m = owner[s] /\ ws[m] = s THEN None ELSE ws[m]
      /\ \A t \in Sock : /\ cl'[t] \in {cl[t], "closing"}
                         /\ t = s /\ ws[owner[s]] = s => cl'[t] \notin {"connecting", "open"}
  BY <1>0, FailShape
<1>3. \A t \in Sock : phase'[t] = IF t = s THEN "over" ELSE phase[t]
  BY <1>0, <1>2 DEF ClientType
<1>4. InUse'
  BY <1>1, <1>2 DEF ClientInv, InUse, Opened
<1>5. Running'
  BY <1>1, <1>2 DEF ClientInv, Running, Opened
<1>6. Detaching'
  BY <1>1, <1>2, <1>3 DEF ClientInv, Detaching, Opened
<1>7. Fresh'
  BY <1>1, <1>2, <1>3 DEF ClientInv, Fresh, Opened
<1> QED BY <1>4, <1>5, <1>6, <1>7 DEF ClientInv

LEMMA ConnectClient ==
    ASSUME TypeOK, ClientInv, NEW n \in Node, ConnectTracker(n),
           status'[n] = "running", \A m \in Node \ {n} : status'[m] = status[m]
    PROVE  ClientInv'
<1>1. CASE url[n] /\ ~Connected(n) /\ ~Attempting(n)
  BY <1>1, OpenClient DEF ConnectTracker
<1>2. CASE ~(url[n] /\ ~Connected(n) /\ ~Attempting(n))
  <2>1. /\ UNCHANGED <<ws, current, owner, cl, phase>>
        /\ \A m \in Node : detach[m] => detach'[m]
    BY <1>2 DEF ConnectTracker, client, TypeOK, ClientType
  <2>2. \A s \in Opened : owner[s] \in Node
    BY DEF TypeOK, ClientType, Opened
  <2> QED BY <2>1, <2>2
       DEF ClientInv, InUse, Running, Detaching, Fresh, Opened
<1> QED BY <1>1, <1>2

LEMMA NextClient == TypeOK /\ ClientInv /\ [Next]_vars => ClientInv'
<1> SUFFICES ASSUME TypeOK, ClientInv, [Next]_vars PROVE ClientInv'
  OBVIOUS
<1>0. ClientType
  BY DEF TypeOK
<1>1. \A s \in Opened : owner[s] \in Node /\ s \in Sock
  BY <1>0, TrackerSessionAssumption DEF ClientType, Opened, Sock
<1>2. ASSUME UNCHANGED <<node, client>> PROVE ClientInv'
  BY <1>2 DEF node, client, ClientInv, InUse, Running, Detaching, Fresh, Opened
<1>3. ASSUME NEW n \in Node, Start(n) PROVE ClientInv'
  BY <1>0, <1>3, ConnectClient DEF Start, ClientType
<1>4. ASSUME NEW n \in Node, ReannounceTick(n) PROVE ClientInv'
  BY <1>4, ConnectClient DEF ReannounceTick
<1>5. ASSUME NEW n \in Node, NEW on \in BOOLEAN, SetTrackerUrl(n, on) PROVE ClientInv'
  <2>1. status' = status
    BY <1>5 DEF SetTrackerUrl, SetUrl
  <2>2. CASE on /\ status[n] = "running"
    BY <1>0, <1>5, <2>1, <2>2, OpenClient DEF SetTrackerUrl, SetUrl, ClientType
  <2>3. CASE ~(on /\ status[n] = "running")
    BY <1>5, <2>1, <2>3, DisconnectClient DEF SetTrackerUrl, SetUrl
  <2> QED BY <2>2, <2>3
<1>6. ASSUME NEW n \in Node, DetachFires(n) PROVE ClientInv'
  BY <1>0, <1>6, DisconnectClient DEF DetachFires, ClientType
<1>7. ASSUME NEW n \in Node, Stop(n) PROVE ClientInv'
  BY <1>0, <1>7, DisconnectClient DEF Stop, ClientType
<1>8. ASSUME NEW s \in Sock, ConnectTimeout(s) PROVE ClientInv'
  BY <1>8, FailClient DEF ConnectTimeout
<1>9. ASSUME NEW s \in Sock, SocketOpens(s) PROVE ClientInv'
  <2>1. /\ s \in Opened /\ cl[s] = "connecting" /\ cl' = [cl EXCEPT ![s] = "open"]
        /\ UNCHANGED <<status, ws, detach, owner, phase>>
    BY <1>9 DEF SocketOpens, node
  <2>2. \A t \in Sock : cl'[t] = IF t = s THEN "open" ELSE cl[t]
    BY <1>0, <2>1 DEF ClientType
  <2> QED BY <1>1, <2>1, <2>2
       DEF ClientInv, InUse, Running, Detaching, Fresh, Opened
<1>10. ASSUME NEW s \in Sock, SocketClosed(s) PROVE ClientInv'
  <2>1. s \in Opened /\ UNCHANGED <<status, detach, owner>> /\ Opened' = Opened
    BY <1>10 DEF SocketClosed, Opened
  <2>2. /\ \A t \in Sock : cl'[t] = IF t = s THEN "closed" ELSE cl[t]
        /\ \A t \in Sock : phase'[t] = IF t = s THEN "over" ELSE phase[t]
        /\ \A m \in Node : ws[m] # s => ws'[m] = ws[m]
    BY <1>0, <1>1, <1>10 DEF ClientType, SocketClosed, Forget
  <2>3. InUse'
    BY <1>1, <2>1, <2>2 DEF ClientInv, InUse
  <2>4. Running' /\ Detaching' /\ Fresh'
    BY <1>1, <2>1, <2>2 DEF ClientInv, Running, Detaching, Fresh
  <2> QED BY <2>3, <2>4 DEF ClientInv
<1>11. ASSUME NEW s \in Sock, ClientMessage(s) PROVE ClientInv'
  <2>1. s \in Opened /\ cl[s] = "open" /\ UNCHANGED <<status, owner>> /\ Opened' = Opened
    BY <1>11 DEF ClientMessage, Opened
  <2>2. CASE Fail(s) /\ detach' = detach
    BY <2>1, <2>2, FailClient
  <2>3. CASE ~(Fail(s) /\ detach' = detach)
    <3>1. /\ UNCHANGED <<ws, cl>>
          /\ \A m \in Node : detach[m] => detach'[m]
          /\ \A t \in Sock \ {s} : phase'[t] = phase[t]
          /\ phase'[s] = "joined" /\ phase[s] # "joined" => detach'[owner[s]]
      BY <1>0, <1>1, <1>11, <2>1, <2>3 DEF ClientMessage, Joined, ClientType
    <3>2. InUse' /\ Running'
      BY <1>1, <2>1, <3>1 DEF ClientInv, InUse, Running
    <3>3. Detaching' /\ Fresh'
      BY <1>1, <2>1, <3>1 DEF ClientInv, Detaching, Fresh
    <3> QED BY <3>2, <3>3 DEF ClientInv
  <2> QED BY <2>2, <2>3
<1>12. CASE \/ \E n \in Node : SendRelay(n)
            \/ \E s \in Sock : \/ Accept(s) \/ SendHello(s) \/ ServerClosed(s) \/ HandleJoin(s)
                               \/ HandshakeTimeout(s)
                               \/ \E i \in Id : HandleRelay(s, i)
            \/ \E i \in Id : Idle(i)
            \/ Shutdown
            \/ UNCHANGED vars
  <2>1. UNCHANGED <<node, client>>
    BY <1>12 DEF SendRelay, Accept, SendHello, ServerClosed, HandleJoin, HandshakeTimeout,
                 HandleRelay, Idle, Shutdown, vars
  <2> QED BY <1>2, <2>1
<1> QED BY <1>3, <1>4, <1>5, <1>6, <1>7, <1>8, <1>9, <1>10, <1>11, <1>12 DEF Next

LEMMA ClientCorrect == Spec => []ClientInv
BY InitType, NextType, InitClient, NextClient, PTL DEF Spec

\* A node never has two sockets to the tracker that are connecting or open, and none
\* once it stopped, whatever connect, setUrl, disconnect, stop and the events of
\* earlier sockets do (SignalingClient).
THEOREM SingleSocket == Spec => []OneSocket
<1>1. ClientInv => OneSocket
  BY DEF ClientInv, InUse, Running, OneSocket
<1> QED BY <1>1, ClientCorrect, PTL

\* A registered socket never stays without a running detach timer (connectTracker).
THEOREM AlwaysDetaching == Spec => []Detaching
BY ClientCorrect, PTL DEF ClientInv

-----------------------------------------------------------------------------
(* The tracker's books *)

\* What accept, release and shutdown keep of the server ends.
Tracked ==
    /\ \A s \in Sock : sv[s] = "open" => s \in conns
    /\ \A s \in conns : sv[s] \in {"open", "closing"}
    /\ \A s \in Sock : sv[s] # "none" => s \in Opened

\* The parts of NoGhosts.
Owned == \A i \in Id : sessions[i] # None =>
           sessions[i] \in conns /\ named[sessions[i]] /\ IdOf[owner[sessions[i]]] = i

Bounded == /\ IsFiniteSet({i \in Id : sessions[i] # None})
           /\ Cardinality({i \in Id : sessions[i] # None}) <= MaxSessions

Told(s) == \E k \in DOMAIN down[s] : down[s][k] = "peers"

\* An answer on its way to a client that is still connected is true.
Announced ==
    \A s \in Opened :
      sv[s] = "open" /\ (phase[s] = "joined" \/ Told(s)) => sessions[IdOf[owner[s]]] = s

\* Nothing was said on a connection that is yet to be accepted.
Unspoken == \A s \in Sock : sv[s] = "none" => phase[s] # "joined" /\ ~Told(s)

Watched == \A s \in conns : sv[s] = "open" /\ ~named[s] => timer[s]

ServerInv ==
    Tracked /\ Owned /\ Bounded /\ Watched /\ AddressExact /\ Announced /\ Unspoken

LEMMA InitServer == Init => ServerInv
<1> SUFFICES ASSUME Init PROVE ServerInv
  OBVIOUS
<1>1. Tracked /\ Owned /\ Watched
  BY DEF Init, ServerInit, NoSessions, Tracked, Owned, Watched
<1>2. Announced /\ Unspoken
  BY DEF Init, ServerInit, NoSessions, Announced, Unspoken, Opened, Told
<1>3. Bounded
  <2>1. {i \in Id : sessions[i] # None} = {}
    BY DEF Init, ServerInit, NoSessions
  <2>2. IsFiniteSet({i \in Id : sessions[i] # None})
        /\ Cardinality({i \in Id : sessions[i] # None}) = 0
    BY <2>1, FS_EmptySet
  <2>3. 0 <= MaxSessions
    BY TrackerSessionAssumption
  <2> QED BY <2>2, <2>3 DEF Bounded
<1>4. AddressExact
  <2>1. \A a \in Address : {s \in conns : AddressOf[owner[s]] = a} = {}
    BY DEF Init, ServerInit, NoSessions
  <2> QED BY <2>1, FS_EmptySet DEF AddressExact, Init, ServerInit, NoSessions
<1> QED BY <1>1, <1>2, <1>3, <1>4 DEF ServerInv

\* The numbers of opened sockets keep their nodes.
LEMMA OwnersStay ==
    ASSUME TypeOK, [Next]_vars
    PROVE  /\ Opened \subseteq Opened'
           /\ \A s \in Opened : owner'[s] = owner[s] /\ owner[s] \in Node /\ s \in Sock
           /\ \A s \in Opened' \ Opened : s \in Sock /\ phase'[s] = phase[s] /\ down' = down
           /\ \A s \in Opened' \ Opened : UNCHANGED <<conn, server>>
<1>0. ClientType
  BY DEF TypeOK
<1>1. \A s \in Opened : owner[s] \in Node /\ s \in Sock
  BY <1>0, TrackerSessionAssumption DEF ClientType, Opened, Sock
<1>2. CASE owner' = owner
  BY <1>1, <1>2 DEF Opened
<1>3. CASE owner' # owner
  <2>1. PICK n \in Node : OpenSocket(n) /\ UNCHANGED <<conn, server, down>>
    BY <1>3 DEF Next, vars, node, client, Start, ReannounceTick, SetTrackerUrl, SetUrl, DetachFires, Stop,
       Disconnect, ConnectTracker, SendRelay, ConnectTimeout, SocketOpens,
       SocketClosed, ClientMessage, Accept, SendHello, ServerClosed, HandleJoin,
       HandshakeTimeout, HandleRelay, Idle, Shutdown
  <2> QED BY <1>0, <1>1, <2>1, OpenShape
<1> QED BY <1>2, <1>3

\* Sets of connections of one address are finite.
LEMMA FiniteConns ==
    ASSUME TypeOK, NEW a
    PROVE  IsFiniteSet({s \in conns : AddressOf[owner[s]] = a})
<1>1. IsFiniteSet(Sock)
  BY FS_Interval, TrackerSessionAssumption DEF Sock
<1>2. {s \in conns : AddressOf[owner[s]] = a} \subseteq Sock
  BY DEF TypeOK, ServerType
<1> QED BY <1>1, <1>2, FS_Subset

\* Sending a message tells nobody else that it is registered.
LEMMA SentTold ==
    ASSUME TypeOK, NEW s \in Sock, NEW m \in ToClient, down' = Sent(s, m), NEW t \in Sock, Told(t)'
    PROVE  Told(t) \/ (t = s /\ m = "peers")
<1>1. down[s] \in Seq(ToClient) /\ down \in [Sock -> Seq(ToClient)]
  BY DEF TypeOK, WireType
<1>2. CASE t = s /\ down' = [down EXCEPT ![s] = Append(@, m)]
  <2>1. down'[s] = Append(down[s], m)
    BY <1>1, <1>2
  <2>2. /\ DOMAIN down'[s] = 1..(Len(down[s]) + 1) /\ DOMAIN down[s] = 1..Len(down[s])
        /\ \A k \in 1..Len(down[s]) : down'[s][k] = down[s][k]
        /\ down'[s][Len(down[s]) + 1] = m
    BY <1>1, <2>1
  <2>3. PICK k \in DOMAIN down'[s] : down'[s][k] = "peers"
    BY <1>2 DEF Told
  <2>4. CASE k \in 1..Len(down[s])
    BY <1>2, <2>2, <2>3, <2>4 DEF Told
  <2>5. CASE k = Len(down[s]) + 1
    BY <1>2, <2>2, <2>3, <2>5
  <2>6. Len(down[s]) \in Nat
    BY <1>1
  <2> QED BY <2>2, <2>3, <2>4, <2>5, <2>6
<1>3. CASE ~(t = s /\ down' = [down EXCEPT ![s] = Append(@, m)])
  <2>1. down'[t] = down[t]
    BY <1>1, <1>3 DEF Sent
  <2> QED BY <2>1 DEF Told
<1> QED BY <1>2, <1>3

\* Steps that open, count and register nothing: some server ends begin to close.
LEMMA Settled ==
    ASSUME TypeOK, ServerInv, [Next]_vars,
           UNCHANGED <<conns, perAddress, sessions, named>>,
           \A s \in Sock : sv'[s] = sv[s] \/ (sv[s] = "open" /\ sv'[s] = "closing"),
           \A s \in Sock : sv'[s] = "open" /\ ~named[s] => timer'[s] = timer[s],
           \A s \in Sock : sv'[s] \in {"none", "open"} /\ (phase'[s] = "joined" \/ Told(s)')
                             => phase[s] = "joined" \/ Told(s)
    PROVE  ServerInv'
<1>1. /\ Opened \subseteq Opened'
      /\ \A s \in Opened : owner'[s] = owner[s] /\ s \in Sock
      /\ \A s \in Opened' \ Opened : s \in Sock
  BY OwnersStay
<1>2. \A s \in conns : s \in Opened /\ s \in Sock
  BY DEF ServerInv, Tracked, TypeOK, ServerType
<1>3. Tracked'
  BY <1>1, <1>2 DEF ServerInv, Tracked
<1>4. Owned'
  BY <1>1, <1>2 DEF ServerInv, Owned
<1>5. Bounded'
  BY DEF ServerInv, Bounded
<1>6. Watched'
  BY <1>2 DEF ServerInv, Watched
<1>7. AddressExact'
  <2>1. \A a \in Address : {s \in conns : AddressOf[owner[s]] = a}
                             = {s \in conns : AddressOf[owner'[s]] = a}
    BY <1>1, <1>2
  <2> QED BY <2>1 DEF ServerInv, AddressExact
<1>8. Announced'
  BY <1>1 DEF ServerInv, Announced, Tracked
<1>9. Unspoken'
  BY DEF ServerInv, Unspoken
<1> QED BY <1>3, <1>4, <1>5, <1>6, <1>7, <1>8, <1>9 DEF ServerInv

\* accept.
LEMMA AcceptServer ==
    ASSUME TypeOK, ServerInv, [Next]_vars, NEW s \in Sock, Accept(s)
    PROVE  ServerInv'
<1> DEFINE a == AddressOf[owner[s]]
<1>1. /\ s \in Opened /\ owner[s] \in Node /\ a \in Address /\ sv[s] = "none" /\ s \notin conns
      /\ UNCHANGED <<owner, phase, named, sessions>> /\ Opened' = Opened
  BY TrackerSessionAssumption
     DEF Accept, Opened, TypeOK, ClientType, client, ServerInv, Tracked
<1>2. CASE Full(a)
  <2>1. /\ sv' = [sv EXCEPT ![s] = "closing"]
        /\ down' = [down EXCEPT ![s] = Append(@, "error")]
        /\ UNCHANGED <<conns, perAddress, timer>>
    BY <1>2 DEF Accept
  <2>2. \A t \in Sock : sv'[t] = IF t = s THEN "closing" ELSE sv[t]
    BY <2>1 DEF TypeOK, ServerType
  <2>3. \A t \in Sock \ {s} : Told(t)' => Told(t)
    BY <2>1 DEF TypeOK, WireType, Told
  <2>4. \A t \in Opened : t \in Sock
    BY OwnersStay
  <2>5. Tracked' /\ Watched'
    BY <1>1, <2>1, <2>2 DEF ServerInv, Tracked, Watched, TypeOK, ServerType
  <2>6. Owned' /\ Bounded' /\ AddressExact'
    BY <1>1, <2>1 DEF ServerInv, Owned, Bounded, AddressExact
  <2>7. Announced' /\ Unspoken'
    BY <1>1, <2>2, <2>3, <2>4 DEF ServerInv, Announced, Unspoken
  <2> QED BY <2>5, <2>6, <2>7 DEF ServerInv
<1>3. CASE ~Full(a)
  <2>1. /\ perAddress' = [perAddress EXCEPT ![a] = @ + 1]
        /\ conns' = conns \cup {s} /\ timer' = [timer EXCEPT ![s] = TRUE]
        /\ sv' = [sv EXCEPT ![s] = "open"] /\ down' = down
    BY <1>3 DEF Accept
  <2>2. /\ \A t \in Sock : sv'[t] = IF t = s THEN "open" ELSE sv[t]
        /\ \A t \in Sock : timer'[t] = IF t = s THEN TRUE ELSE timer[t]
        /\ conns \subseteq Sock
    BY <2>1 DEF TypeOK, ServerType
  <2>3. Tracked' /\ Watched'
    BY <1>1, <2>1, <2>2 DEF ServerInv, Tracked, Watched
  <2>4. Owned' /\ Bounded'
    BY <1>1, <2>1 DEF ServerInv, Owned, Bounded
  <2>5. AddressExact'
    <3>1. ASSUME NEW b \in Address
          PROVE  perAddress'[b] = Cardinality({t \in conns' : AddressOf[owner[t]] = b})
      <4> DEFINE C == {t \in conns : AddressOf[owner[t]] = b}
      <4>1. IsFiniteSet(C) /\ perAddress[b] = Cardinality(C) /\ s \notin C
        BY <1>1, FiniteConns DEF ServerInv, AddressExact
      <4>2. CASE b = a
        <5>1. {t \in conns' : AddressOf[owner[t]] = b} = C \cup {s}
          BY <2>1, <4>2
        <5>2. Cardinality(C \cup {s}) = Cardinality(C) + 1
          BY <4>1, FS_AddElement
        <5>3. perAddress'[b] = perAddress[b] + 1
          BY <1>1, <2>1, <4>2 DEF TypeOK, ServerType
        <5> QED BY <4>1, <5>1, <5>2, <5>3
      <4>3. CASE b # a
        <5>1. {t \in conns' : AddressOf[owner[t]] = b} = C
          BY <2>1, <4>3
        <5>2. perAddress'[b] = perAddress[b]
          BY <1>1, <2>1, <4>3 DEF TypeOK, ServerType
        <5> QED BY <4>1, <5>1, <5>2
      <4> QED BY <4>2, <4>3
    <3> QED BY <1>1, <3>1 DEF AddressExact
  <2>6. Announced' /\ Unspoken'
    BY <1>1, <2>1, <2>2, OwnersStay DEF ServerInv, Announced, Unspoken, Told
  <2> QED BY <2>3, <2>4, <2>5, <2>6 DEF ServerInv
<1> QED BY <1>2, <1>3

\* The close event: release and the close listener.
LEMMA ClosedServer ==
    ASSUME TypeOK, ServerInv, [Next]_vars, NEW s \in Sock, ServerClosed(s)
    PROVE  ServerInv'
<1>1. /\ sv' = [sv EXCEPT ![s] = "closed"] /\ Release(s) /\ sv[s] \in {"open", "closing"}
      /\ UNCHANGED <<owner, phase, named, down>> /\ Opened' = Opened
  BY DEF ServerClosed, client, Opened
<1>2. \A t \in Sock : sv'[t] = IF t = s THEN "closed" ELSE sv[t]
  BY <1>1 DEF TypeOK, ServerType
<1>3. \A i \in Id : sessions'[i] = IF sessions[i] = s THEN None ELSE sessions[i]
  BY <1>1 DEF Release, Loses
<1>4. /\ conns' = conns \ {s} /\ conns \subseteq Sock
      /\ \A t \in Sock \ {s} : timer'[t] = timer[t]
  BY <1>1 DEF Release, Counted, TypeOK, ServerType
<1>5. s \in Opened /\ owner[s] \in Node /\ \A t \in Opened : t \in Sock /\ owner[t] \in Node
  BY <1>1, OwnersStay DEF ServerInv, Tracked
<1>6. Tracked' /\ Watched'
  BY <1>1, <1>2, <1>4 DEF ServerInv, Tracked, Watched
<1>7. Owned'
  BY <1>1, <1>3, <1>4 DEF ServerInv, Owned
<1>8. Bounded'
  <2>1. {i \in Id : sessions'[i] # None} \subseteq {i \in Id : sessions[i] # None}
    BY <1>3
  <2>2. /\ IsFiniteSet({i \in Id : sessions[i] # None})
        /\ Cardinality({i \in Id : sessions[i] # None}) <= MaxSessions
    BY DEF ServerInv, Bounded
  <2>3. /\ IsFiniteSet({i \in Id : sessions'[i] # None})
        /\ Cardinality({i \in Id : sessions'[i] # None})
             <= Cardinality({i \in Id : sessions[i] # None})
    BY <2>1, <2>2, FS_Subset
  <2> QED BY <2>2, <2>3, FS_CardinalityType, TrackerSessionAssumption DEF Bounded
<1>9. Announced' /\ Unspoken'
  <2>1. \A t \in Opened : IdOf[owner[t]] \in Id
    BY <1>5, TrackerSessionAssumption
  <2>2. s # None
    BY TrackerSessionAssumption DEF Sock, None
  <2>3. \A t \in Sock : Told(t)' <=> Told(t)
    BY <1>1 DEF Told
  <2> QED BY <1>1, <1>2, <1>3, <1>5, <2>1, <2>2, <2>3
       DEF ServerInv, Announced, Unspoken
<1>10. AddressExact'
  <2> DEFINE a == AddressOf[owner[s]]
  <2>0. a \in Address
    BY <1>5, TrackerSessionAssumption
  <2>1. CASE s \notin conns
    BY <1>1, <1>4, <2>1 DEF Release, Counted, ServerInv, AddressExact
  <2>2. CASE s \in conns
    <3>1. ASSUME NEW b \in Address
          PROVE  perAddress'[b] = Cardinality({t \in conns' : AddressOf[owner[t]] = b})
      <4> DEFINE C == {t \in conns : AddressOf[owner[t]] = b}
      <4>1. IsFiniteSet(C) /\ perAddress[b] = Cardinality(C) /\ Cardinality(C) \in Nat
        BY FiniteConns, FS_CardinalityType DEF ServerInv, AddressExact
      <4>2. perAddress' = [perAddress EXCEPT ![a] = @ - 1]
        BY <1>1, <2>2 DEF Release, Counted
      <4>3. CASE b = a
        <5>1. {t \in conns' : AddressOf[owner[t]] = b} = C \ {s} /\ s \in C
          BY <1>4, <2>2, <4>3
        <5>2. Cardinality(C \ {s}) = Cardinality(C) - 1
          BY <4>1, <5>1, FS_RemoveElement
        <5>3. perAddress'[b] = perAddress[b] - 1
          BY <2>0, <4>2, <4>3 DEF TypeOK, ServerType
        <5> QED BY <4>1, <5>1, <5>2, <5>3
      <4>4. CASE b # a
        <5>1. {t \in conns' : AddressOf[owner[t]] = b} = C
          BY <1>4, <4>4
        <5>2. perAddress'[b] = perAddress[b]
          BY <2>0, <4>2, <4>4 DEF TypeOK, ServerType
        <5> QED BY <4>1, <5>1, <5>2
      <4> QED BY <4>3, <4>4
    <3> QED BY <1>1, <3>1 DEF AddressExact
  <2> QED BY <2>1, <2>2
<1> QED BY <1>6, <1>7, <1>8, <1>9, <1>10 DEF ServerInv

\* registerSession, on a connection that is open.
LEMMA RegisterServer ==
    ASSUME TypeOK, ServerInv, [Next]_vars, NEW s \in Sock, Register(s), sv[s] = "open",
           sessions[IdOf[owner[s]]] # None \/
             Cardinality({j \in Id : sessions[j] # None}) < MaxSessions,
           UNCHANGED <<owner, phase, conns, perAddress>>
    PROVE  ServerInv'
<1> DEFINE i == IdOf[owner[s]]
           old == sessions[i]
<1>1. /\ s \in Opened /\ s \in conns /\ i \in Id /\ s # None /\ None \notin Sock
      /\ \A t \in Opened : t \in Sock /\ IdOf[owner[t]] \in Id
      /\ Opened' = Opened
  BY OwnersStay, TrackerSessionAssumption
     DEF ServerInv, Tracked, Opened, Sock, None
<1>2. /\ \A j \in Id : sessions[j] \in Sock \cup {None}
      /\ conns \subseteq Sock
  BY DEF TypeOK, ServerType
<1>3. /\ sessions' = [sessions EXCEPT ![i] = s] /\ timer' = [timer EXCEPT ![s] = FALSE]
      /\ named' = [t \in Sock |-> IF t = s THEN TRUE ELSE IF t = old THEN FALSE ELSE named[t]]
      /\ sv' = Replaced(old) /\ down' = Sent(s, "peers")
  <2>1. ~(old = None /\ Cardinality({j \in Id : sessions[j] # None}) >= MaxSessions)
    <3>1. Cardinality({j \in Id : sessions[j] # None}) \in Nat
      BY FS_CardinalityType DEF ServerInv, Bounded
    <3> QED BY <3>1, TrackerSessionAssumption
  <2> QED BY <2>1 DEF Register
<1>4. /\ \A j \in Id : sessions'[j] = IF j = i THEN s ELSE sessions[j]
      /\ \A t \in Sock \ {s} : timer'[t] = timer[t]
      /\ \A t \in Sock : sv'[t] = IF t = old /\ sv[t] = "open" THEN "closing" ELSE sv[t]
  BY <1>1, <1>2, <1>3 DEF Replaced, Shutting, TypeOK, ServerType
<1>5. \A t \in Sock : Told(t)' => Told(t) \/ t = s
  BY <1>3, SentTold DEF ToClient
<1> HIDE DEF i, old
<1>6. old = sessions[i] /\ i = IdOf[owner[s]]
  BY DEF old, i
<1>7. Tracked' /\ Watched'
  BY <1>1, <1>2, <1>3, <1>4 DEF ServerInv, Tracked, Watched
<1>8. Owned'
  BY <1>1, <1>2, <1>3, <1>4, <1>6 DEF ServerInv, Owned
<1>9. Bounded'
  <2> DEFINE R == {j \in Id : sessions[j] # None}
  <2>1. IsFiniteSet(R) /\ Cardinality(R) <= MaxSessions /\ Cardinality(R) \in Nat
    BY FS_CardinalityType DEF ServerInv, Bounded
  <2>2. {j \in Id : sessions'[j] # None} = R \cup {i}
    BY <1>1, <1>4
  <2>3. CASE i \in R
    BY <2>1, <2>2, <2>3 DEF Bounded
  <2>4. CASE i \notin R
    <3>1. Cardinality(R) < MaxSessions
      BY <1>1, <1>6, <2>4
    <3>2. IsFiniteSet(R \cup {i}) /\ Cardinality(R \cup {i}) = Cardinality(R) + 1
      BY <2>1, <2>4, FS_AddElement
    <3>3. Cardinality(R) + 1 <= MaxSessions
      <4> HIDE DEF R
      <4> QED BY <2>1, <3>1, TrackerSessionAssumption
    <3> QED BY <2>2, <3>2, <3>3 DEF Bounded
  <2> QED BY <2>3, <2>4
<1>10. AddressExact'
  BY DEF ServerInv, AddressExact
<1>11. Announced' /\ Unspoken'
  <2>1. Announced'
    BY <1>1, <1>4, <1>5, <1>6 DEF ServerInv, Announced
  <2>2. Unspoken'
    BY <1>4, <1>5 DEF ServerInv, Unspoken
  <2> QED BY <2>1, <2>2
<1> QED BY <1>7, <1>8, <1>9, <1>10, <1>11 DEF ServerInv

LEMMA NextServer == TypeOK /\ ServerInv /\ [Next]_vars => ServerInv'
<1> SUFFICES ASSUME TypeOK, ServerInv, [Next]_vars PROVE ServerInv'
  OBVIOUS
<1>0. /\ ClientType /\ ServerType /\ WireType
      /\ \A S : \A s \in Sock : Shutting(S)[s] = IF s \in S /\ sv[s] = "open"
                                                THEN "closing" ELSE sv[s]
  BY DEF TypeOK, Shutting
<1>1. ASSUME UNCHANGED <<conn, server>>,
             \A s \in Sock : phase'[s] = "joined" \/ Told(s)' => phase[s] = "joined" \/ Told(s)
      PROVE  ServerInv'
  BY <1>1, Settled DEF conn, server
<1>2. ASSUME NEW s \in Sock, Reject(s), UNCHANGED <<phase, conns, perAddress, sessions, named>>,
             \A t \in Sock \ {s} : timer'[t] = timer[t]
      PROVE  ServerInv'
  <2>1. sv' = Shutting({s}) /\ down' = Sent(s, "error")
    BY <1>2 DEF Reject
  <2>2. \A t \in Sock : Told(t)' => Told(t)
    BY <2>1, SentTold DEF ToClient
  <2>3. \A t \in Sock : sv'[t] = sv[t] \/ (sv[t] = "open" /\ sv'[t] = "closing")
    BY <1>0, <2>1
  <2>4. sv'[s] # "open"
    BY <1>0, <2>1
  <2> QED BY <1>2, <2>2, <2>3, <2>4, Settled
<1>3. ASSUME UNCHANGED <<conn, server, phase, down>> PROVE ServerInv'
  BY <1>1, <1>3 DEF Told
<1>4. ASSUME NEW n \in Node, ConnectTracker(n), UNCHANGED <<conn, server, down>> PROVE ServerInv'
  BY <1>3, <1>4 DEF ConnectTracker, OpenSocket, client
<1>5. CASE \E n \in Node : Start(n) \/ ReannounceTick(n)
  BY <1>4, <1>5 DEF Start, ReannounceTick
<1>6. CASE \E n \in Node : \/ DetachFires(n) \/ Stop(n) \/ SendRelay(n)
                           \/ \E on \in BOOLEAN : SetTrackerUrl(n, on)
  BY <1>3, <1>6 DEF DetachFires, Stop, SendRelay, SetTrackerUrl, SetUrl, Disconnect,
                    OpenSocket, client
<1>7. ASSUME NEW s \in Sock, ConnectTimeout(s) PROVE ServerInv'
  <2>1. \A t \in Sock : phase'[t] = "joined" => phase[t] = "joined"
    BY <1>0, <1>7 DEF ConnectTimeout, Fail, ClientType
  <2> QED BY <1>1, <1>7, <2>1 DEF ConnectTimeout, Told
<1>8. ASSUME NEW s \in Sock, SocketOpens(s) PROVE ServerInv'
  BY <1>3, <1>8 DEF SocketOpens
<1>9. ASSUME NEW s \in Sock, SocketClosed(s) PROVE ServerInv'
  <2>1. \A t \in Sock : phase'[t] = "joined" => phase[t] = "joined"
    BY <1>0, <1>9 DEF SocketClosed, ClientType
  <2>2. \A t \in Sock : down'[t] = down[t] \/ down'[t] = <<>>
    BY <1>0, <1>9 DEF SocketClosed, WireType
  <2>3. \A t \in Sock : Told(t)' => Told(t)
    BY <2>2 DEF Told
  <2> QED BY <1>1, <1>9, <2>1, <2>3 DEF SocketClosed
<1>10. ASSUME NEW s \in Sock, ClientMessage(s) PROVE ServerInv'
  <2>1. /\ down[s] # <<>> /\ down[s] \in Seq(ToClient) /\ down' = [down EXCEPT ![s] = Tail(@)]
        /\ UNCHANGED <<conn, server>>
    BY <1>0, <1>10 DEF ClientMessage, WireType
  <2>2. /\ 1 \in DOMAIN down[s] /\ down[s][1] = Head(down[s])
        /\ \A k \in DOMAIN Tail(down[s]) : /\ k + 1 \in DOMAIN down[s]
                                           /\ Tail(down[s])[k] = down[s][k + 1]
    BY <2>1
  <2>3. /\ down'[s] = Tail(down[s]) /\ \A t \in Sock \ {s} : down'[t] = down[t]
    BY <1>0, <2>1 DEF WireType
  <2>4. \A t \in Sock : Told(t)' => Told(t)
    <3>1. ASSUME Told(s)' PROVE Told(s)
      <4>1. PICK k \in DOMAIN Tail(down[s]) : Tail(down[s])[k] = "peers"
        BY <2>3, <3>1 DEF Told
      <4>2. k + 1 \in DOMAIN down[s] /\ down[s][k + 1] = "peers"
        BY <2>2, <4>1
      <4> QED BY <4>2 DEF Told
    <3>2. ASSUME NEW t \in Sock \ {s}, Told(t)' PROVE Told(t)
      BY <2>3, <3>2 DEF Told
    <3> QED BY <3>1, <3>2
  <2>5. \A t \in Sock : phase'[t] = "joined" => phase[t] = "joined" \/ Told(t)
    <3>1. Head(down[s]) = "peers" => Told(s)
      BY <2>2 DEF Told
    <3>2. \A t \in Sock : phase'[t] = "joined" =>
            phase[t] = "joined" \/ (t = s /\ Head(down[s]) = "peers")
      BY <1>0, <1>10 DEF ClientMessage, Fail, ClientType
    <3> QED BY <3>1, <3>2
  <2> QED BY <1>1, <2>1, <2>4, <2>5
<1>11. ASSUME NEW s \in Sock, Accept(s) PROVE ServerInv'
  BY <1>11, AcceptServer
<1>12. ASSUME NEW s \in Sock, SendHello(s) PROVE ServerInv'
  <2>1. \A t \in Sock : Told(t)' => Told(t)
    BY <1>12, SentTold DEF SendHello, ToClient
  <2> QED BY <1>12, <2>1, Settled DEF SendHello, server, client
<1>13. ASSUME NEW s \in Sock, ServerClosed(s) PROVE ServerInv'
  BY <1>13, ClosedServer
<1>14. ASSUME NEW s \in Sock, HandleJoin(s) PROVE ServerInv'
  <2>1. /\ Verified(s) \/ (Reject(s) /\ UNCHANGED <<timer, named, sessions>>)
        /\ UNCHANGED <<owner, phase, conns, perAddress>>
    BY <1>14 DEF HandleJoin, client
  <2>2. CASE Reject(s) /\ UNCHANGED <<timer, named, sessions>>
    BY <1>2, <2>1, <2>2
  <2>3. CASE Verified(s) /\ sv[s] # "open"
    <3>1. UNCHANGED <<sv, timer, named, sessions, down>>
      BY <2>3 DEF Verified
    <3> QED BY <2>1, <3>1, Settled DEF Told
  <2>4. CASE Verified(s) /\ sv[s] = "open"
    <3>1. Register(s)
      BY <2>4 DEF Verified
    <3>2. CASE sessions[IdOf[owner[s]]] = None /\
                 Cardinality({j \in Id : sessions[j] # None}) >= MaxSessions
      BY <1>2, <2>1, <3>1, <3>2 DEF Register
    <3>3. CASE ~(sessions[IdOf[owner[s]]] = None /\
                   Cardinality({j \in Id : sessions[j] # None}) >= MaxSessions)
      <4>1. Cardinality({j \in Id : sessions[j] # None}) \in Nat
        BY FS_CardinalityType DEF ServerInv, Bounded
      <4>2. sessions[IdOf[owner[s]]] # None \/
              Cardinality({j \in Id : sessions[j] # None}) < MaxSessions
        BY <3>3, <4>1, TrackerSessionAssumption
      <4> QED BY <2>1, <2>4, <3>1, <4>2, RegisterServer
    <3> QED BY <3>2, <3>3
  <2> QED BY <2>1, <2>2, <2>3, <2>4
<1>15. ASSUME NEW s \in Sock, NEW i \in Id, HandleRelay(s, i) PROVE ServerInv'
  <2>1. UNCHANGED <<owner, phase, timer, named, conns, perAddress, sessions>>
    BY <1>15 DEF HandleRelay, client, server
  <2>2. CASE ~named[s]
    BY <1>2, <1>15, <2>1, <2>2 DEF HandleRelay
  <2>3. CASE named[s]
    <3>1. sv' = sv /\ (down' = down \/ (sessions[i] # None /\ down' = Sent(sessions[i], "relay")))
      BY <1>15, <2>3 DEF HandleRelay
    <3>2. \A t \in Sock : Told(t)' => Told(t)
      <4>1. CASE down' = down
        BY <4>1 DEF Told
      <4>2. CASE sessions[i] # None /\ down' = Sent(sessions[i], "relay")
        <5>1. sessions[i] \in Sock
          BY <1>0, <4>2 DEF ServerType
        <5> QED BY <4>2, <5>1, SentTold DEF ToClient
      <4> QED BY <3>1, <4>1, <4>2
    <3> QED BY <2>1, <3>1, <3>2, Settled
  <2> QED BY <2>2, <2>3
<1>16. ASSUME NEW s \in Sock, HandshakeTimeout(s) PROVE ServerInv'
  <2>1. /\ UNCHANGED <<owner, phase, named, conns, perAddress, sessions>>
        /\ \A t \in Sock \ {s} : timer'[t] = timer[t]
    BY <1>0, <1>16 DEF HandshakeTimeout, client, server, ServerType
  <2>2. CASE ~named[s]
    BY <1>2, <1>16, <2>1, <2>2 DEF HandshakeTimeout
  <2>3. CASE named[s]
    BY <1>16, <2>1, <2>3, Settled DEF HandshakeTimeout, Told
  <2> QED BY <2>2, <2>3
<1>17. ASSUME NEW i \in Id, Idle(i) PROVE ServerInv'
  <2>1. /\ sv' = Shutting({sessions[i]}) /\ sessions' = [sessions EXCEPT ![i] = None]
        /\ UNCHANGED <<owner, phase, named, timer, conns, perAddress, down>> /\ Opened' = Opened
    BY <1>17 DEF Idle, client, Opened
  <2>2. /\ \A j \in Id : sessions'[j] = IF j = i THEN None ELSE sessions[j]
        /\ \A t \in Sock : sv'[t] = IF t = sessions[i] /\ sv[t] = "open" THEN "closing" ELSE sv[t]
        /\ conns \subseteq Sock
    BY <1>0, <2>1 DEF ServerType
  <2>3. \A t \in Opened : t \in Sock /\ IdOf[owner[t]] \in Id
    BY OwnersStay, TrackerSessionAssumption
  <2>4. Tracked' /\ Watched'
    BY <2>1, <2>2 DEF ServerInv, Tracked, Watched
  <2>5. Owned' /\ AddressExact'
    BY <2>1, <2>2 DEF ServerInv, Owned, AddressExact
  <2>6. Announced' /\ Unspoken'
    BY <2>1, <2>2, <2>3 DEF ServerInv, Announced, Unspoken, Told
  <2>7. Bounded'
    <3>1. {j \in Id : sessions'[j] # None} \subseteq {j \in Id : sessions[j] # None}
      BY <2>2
    <3>2. /\ IsFiniteSet({j \in Id : sessions[j] # None})
          /\ Cardinality({j \in Id : sessions[j] # None}) <= MaxSessions
      BY DEF ServerInv, Bounded
    <3>3. /\ IsFiniteSet({j \in Id : sessions'[j] # None})
          /\ Cardinality({j \in Id : sessions'[j] # None})
               <= Cardinality({j \in Id : sessions[j] # None})
      BY <3>1, <3>2, FS_Subset
    <3> QED BY <3>2, <3>3, FS_CardinalityType, TrackerSessionAssumption DEF Bounded
  <2> QED BY <2>4, <2>5, <2>6, <2>7 DEF ServerInv
<1>18. CASE Shutdown
  <2>1. /\ sv' = Shutting(conns) /\ conns' = {} /\ sessions' = [i \in Id |-> None]
        /\ perAddress' = [a \in Address |-> 0]
        /\ UNCHANGED <<owner, phase, down>> /\ Opened' = Opened
    BY <1>18 DEF Shutdown, Destroy, NoSessions, client, Opened
  <2>2. \A t \in Sock : /\ sv'[t] # "open"
                        /\ sv'[t] # "none" => sv[t] # "none"
                        /\ sv'[t] = "none" => sv[t] = "none"
    BY <1>0, <2>1 DEF ServerInv, Tracked
  <2>3. Tracked' /\ Watched' /\ Owned'
    BY <2>1, <2>2 DEF ServerInv, Tracked, Watched, Owned
  <2>4. Announced' /\ Unspoken'
    BY <2>1, <2>2, OwnersStay DEF ServerInv, Announced, Unspoken, Told
  <2>5. Bounded'
    <3>1. {i \in Id : sessions'[i] # None} = {}
      BY <2>1
    <3>2. IsFiniteSet({i \in Id : sessions'[i] # None})
          /\ Cardinality({i \in Id : sessions'[i] # None}) = 0
      BY <3>1, FS_EmptySet
    <3>3. 0 <= MaxSessions
      BY TrackerSessionAssumption
    <3> QED BY <3>2, <3>3 DEF Bounded
  <2>6. AddressExact'
    <3>1. \A a \in Address : {s \in conns' : AddressOf[owner'[s]] = a} = {}
      BY <2>1
    <3> QED BY <2>1, <3>1, FS_EmptySet DEF AddressExact
  <2> QED BY <2>3, <2>4, <2>5, <2>6 DEF ServerInv
<1>19. CASE UNCHANGED vars
  BY <1>3, <1>19 DEF vars, client
<1> QED BY <1>5, <1>6, <1>7, <1>8, <1>9, <1>10, <1>11, <1>12, <1>13, <1>14, <1>15, <1>16,
           <1>17, <1>18, <1>19 DEF Next

LEMMA ServerCorrect == Spec => []ServerInv
BY InitType, NextType, InitServer, NextServer, PTL DEF Spec

\* The counter of every address is the number of its connections (accept, release).
THEOREM AddressCounted == Spec => []AddressExact
BY ServerCorrect, PTL DEF ServerInv

\* Every session is a connection that has yet to close, there are never more than
\* MaxSessions, and a connection without a session is being timed, although joins are
\* verified after an await (handleJoin).
THEOREM NoGhostSessions == Spec => []NoGhosts
<1>1. ServerInv => NoGhosts
  BY DEF ServerInv, Owned, Bounded, Watched, NoGhosts
<1> QED BY <1>1, ServerCorrect, PTL

\* A node that takes itself for registered is the one the tracker has under its
\* identity, as long as both ends are open (registerSession, cleanupPings, shutdown).
THEOREM RegisteredFound == Spec => []Registered
<1>1. ServerInv => Registered
  BY DEF ServerInv, Announced, Registered
<1> QED BY <1>1, ServerCorrect, PTL
=============================================================================
