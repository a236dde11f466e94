------------------------- MODULE MailboxFetchProofs -------------------------
(***************************************************************************)
(* Proofs about MailboxFetch for any calls, neighbours and entries: that   *)
(* it implements FetchPromise, step by step, and that requests and timers  *)
(* agree.                                                                  *)
(***************************************************************************)
EXTENDS MailboxFetch, FiniteSetTheorems, TLAPS

Stage  == {"new", "stored", "get", "asked", "done"}
Reply  == (SUBSET Entry) \cup {NoAnswer}
Answer == (SUBSET Genuine) \cup {NoAnswer}

Types ==
    /\ linked \subseteq Peer \ {Self}
    /\ holds \in [Peer -> SUBSET Entry] /\ holds[Self] \subseteq Genuine
    /\ at \in [Call -> Stage] /\ near \in [Call -> SUBSET Peer]
    /\ own \in [Call -> Answer] /\ result \in [Call -> Answer]
    /\ got \in [Call -> SUBSET Genuine]
    /\ pending \subseteq Call \X Peer
    /\ received \in [Call -> Nat] /\ grace \subseteq Call /\ bodies \in [Call -> Nat]
    /\ net \subseteq [call : Call, peer : Peer, entries : Reply]
    /\ arriving \subseteq Genuine

\* What a call has seen and said, at each of its awaits.
Looked ==
    \A c \in Call :
      /\ at[c] \in {"new", "stored"} <=> own[c] = NoAnswer
      /\ at[c] = "done" <=> result[c] # NoAnswer
      /\ at[c] = "get" => own[c] \subseteq holds[Self]
      /\ at[c] = "asked" => own[c] \subseteq got[c]
      /\ at[c] \in {"new", "stored", "get"} => received[c] = 0
      /\ at[c] # "done" => bodies[c] = 0

FetchInv == Types /\ Looked /\ RequestsAgree

\* What the mapping to FetchPromise does: the state of a call is what it has looked at
\* and what it was answered.
SafePromise == P!PromiseInit /\ [][P!PromiseNext]_<<own, result>>

-----------------------------------------------------------------------------
LEMMA FetchInvInit == Init => FetchInv
  BY MailboxFetchAssumption
  DEF Init, FetchInv, Types, Looked, RequestsAgree, Agrees, Stage, Answer

\* The steps that leave the calls alone.
LEMMA Elsewhere ==
    ASSUME FetchInv, UNCHANGED calls, linked' \subseteq Peer \ {Self},
           holds' \in [Peer -> SUBSET Entry], holds'[Self] \subseteq Genuine,
           holds[Self] \subseteq holds'[Self],
           net' \subseteq [call : Call, peer : Peer, entries : Reply],
           arriving' \subseteq Genuine
    PROVE  FetchInv'
<1>1. Types'
  BY DEF calls, FetchInv, Types
<1>2. Looked'
  BY DEF calls, FetchInv, Looked
<1>3. RequestsAgree'
  BY DEF calls, FetchInv, RequestsAgree, Agrees
<1> QED BY <1>1, <1>2, <1>3 DEF FetchInv

\* Settling a call with S: it is done, and nothing of it is left behind.
LEMMA Settles ==
    ASSUME FetchInv, NEW c \in Call, at[c] = "asked", NEW S \in SUBSET Genuine,
           Finalize(c, S), got' \in [Call -> SUBSET Genuine],
           received' \in [Call -> Nat],
           \A d \in Call \ {c} : got'[d] = got[d] /\ received'[d] = received[d],
           UNCHANGED <<linked, holds, near, own>>,
           net' \subseteq net, arriving' \subseteq Genuine
    PROVE  FetchInv'
<1>1. /\ at' = [at EXCEPT ![c] = "done"] /\ result' = [result EXCEPT ![c] = S]
      /\ bodies' \in [Call -> Nat] /\ bodies'[c] <= 1
      /\ \A d \in Call \ {c} : bodies'[d] = bodies[d]
      /\ grace' = grace \ {c} /\ pending' = {r \in pending : r[1] # c}
  BY DEF Finalize, Resolve, FetchInv, Types, Looked
<1>2. Types'
  BY <1>1 DEF FetchInv, Types, Stage, Answer
<1>3. Looked'
  <2>1. S # NoAnswer
    BY MailboxFetchAssumption
  <2> QED BY <1>1, <2>1 DEF FetchInv, Types, Looked
<1>4. RequestsAgree'
  <2> SUFFICES ASSUME NEW d \in Call
               PROVE  Agrees(d)'
    BY DEF RequestsAgree
  <2>1. CASE d = c
    BY <1>1, <2>1 DEF FetchInv, Types, Agrees
  <2>2. CASE d # c
    <3>1. {p \in Peer : <<d, p>> \in pending'} = {p \in Peer : <<d, p>> \in pending}
      BY <1>1, <2>2
    <3>2. /\ at'[d] = at[d] /\ near'[d] = near[d] /\ received'[d] = received[d]
          /\ bodies'[d] = bodies[d] /\ (d \in grace' <=> d \in grace)
      BY <1>1, <2>2 DEF FetchInv, Types
    <3> QED BY <3>1, <3>2 DEF FetchInv, RequestsAgree, Agrees
  <2> QED BY <2>1, <2>2
<1> QED BY <1>2, <1>3, <1>4 DEF FetchInv

LEMMA NearFinite == ASSUME Types, NEW c \in Call
                    PROVE  IsFiniteSet(near[c])
  BY FS_Subset, MailboxFetchAssumption DEF Types

\* What a step of one call leaves of the others.
LEMMA Others ==
    ASSUME FetchInv, NEW c \in Call, NEW d \in Call \ {c},
           at'[d] = at[d], near'[d] = near[d], received'[d] = received[d],
           bodies'[d] = bodies[d], d \in grace' <=> d \in grace,
           \A p \in Peer : <<d, p>> \in pending' <=> <<d, p>> \in pending
    PROVE  Agrees(d)'
<1>1. {p \in Peer : <<d, p>> \in pending'} = {p \in Peer : <<d, p>> \in pending}
  OBVIOUS
<1> QED BY <1>1 DEF FetchInv, RequestsAgree, Agrees

\* Looking into the store of the node, the first time.
LEMMA StoredReadKeeps ==
    ASSUME FetchInv, NEW c \in Call, StoredRead(c)
    PROVE  FetchInv'
<1>1. /\ at[c] = "stored" /\ own' = [own EXCEPT ![c] = holds[Self]]
      /\ UNCHANGED <<linked, holds, got, pending, received, grace, net, arriving>>
  BY DEF StoredRead
<1>2. \/ Resolve(c, holds[Self]) /\ near' = near
      \/ /\ at' = [at EXCEPT ![c] = "get"] /\ near' = [near EXCEPT ![c] = Nearest(K)]
         /\ UNCHANGED <<result, bodies>>
  BY DEF StoredRead
<1>3. /\ at' = [at EXCEPT ![c] = "done"] \/ at' = [at EXCEPT ![c] = "get"]
      /\ near' \in [Call -> SUBSET Peer] /\ bodies' \in [Call -> Nat] /\ bodies'[c] <= 1
      /\ result' \in [Call -> Answer]
      /\ \A d \in Call \ {c} : near'[d] = near[d] /\ bodies'[d] = bodies[d]
                               /\ result'[d] = result[d]
      /\ at'[c] = "get" => bodies'[c] = 0 /\ result'[c] = NoAnswer
      /\ at'[c] = "done" => result'[c] = holds[Self]
  <2>1. Nearest(K) \subseteq Peer
    BY MailboxFetchAssumption DEF Nearest, FetchInv, Types
  <2>2. holds[Self] \in Answer
    BY DEF FetchInv, Types, Answer
  <2>3. bodies[c] = 0 /\ result[c] = NoAnswer
    BY <1>1 DEF FetchInv, Types, Looked
  <2>4. CASE Resolve(c, holds[Self]) /\ near' = near
    BY <2>2, <2>3, <2>4 DEF Resolve, FetchInv, Types
  <2>5. CASE /\ at' = [at EXCEPT ![c] = "get"] /\ near' = [near EXCEPT ![c] = Nearest(K)]
             /\ UNCHANGED <<result, bodies>>
    BY <2>1, <2>3, <2>5 DEF FetchInv, Types
  <2> QED BY <1>2, <2>4, <2>5
<1>4. holds[Self] # NoAnswer /\ holds[Self] \in Answer
  BY MailboxFetchAssumption DEF FetchInv, Types, Answer
<1>5. Types'
  BY <1>1, <1>3, <1>4 DEF FetchInv, Types, Stage
<1>6. Looked'
  BY <1>1, <1>3, <1>4 DEF FetchInv, Types, Looked
<1>7. RequestsAgree'
  <2>1. ASSUME NEW p \in Peer PROVE <<c, p>> \notin pending
    BY <1>1 DEF FetchInv, RequestsAgree, Agrees
  <2>2. c \notin grace /\ at'[c] # "asked"
    BY <1>1, <1>3 DEF FetchInv, Types, RequestsAgree, Agrees
  <2>3. \A d \in Call \ {c} : at'[d] = at[d]
    BY <1>3 DEF FetchInv, Types
  <2>4. ASSUME NEW d \in Call
        PROVE  Agrees(d)'
    <3>1. CASE d = c
      BY <1>1, <1>3, <2>1, <2>2, <3>1 DEF Agrees
    <3>2. CASE d # c
      BY <1>1, <1>3, <2>3, <3>2, Others
    <3> QED BY <3>1, <3>2
  <2> QED BY <2>4 DEF RequestsAgree
<1> QED BY <1>5, <1>6, <1>7 DEF FetchInv

\* Looking a second time, and asking.
LEMMA GetReadKeeps ==
    ASSUME FetchInv, NEW c \in Call, GetRead(c)
    PROVE  FetchInv'
<1>1. /\ at[c] = "get" /\ got' = [got EXCEPT ![c] = holds[Self]]
      /\ UNCHANGED <<linked, holds, near, own, received, grace, arriving>>
  BY DEF GetRead
<1>2. /\ bodies[c] = 0 /\ result[c] = NoAnswer /\ received[c] = 0 /\ c \notin grace
      /\ own[c] \subseteq holds[Self] /\ \A p \in Peer : <<c, p>> \notin pending
  BY <1>1 DEF FetchInv, Types, Looked, RequestsAgree, Agrees
<1>3. holds[Self] # NoAnswer /\ holds[Self] \in Answer
  BY MailboxFetchAssumption DEF FetchInv, Types, Answer
<1>4. CASE near[c] = {}
  <2>1. /\ at' = [at EXCEPT ![c] = "done"] /\ result' = [result EXCEPT ![c] = holds[Self]]
        /\ bodies' \in [Call -> Nat] /\ bodies'[c] <= 1
        /\ \A d \in Call \ {c} : bodies'[d] = bodies[d]
        /\ UNCHANGED <<pending, net>>
    BY <1>2, <1>4 DEF GetRead, Resolve, FetchInv, Types
  <2>2. Types'
    BY <1>1, <1>3, <2>1 DEF FetchInv, Types, Stage
  <2>3. Looked'
    BY <1>1, <1>3, <2>1 DEF FetchInv, Types, Looked
  <2>4. RequestsAgree'
    <3>1. ASSUME NEW d \in Call
          PROVE  Agrees(d)'
      <4>1. CASE d = c
        BY <1>1, <1>2, <2>1, <4>1 DEF FetchInv, Types, Agrees
      <4>2. CASE d # c
        <5>1. at'[d] = at[d]
          BY <2>1, <4>2 DEF FetchInv, Types
        <5> QED BY <1>1, <2>1, <4>2, <5>1, Others
      <4> QED BY <4>1, <4>2
    <3> QED BY <3>1 DEF RequestsAgree
  <2> QED BY <2>2, <2>3, <2>4 DEF FetchInv
<1>5. CASE near[c] # {}
  <2>1. /\ at' = [at EXCEPT ![c] = "asked"] /\ UNCHANGED <<result, bodies>>
        /\ pending' = pending \cup {<<c, p>> : p \in near[c]}
        /\ net' = net \cup {[call |-> c, peer |-> p, entries |-> NoAnswer] :
                              p \in near[c] \cap linked}
    BY <1>5 DEF GetRead
  <2>2. near[c] \subseteq Peer
    BY DEF FetchInv, Types
  <2>3. Types'
    <3>1. pending' \subseteq Call \X Peer
      BY <2>1, <2>2 DEF FetchInv, Types
    <3>2. net' \subseteq [call : Call, peer : Peer, entries : Reply]
      BY <2>1, <2>2 DEF FetchInv, Types, Reply
    <3>3. at' \in [Call -> Stage] /\ got' \in [Call -> SUBSET Genuine]
      BY <1>1, <2>1 DEF FetchInv, Types, Stage
    <3> QED BY <1>1, <2>1, <3>1, <3>2, <3>3 DEF FetchInv, Types
  <2>4. Looked'
    BY <1>1, <1>2, <2>1 DEF FetchInv, Types, Looked
  <2>5. RequestsAgree'
    <3>1. ASSUME NEW d \in Call
          PROVE  Agrees(d)'
      <4>1. CASE d = c
        <5>1. {p \in Peer : <<c, p>> \in pending'} = near[c]
          BY <1>2, <2>1, <2>2
        <5>2. Cardinality(near[c] \ {p \in Peer : <<c, p>> \in pending'}) = 0
          <6>1. near[c] \ {p \in Peer : <<c, p>> \in pending'} = {}
            BY <5>1
          <6> QED BY <6>1, FS_EmptySet
        <5>3. at'[c] = "asked" /\ near'[c] = near[c] /\ received'[c] = 0 /\ bodies'[c] = 0
              /\ c \notin grace'
          BY <1>1, <1>2, <2>1 DEF FetchInv, Types
        <5>4. Agrees(c)'
          BY <5>1, <5>2, <5>3 DEF Agrees
        <5> QED BY <4>1, <5>4
      <4>2. CASE d # c
        <5>1. at'[d] = at[d] /\ \A p \in Peer : <<d, p>> \in pending' <=> <<d, p>> \in pending
          BY <2>1, <4>2 DEF FetchInv, Types
        <5> QED BY <1>1, <2>1, <4>2, <5>1, Others
      <4> QED BY <4>1, <4>2
    <3> QED BY <3>1 DEF RequestsAgree
  <2> QED BY <2>3, <2>4, <2>5 DEF FetchInv
<1> QED BY <1>4, <1>5

\* An answer that settles no call: one more heard, one request less.
LEMMA AnswerCounts ==
    ASSUME FetchInv, NEW c \in Call, NEW p \in Peer, <<c, p>> \in pending,
           NEW S \in SUBSET Genuine, got[c] \subseteq S,
           got' = [got EXCEPT ![c] = S], received' = [received EXCEPT ![c] = @ + 1],
           grace' = grace \cup {c}, pending' = pending \ {<<c, p>>},
           UNCHANGED <<linked, holds, at, near, own, result, bodies>>,
           net' \subseteq net, arriving' \subseteq Genuine
    PROVE  FetchInv'
<1> DEFINE open == {q \in Peer : <<c, q>> \in pending}
<1>1. /\ at[c] = "asked" /\ p \in open /\ open \subseteq near[c] /\ bodies[c] <= 1
      /\ received[c] = Cardinality(near[c] \ open) /\ received[c] \in Nat
  BY DEF FetchInv, Types, RequestsAgree, Agrees
<1>2. Types'
  BY DEF FetchInv, Types
<1>3. Looked'
  BY <1>1 DEF FetchInv, Types, Looked
<1>4. Agrees(c)'
  <2>1. near[c] \ (open \ {p}) = (near[c] \ open) \cup {p} /\ p \notin near[c] \ open
    BY <1>1
  <2>2. IsFiniteSet(near[c] \ open)
    BY NearFinite, FS_Subset DEF FetchInv
  <2>3. Cardinality(near[c] \ (open \ {p})) = received[c] + 1
    <3> HIDE DEF open
    <3>1. Cardinality((near[c] \ open) \cup {p}) = Cardinality(near[c] \ open) + 1
      BY <2>1, <2>2, FS_AddElement
    <3> QED BY <1>1, <2>1, <3>1
  <2>4. {q \in Peer : <<c, q>> \in pending'} = open \ {p}
    OBVIOUS
  <2>5. received'[c] = received[c] + 1
    BY DEF FetchInv, Types
  <2>6. c \in grace' /\ received'[c] > 0 /\ at'[c] = "asked" /\ bodies'[c] <= 1
        /\ near'[c] = near[c]
    BY <1>1, <2>5
  <2>7. received'[c] = Cardinality(near'[c] \ {q \in Peer : <<c, q>> \in pending'})
    BY <2>3, <2>4, <2>5, <2>6
  <2>8. {q \in Peer : <<c, q>> \in pending'} \subseteq near'[c]
    BY <1>1, <2>4, <2>6
  <2> HIDE DEF open
  <2> QED BY <2>6, <2>7, <2>8 DEF Agrees
<1>5. ASSUME NEW d \in Call \ {c} PROVE Agrees(d)'
  BY <1>5, Others DEF FetchInv, Types
<1> QED BY <1>2, <1>3, <1>4, <1>5 DEF FetchInv, RequestsAgree

LEMMA HandleResKeeps ==
    ASSUME FetchInv, NEW m \in net, HandleRes(m)
    PROVE  FetchInv'
<1> DEFINE c == m.call
           S == got[c] \cup Accepted(m.entries)
<1>1. c \in Call /\ m.peer \in Peer
  BY DEF FetchInv, Types
<1>2. /\ net' \subseteq net /\ UNCHANGED <<linked, holds>>
      /\ S \in SUBSET Genuine /\ arriving' \subseteq Genuine
  BY <1>1 DEF HandleRes, Accepted, FetchInv, Types
<1>3. CASE <<c, m.peer>> \notin pending
  <2>1. UNCHANGED calls
    BY <1>3 DEF HandleRes
  <2> QED BY <1>2, <2>1, Elsewhere DEF FetchInv, Types
<1>4. CASE <<c, m.peer>> \in pending
  <2>1. /\ got' = [got EXCEPT ![c] = S] /\ received' = [received EXCEPT ![c] = @ + 1]
        /\ UNCHANGED <<near, own>>
        /\ \/ Finalize(c, S)
           \/ /\ grace' = grace \cup {c} /\ pending' = pending \ {<<c, m.peer>>}
              /\ UNCHANGED <<at, result, bodies>>
    BY <1>4 DEF HandleRes
  <2>2. at[c] = "asked"
    BY <1>1, <1>4 DEF FetchInv, RequestsAgree, Agrees
  <2>3. /\ got' \in [Call -> SUBSET Genuine] /\ received' \in [Call -> Nat]
        /\ \A d \in Call \ {c} : got'[d] = got[d] /\ received'[d] = received[d]
    BY <1>1, <1>2, <2>1 DEF FetchInv, Types
  <2>4. CASE Finalize(c, S)
    <3> HIDE DEF c, S
    <3> QED BY <1>1, <1>2, <2>1, <2>2, <2>3, <2>4, Settles
  <2>5. CASE /\ grace' = grace \cup {c} /\ pending' = pending \ {<<c, m.peer>>}
             /\ UNCHANGED <<at, result, bodies>>
    <3>1. got[c] \subseteq S
      OBVIOUS
    <3> HIDE DEF c, S
    <3> QED BY <1>1, <1>2, <1>4, <2>1, <2>5, <3>1, AnswerCounts
  <2> QED BY <2>1, <2>4, <2>5
<1> QED BY <1>3, <1>4

LEMMA FetchInvNext == FetchInv /\ [Next]_vars => FetchInv'
<1> SUFFICES ASSUME FetchInv, [Next]_vars
             PROVE  FetchInv'
  OBVIOUS
<1>1. ASSUME NEW c \in Call, Opened(c) PROVE FetchInv'
  <2>1. /\ at[c] = "new" /\ at' = [at EXCEPT ![c] = "stored"]
        /\ UNCHANGED <<linked, holds, near, own, got, pending, received, grace, result,
                       bodies, net, arriving>>
    BY <1>1 DEF Opened
  <2>2. Types' /\ Looked'
    BY <2>1 DEF FetchInv, Types, Looked, Stage
  <2>3. Agrees(c)'
    BY <2>1 DEF FetchInv, Types, RequestsAgree, Agrees
  <2>4. ASSUME NEW d \in Call \ {c} PROVE Agrees(d)'
    BY <2>1, Others DEF FetchInv, Types
  <2> QED BY <2>2, <2>3, <2>4 DEF FetchInv, RequestsAgree
<1>2. ASSUME NEW c \in Call, StoredRead(c) PROVE FetchInv'
  BY <1>2, StoredReadKeeps
<1>3. ASSUME NEW c \in Call, GetRead(c) PROVE FetchInv'
  BY <1>3, GetReadKeeps
<1>4. ASSUME NEW c \in Call, GraceElapsed(c) \/ HardTimeout(c) PROVE FetchInv'
  <2>1. /\ at[c] = "asked" /\ Finalize(c, got[c]) /\ got[c] \in SUBSET Genuine
        /\ UNCHANGED <<linked, holds, near, own, got, received, net, arriving>>
    BY <1>4 DEF GraceElapsed, HardTimeout, FetchInv, Types
  <2>2. got' \in [Call -> SUBSET Genuine] /\ received' \in [Call -> Nat]
    BY <2>1 DEF FetchInv, Types
  <2>3. net' \subseteq net /\ arriving' \subseteq Genuine
    BY <2>1 DEF FetchInv, Types
  <2> QED BY <2>1, <2>2, <2>3, Settles
<1>5. ASSUME NEW m \in net, HandleGet(m) PROVE FetchInv'
  BY <1>5, Elsewhere DEF HandleGet, FetchInv, Types, Reply
<1>6. ASSUME NEW m \in net, HandleRes(m) PROVE FetchInv'
  BY <1>6, HandleResKeeps
<1>7. ASSUME NEW e \in Entry, AnswerStored(e) PROVE FetchInv'
  BY <1>7, Elsewhere, MailboxFetchAssumption DEF AnswerStored, FetchInv, Types
<1>8. ASSUME NEW e \in Entry, NEW p \in Peer, Replicated(p, e) PROVE FetchInv'
  BY <1>8, Elsewhere, MailboxFetchAssumption DEF Replicated, FetchInv, Types
<1>9. ASSUME NEW p \in Peer, Connects(p) PROVE FetchInv'
  BY <1>9, Elsewhere DEF Connects, FetchInv, Types
<1>10. ASSUME NEW p \in Peer, Disconnects(p) PROVE FetchInv'
  BY <1>10, Elsewhere DEF Disconnects, FetchInv, Types
<1>11. CASE UNCHANGED vars
  BY <1>11, Elsewhere DEF vars, FetchInv, Types
<1> QED
  BY <1>1, <1>2, <1>3, <1>4, <1>5, <1>6, <1>7, <1>8, <1>9, <1>10, <1>11 DEF Next

\* Any calls, neighbours and entries: no request or timer outlives its call, none is
\* counted twice, and one hint gives the listeners one body (handleRes, finalize,
\* onOpened).
THEOREM RequestsSettled == Spec => []RequestsAgree
<1>1. FetchInv => RequestsAgree
  BY DEF FetchInv
<1> QED BY <1>1, FetchInvInit, FetchInvNext, PTL DEF Spec

-----------------------------------------------------------------------------
(* The promise *)

LEMMA PromiseBegins == Init => P!PromiseInit
  BY DEF Init, P!PromiseInit

\* A call that waits is answered with what it was settled with.
LEMMA SettlingAnswers ==
    ASSUME FetchInv, NEW c \in Call, at[c] \in {"get", "asked"}, NEW S \in SUBSET Genuine,
           own[c] \subseteq S, Resolve(c, S), own' = own
    PROVE  P!Answer(c)
  BY DEF FetchInv, Types, Looked, Resolve, P!Answer

\* Every step of the node is a step of the promise or none.
LEMMA PromiseStep == FetchInv /\ [Next]_vars => [P!PromiseNext]_<<own, result>>
<1> SUFFICES ASSUME FetchInv, [Next]_vars
             PROVE  P!PromiseNext \/ UNCHANGED <<own, result>>
  OBVIOUS
<1>1. ASSUME NEW c \in Call, StoredRead(c) PROVE P!Look(c)
  <2>1. own[c] = NoAnswer /\ result[c] = NoAnswer /\ holds[Self] \in SUBSET Genuine
    BY <1>1 DEF StoredRead, FetchInv, Types, Looked
  <2>2. /\ own' = [own EXCEPT ![c] = holds[Self]]
        /\ result' \in {result, [result EXCEPT ![c] = holds[Self]]}
    BY <1>1 DEF StoredRead, Resolve
  <2> QED BY <2>1, <2>2 DEF P!Look
<1>2. ASSUME NEW c \in Call, GetRead(c) PROVE P!Answer(c) \/ UNCHANGED <<own, result>>
  <2>1. at[c] = "get" /\ own[c] \subseteq holds[Self] /\ holds[Self] \in SUBSET Genuine
    BY <1>2 DEF GetRead, FetchInv, Types, Looked
  <2>2. own' = own /\ (Resolve(c, holds[Self]) \/ result' = result)
    BY <1>2 DEF GetRead
  <2> QED BY <2>1, <2>2, SettlingAnswers
<1>3. ASSUME NEW c \in Call, GraceElapsed(c) \/ HardTimeout(c) PROVE P!Answer(c)
  <2>1. /\ at[c] = "asked" /\ own[c] \subseteq got[c] /\ got[c] \in SUBSET Genuine
        /\ own' = own /\ Resolve(c, got[c])
    BY <1>3 DEF GraceElapsed, HardTimeout, Finalize, FetchInv, Types, Looked
  <2> QED BY <2>1, SettlingAnswers
<1>4. ASSUME NEW m \in net, HandleRes(m)
      PROVE  P!PromiseNext \/ UNCHANGED <<own, result>>
  <2> DEFINE c == m.call
             S == got[c] \cup Accepted(m.entries)
  <2>1. c \in Call /\ m.peer \in Peer
    BY DEF FetchInv, Types
  <2>2. CASE <<c, m.peer>> \notin pending
    BY <1>4, <2>2 DEF HandleRes, calls
  <2>3. CASE <<c, m.peer>> \in pending
    <3>1. at[c] = "asked"
      BY <2>1, <2>3 DEF FetchInv, RequestsAgree, Agrees
    <3>2. own' = own /\ (Resolve(c, S) \/ result' = result)
      BY <1>4, <2>3 DEF HandleRes, Finalize
    <3>3. own[c] \subseteq S /\ S \in SUBSET Genuine
      BY <2>1, <3>1 DEF FetchInv, Types, Looked, Accepted
    <3> HIDE DEF c, S
    <3> QED BY <2>1, <3>1, <3>2, <3>3, SettlingAnswers DEF P!PromiseNext
  <2> QED BY <2>2, <2>3
<1>5. CASE UNCHANGED calls
  BY <1>5 DEF calls
<1>6. ASSUME NEW c \in Call, Opened(c) PROVE UNCHANGED <<own, result>>
  BY <1>6 DEF Opened
<1> QED
  BY <1>1, <1>2, <1>3, <1>4, <1>5, <1>6
  DEF Next, vars, HandleGet, AnswerStored, Replicated, Connects, Disconnects,
      P!PromiseNext

\* Any calls, neighbours and entries: the request implements the promise, but for its
\* liveness; a call is answered at most once, with genuine entries and with all the node
\* had itself (fetch, fetchBody).
THEOREM FetchKeepsPromise == Spec => SafePromise
<1> QED BY PromiseBegins, PromiseStep, FetchInvInit, FetchInvNext, PTL
    DEF Spec, SafePromise
=============================================================================
