---------------------------- MODULE FetchPromise ----------------------------
(***************************************************************************)
(* What looking for a body promises its caller (DHTMailbox.fetch and       *)
(* SchrodingerMailbox.fetchBody): a call is answered, once, with nothing   *)
(* but genuine entries, and with every one the node had itself.            *)
(***************************************************************************)
EXTENDS Integers

CONSTANTS
    Call, Entry,
    Genuine,    \* entries that pass the proof of work and the content hash
    NoAnswer

VARIABLES
    floor,      \* floor[c]: what the node had itself when c looked, NoAnswer before
    answer      \* answer[c]

promise == <<floor, answer>>

PromiseInit ==
    /\ floor = [c \in Call |-> NoAnswer]
    /\ answer = [c \in Call |-> NoAnswer]

\* What the node has may already be the answer.
Look(c) ==
    /\ floor[c] = NoAnswer /\ answer[c] = NoAnswer
    /\ \E S \in SUBSET Genuine : /\ floor' = [floor EXCEPT ![c] = S]
                                 /\ answer' \in {answer, [answer EXCEPT ![c] = S]}

Answer(c) ==
    /\ floor[c] # NoAnswer /\ answer[c] = NoAnswer
    /\ \E S \in SUBSET Genuine : floor[c] \subseteq S /\ answer' = [answer EXCEPT ![c] = S]
    /\ floor' = floor

PromiseNext == \E c \in Call : Look(c) \/ Answer(c)

Promise == PromiseInit /\ [][PromiseNext]_promise /\ \A c \in Call : WF_promise(Answer(c))
=============================================================================
