----------------------------- MODULE NodeSession -----------------------------
(***************************************************************************)
(* Unlocking, locking and wiping one installation: the commands of         *)
(* P2PProvider.tsx, which overlap at their awaits, with the life of the    *)
(* nodes they make (AetherNode.ts: create, start, stop, panicWipe) and the *)
(* key each store keeps in memory (IndexedDBStore.ts: unlock, lock,        *)
(* wipeAll).                                                               *)
(*                                                                         *)
(* Attempts to unlock are numbered; the node of an attempt has its number. *)
(* The tracker and the level of anonymity are settings: they are read but  *)
(* have no state here.                                                     *)
(***************************************************************************)
EXTENDS Integers, FiniteSets

CONSTANTS
    Phrase,     \* passphrases the user types
    NoPhrase,
    Attempts,   \* bound: calls of unlock()
    Commands    \* bound: calls of lock(), panicWipe() and resetAll()

ASSUME NodeSessionAssumption == NoPhrase \notin Phrase /\ {Attempts, Commands} \subseteq Nat

VARIABLES
    screen,     \* lockState
    nodeRef,    \* nodeRef.current: an attempt, 0 is null
    storeRef,   \* storeRef.current: stores are numbered, made when first needed
    keyring,    \* stores with the data key in memory
    seal,       \* the passphrase of the sealed key on disk
    call,       \* call[i]: the attempt at its await
    node,       \* node[i]: what became of its node
    command,    \* command[c]: a lock, wipe or reset at its await
    silent,     \* history: a lock or wipe is through and nobody unlocked since
    earned      \* history: attempts with a passphrase that fitted

session == <<screen, nodeRef, storeRef, keyring, seal, call, node, command, silent, earned>>

Attempt == 1..Attempts
Idle    == [at |-> "none", phrase |-> NoPhrase, store |-> 0, from |-> "setup"]
Rest    == [at |-> "none", kind |-> "lock", store |-> 0]
Running(i) == node[i] = "running"

-----------------------------------------------------------------------------
(* The nodes *)

\* stop(): everything off, and the key of its store wiped; a second stop() does nothing.
Stopped(i) == IF i = 0 THEN node ELSE [node EXCEPT ![i] = "stopped"]
KeysAfterStop(i) == IF i = 0 \/ node[i] = "stopped" THEN keyring ELSE keyring \ {call[i].store}

-----------------------------------------------------------------------------
(* unlock() *)

\* The screen opens: is there a sealed key?
Checked ==
    /\ screen = "checking"
    /\ screen' = IF seal = NoPhrase THEN "setup" ELSE "locked"
    /\ UNCHANGED <<nodeRef, storeRef, keyring, seal, call, node, command, silent, earned>>

\* The form is sent; it is disabled while the node starts.
Unlock(i, p) ==
    /\ screen \in {"setup", "locked"}
    /\ call[i].at = "none" /\ \A j \in Attempt : j < i => call[j].at # "none"
    /\ call' = [call EXCEPT ![i] = [at |-> "create", phrase |-> p, store |-> storeRef,
                                    from |-> screen]]
    /\ screen' = "starting" /\ silent' = FALSE
    /\ UNCHANGED <<nodeRef, storeRef, keyring, seal, node, command, earned>>

\* The attempt fails: no key stays in memory.
Fails(i, K) ==
    /\ call' = [call EXCEPT ![i].at = "done"]
    /\ keyring' = K \ {storeRef}
    /\ screen' = call[i].from

\* Mutant: a store that is unlocked takes any passphrase.
OpensUnchecked(i) == call[i].store \in keyring \/ seal \in {NoPhrase, call[i].phrase}

\* IndexedDBStore.unlock: the passphrase is compared even when the key is in memory,
\* and the first one makes the key.
Unlocks(i) == seal = call[i].phrase \/ (seal = NoPhrase /\ call[i].store \notin keyring)

\* A wipe that goes on has the database closed or waiting to be deleted: the attempt
\* fails, or opens the database again afterwards.
Wiping == \E c \in 1..Commands : command[c].at = "wiped"

CreateFails(i) ==
    /\ call[i].at = "create" /\ Wiping
    /\ Fails(i, keyring)
    /\ UNCHANGED <<nodeRef, storeRef, seal, node, command, silent, earned>>

Create(i) ==
    /\ call[i].at = "create" /\ ~Wiping
    /\ earned' = IF seal \in {NoPhrase, call[i].phrase} THEN earned \cup {i} ELSE earned
    /\ IF Unlocks(i)
       THEN /\ keyring' = keyring \cup {call[i].store}
            /\ seal' = call[i].phrase
            /\ call' = [call EXCEPT ![i].at = "wire"]
            /\ screen' = screen
       ELSE Fails(i, keyring) /\ seal' = seal
    /\ UNCHANGED <<nodeRef, storeRef, node, command, silent>>

\* wire(): the identity is mined or restored, which may fail, and the parts are made;
\* then the settings are awaited.
Wire(i) ==
    /\ call[i].at = "wire"
    /\ \/ /\ node' = [node EXCEPT ![i] = "made"]
          /\ call' = [call EXCEPT ![i].at = "settings"]
          /\ UNCHANGED <<keyring, screen>>
       \/ /\ Fails(i, keyring \ {call[i].store}) /\ node' = node
    /\ UNCHANGED <<nodeRef, storeRef, seal, command, silent, earned>>

\* The settings can be read only while the key is in memory; start() then switches
\* everything on and waits for the tracker.  A failure stops the node.
Settings(i) ==
    /\ call[i].at = "settings"
    /\ IF call[i].store \in keyring
       THEN /\ node' = [node EXCEPT ![i] = "running"]
            /\ call' = [call EXCEPT ![i].at = "start"]
            /\ UNCHANGED <<keyring, screen>>
       ELSE node' = Stopped(i) /\ Fails(i, KeysAfterStop(i))
    /\ UNCHANGED <<nodeRef, storeRef, seal, command, silent, earned>>

\* The tracker answered or could not be reached.
Started(i) ==
    /\ call[i].at = "start"
    /\ call' = [call EXCEPT ![i].at = "done"]
    /\ nodeRef' = i /\ screen' = "ready"
    /\ UNCHANGED <<storeRef, keyring, seal, node, command, silent, earned>>

-----------------------------------------------------------------------------
(* lock(), panicWipe() and resetAll() *)

\* From the header when ready, from the tray at any time; resetAll from the password
\* screen.  The node is stopped before the first await.
Begin(c, kind) ==
    /\ command[c].at = "none" /\ \A d \in 1..Commands : d < c => command[d].at # "none"
    /\ kind = "reset" => screen = "locked"
    /\ command' = [command EXCEPT ![c] = [at |-> "stopped", kind |-> kind,
                     store |-> IF kind = "wipe" /\ nodeRef # 0 THEN call[nodeRef].store
                               ELSE 0]]
    /\ node' = Stopped(nodeRef) /\ keyring' = KeysAfterStop(nodeRef)
    /\ nodeRef' = IF kind = "reset" THEN nodeRef ELSE 0
    /\ UNCHANGED <<screen, storeRef, seal, call, silent, earned>>

\* lock(): the rest after the await.
LockEnd(c) ==
    /\ command[c].at = "stopped" /\ command[c].kind = "lock"
    /\ command' = [command EXCEPT ![c].at = "done"]
    /\ keyring' = keyring \ {storeRef}
    /\ screen' = "locked" /\ silent' = TRUE
    /\ UNCHANGED <<nodeRef, storeRef, seal, call, node, earned>>

\* wipeAll(): the sealed key goes first, then the key in memory.
WipeKey(c) ==
    LET s == IF command[c].store # 0 THEN command[c].store ELSE storeRef
    IN  /\ command[c].at = "stopped" /\ command[c].kind # "lock"
        /\ command' = [command EXCEPT ![c].at = "wiped"]
        /\ seal' = NoPhrase /\ keyring' = keyring \ {s}
        /\ nodeRef' = IF command[c].kind = "reset" THEN 0 ELSE nodeRef
        /\ UNCHANGED <<screen, storeRef, call, node, silent, earned>>

\* The database is deleted; the next store is a new one.
WipeEnd(c) ==
    /\ command[c].at = "wiped"
    /\ command' = [command EXCEPT ![c].at = "done"]
    /\ seal' = NoPhrase
    /\ storeRef' = storeRef + 1
    /\ screen' = "setup" /\ silent' = TRUE
    /\ UNCHANGED <<nodeRef, keyring, call, node, earned>>

-----------------------------------------------------------------------------
SessionInit ==
    /\ screen = "checking" /\ nodeRef = 0 /\ storeRef = 1 /\ keyring = {}
    /\ seal \in {NoPhrase, CHOOSE p \in Phrase : TRUE}
    /\ call = [i \in Attempt |-> Idle] /\ node = [i \in Attempt |-> "none"]
    /\ command = [c \in 1..Commands |-> Rest] /\ silent = FALSE /\ earned = {}

SessionNext ==
    \/ Checked
    \/ \E i \in Attempt : \/ \E p \in Phrase : Unlock(i, p)
                          \/ CreateFails(i) \/ Create(i) \/ Wire(i) \/ Settings(i) \/ Started(i)
    \/ \E c \in 1..Commands : \/ \E kind \in {"lock", "wipe", "reset"} : Begin(c, kind)
                              \/ LockEnd(c) \/ WipeKey(c) \/ WipeEnd(c)

SessionSpec == SessionInit /\ [][SessionNext]_session

-----------------------------------------------------------------------------
(* Properties *)

\* However attempts and commands overlap, a node runs only for a passphrase that opened
\* the sealed key or made it, and a data key is in memory only for an attempt under way
\* or a running node: a failed one leaves none for the next attempt to slip through
\* (IndexedDBStore.unlock, the catch blocks of create() and unlock()).
KeysEarned ==
    /\ \A i \in Attempt : Running(i) => i \in earned
    /\ \A s \in keyring : \E i \in Attempt :
         call[i].store = s /\ (call[i].at \in {"wire", "settings"} \/ Running(i))

\* What lock() and panicWipe() say of themselves: once one is through, and until the
\* user unlocks again, no node communicates and no data key is in memory.
LockSilences == silent => keyring = {} /\ \A i \in Attempt : ~Running(i)
=============================================================================
