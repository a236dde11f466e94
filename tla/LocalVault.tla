----------------------------- MODULE LocalVault -----------------------------
(***************************************************************************)
(* The encrypted database of one installation and the stores that have it  *)
(* open (tabs, or calls that overlap): IndexedDBStore.ts with DataVault.ts *)
(* and SecretVault.ts, and the identities sealed in it                     *)
(* (NodeIdentityStore.ts, Identity.ts).                                    *)
(*                                                                         *)
(* Sealing is perfect: a record is read with the key it was sealed with,   *)
(* and a sealed key with its passphrase.  A crash closes a store and       *)
(* forgets what it was doing.  A row stands for the posts, statistics,     *)
(* slots, boards and settings alike.                                       *)
(***************************************************************************)
EXTENDS Integers, FiniteSets

CONSTANTS
    Store,
    Pass,       \* passphrases
    Plain0,     \* records of the tables of version 6 and before
    Written,    \* records written later
    Unsealed,   \* the passphrase of a slot without protection
    Nothing,
    Steps       \* bound: crashes, locks, writes, changes of passphrase and wipes

ASSUME LocalVaultAssumption ==
    Unsealed \notin Pass /\ Nothing \notin Pass \cup {Unsealed} /\ Steps \in Nat

VARIABLES
    dek,        \* the sealed data key: its number and passphrase, Nothing without one
    vault,      \* vault[s]: the data key in memory, 0 when locked
    work,       \* work[s]: what s awaits, with the passphrase, key and records it holds
    plain,      \* old tables
    records,    \* encrypted tables: records and the key they are sealed with
    slot,       \* slot[x]: the passphrase identity x is sealed with, or Nothing
    made,       \* history: data keys made, at most two
    wiped,      \* history: the sealed key was deleted
    fits,       \* history: passphrases the data key had
    steps

vault_vars == <<dek, vault, work, plain, records, slot, made, wiped, fits, steps>>

Resting == [at |-> "idle", pass |-> Nothing, key |-> 0, rest |-> {}]
NoKey == [key |-> 0, pass |-> Nothing]

Step == steps < Steps /\ steps' = steps + 1
To(s, at, pass, key, rest) ==
    work' = [work EXCEPT ![s] = [at |-> at, pass |-> pass, key |-> key, rest |-> rest]]
Rests(s) == work' = [work EXCEPT ![s] = Resting]

\* DataVault.seal: bound to the key; DataVault.open gives nothing for other keys.
Sealed(r, k) == [rec |-> r, key |-> k]

\* What s reads: getThreads, getPosts, getBoardKey, listBoards, getSetting.
Reads(s) == {row.rec : row \in {x \in records : x.key = vault[s]}}

\* SecretVault.open of the sealed key.
Fits(p) == dek # NoKey /\ dek.pass = p

-----------------------------------------------------------------------------
(* Unlocking *)

\* unlock() has read the record: open it, or make a key that is yet to be put.  On an
\* unlocked store, and for another passphrase, it changes nothing.
UnlockRead(s, p) ==
    /\ work[s].at = "idle" /\ vault[s] = 0
    /\ IF dek = NoKey
       THEN /\ made < 2 /\ made' = made + 1
            /\ To(s, "put", p, made + 1, {})
            /\ vault' = vault
       ELSE /\ Fits(p)
            /\ vault' = [vault EXCEPT ![s] = dek.key]
            /\ To(s, "legacy", p, dek.key, {})
            /\ made' = made
    /\ UNCHANGED <<dek, plain, records, slot, wiped, fits, steps>>

UnlockPut(s) ==
    LET w == work[s]
    IN  /\ w.at = "put"
        /\ dek' = [key |-> w.key, pass |-> w.pass]
        /\ vault' = [vault EXCEPT ![s] = w.key]
        /\ fits' = fits \cup {w.pass}
        /\ To(s, "legacy", w.pass, w.key, {})
        /\ UNCHANGED <<plain, records, slot, made, wiped, steps>>

\* Mutant: the old table is cleared as it is read.
LegacyReadClears(s) ==
    /\ work[s].at = "legacy"
    /\ To(s, "copy", work[s].pass, vault[s], plain)
    /\ plain' = {}
    /\ UNCHANGED <<dek, vault, records, slot, made, wiped, fits, steps>>

\* migrateLegacy: the old records are read ...
LegacyRead(s) ==
    /\ work[s].at = "legacy"
    /\ To(s, "copy", work[s].pass, vault[s], plain)
    /\ UNCHANGED <<dek, vault, plain, records, slot, made, wiped, fits, steps>>

\* ... sealed one at a time; a store that was locked meanwhile gives up ...
LegacyCopy(s) ==
    LET w == work[s]
    IN  /\ w.at = "copy" /\ w.rest # {}
        /\ IF vault[s] = 0 THEN Rests(s) /\ records' = records
           ELSE \E r \in w.rest : /\ records' = records \cup {Sealed(r, w.key)}
                                  /\ To(s, "copy", w.pass, w.key, w.rest \ {r})
        /\ UNCHANGED <<dek, vault, plain, slot, made, wiped, fits, steps>>

\* ... and the old table is cleared.
LegacyClear(s) ==
    /\ work[s].at = "copy" /\ work[s].rest = {}
    /\ plain' = {}
    /\ To(s, "slots", work[s].pass, work[s].key, {})
    /\ UNCHANGED <<dek, vault, records, slot, made, wiped, fits, steps>>

\* Identities sealed without a passphrase are sealed with this one.
SlotsResealed(s) ==
    /\ work[s].at = "slots" /\ Rests(s)
    /\ slot' = [x \in DOMAIN slot |-> IF slot[x] = Unsealed THEN work[s].pass ELSE slot[x]]
    /\ UNCHANGED <<dek, vault, plain, records, made, wiped, fits, steps>>

-----------------------------------------------------------------------------
(* Changing the passphrase, locking, wiping *)

ChangeRead(s, old, new) ==
    /\ work[s].at = "idle" /\ Fits(old) /\ new # old /\ Step
    /\ To(s, "rewrap", new, dek.key, {})
    /\ UNCHANGED <<dek, vault, plain, records, slot, made, wiped, fits>>

\* The key is wrapped again; nothing else is.
ChangePut(s) ==
    /\ work[s].at = "rewrap" /\ Rests(s)
    /\ dek' = [key |-> work[s].key, pass |-> work[s].pass]
    /\ fits' = fits \cup {work[s].pass}
    /\ UNCHANGED <<vault, plain, records, slot, made, wiped, steps>>

Lock(s) ==
    /\ vault[s] # 0 /\ Step
    /\ vault' = [vault EXCEPT ![s] = 0]
    /\ UNCHANGED <<dek, work, plain, records, slot, made, wiped, fits>>

Crash(s) ==
    /\ Step /\ Rests(s)
    /\ vault' = [vault EXCEPT ![s] = 0]
    /\ UNCHANGED <<dek, plain, records, slot, made, wiped, fits>>

\* wipeAll(): the sealed key is deleted, the database when no other store has it open.
Wipe(s) ==
    /\ work[s].at = "idle" /\ Step
    /\ dek' = NoKey /\ wiped' = TRUE
    /\ vault' = [vault EXCEPT ![s] = 0]
    /\ \/ UNCHANGED <<plain, records, slot>>
       \/ /\ \A t \in Store \ {s} : vault[t] = 0 /\ work[t] = Resting
          /\ plain' = {} /\ records' = {} /\ slot' = [x \in DOMAIN slot |-> Nothing]
    /\ UNCHANGED <<work, made, fits>>

-----------------------------------------------------------------------------
(* Records and identities *)

\* Everything that is saved is sealed with the key in memory: save, saveBoard, setSetting.
Save(s, r) ==
    /\ vault[s] # 0 /\ Step
    /\ records' = records \cup {Sealed(r, vault[s])}
    /\ UNCHANGED <<dek, vault, work, plain, slot, made, wiped, fits>>

\* loadOrMine: an identity that the passphrase opens is restored, without one a new one
\* is mined, and one it does not open stays as it is.
NodeLoad(s, p) ==
    /\ work[s].at = "idle" /\ vault[s] # 0 /\ p \in fits
    /\ slot.node = Nothing
    /\ To(s, "mine", p, 0, {})
    /\ UNCHANGED <<dek, vault, plain, records, slot, made, wiped, fits, steps>>

\* saveSealed seals the description with the data key, so a locked store saves nothing.
NodeSave(s) ==
    /\ work[s].at = "mine" /\ Rests(s)
    /\ slot' = IF vault[s] = 0 THEN slot ELSE [slot EXCEPT !.node = work[s].pass]
    /\ UNCHANGED <<dek, vault, plain, records, made, wiped, fits, steps>>

\* generateTrip and resealTrip need no key: a trip has no description.  deleteTrip.
TripSaved(s, p) ==
    /\ p \in fits \cup {Nothing} /\ Step
    /\ slot' = [slot EXCEPT !.trip = p]
    /\ UNCHANGED <<dek, vault, work, plain, records, made, wiped, fits>>

-----------------------------------------------------------------------------
VaultInit ==
    /\ dek = NoKey /\ vault = [s \in Store |-> 0] /\ work = [s \in Store |-> Resting]
    /\ plain = Plain0 /\ records = {}
    /\ slot \in [{"node", "trip"} -> {Unsealed, Nothing}]
    /\ made = 0 /\ wiped = FALSE /\ fits = {} /\ steps = 0

VaultNext == \E s \in Store :
    \/ \E p \in Pass : \/ UnlockRead(s, p) \/ NodeLoad(s, p)
                       \/ \E q \in Pass : ChangeRead(s, p, q)
    \/ \E p \in Pass \cup {Nothing} : TripSaved(s, p)
    \/ UnlockPut(s) \/ LegacyRead(s) \/ LegacyCopy(s) \/ LegacyClear(s) \/ SlotsResealed(s)
    \/ ChangePut(s) \/ Lock(s) \/ Crash(s) \/ Wipe(s) \/ NodeSave(s)
    \/ \E r \in Written : Save(s, r)

VaultSpec == VaultInit /\ [][VaultNext]_vault_vars

-----------------------------------------------------------------------------
(* Properties *)

\* Unless two stores made a key at the same time or the user wiped everything, whatever
\* crashes, locks and changes of passphrase fall between the steps of two stores: every
\* row is readable by a store that is unlocked, every old record is in its table or among
\* those rows, sealed with the key on disk, and an identity is sealed with a passphrase
\* that fitted (unlock, migrateLegacy, changePassphrase, loadOrMine).
VaultKept ==
    made < 2 /\ ~wiped =>
      /\ \A s \in Store : vault[s] # 0 => \A row \in records : row.rec \in Reads(s)
      /\ \A r \in Plain0 : r \in plain \/ Sealed(r, dek.key) \in records
      /\ \A x \in DOMAIN slot : slot[x] \in fits \cup {Unsealed, Nothing}
=============================================================================
