---------------------------- MODULE NodeProofs ----------------------------
(***************************************************************************)
(* Proofs about what runs inside one node, NodeSession, LocalVault, Zones, *)
(* BoardView, Release and Guards, and about Channel, its data channels:    *)
(* each for any value of its constants.                                    *)
(* The lists of Release, Guards and Channel are filtered and summed by     *)
(* Lists.                                                                  *)
(***************************************************************************)
EXTENDS NodeSession, LocalVault, Zones, BoardView, Release, Guards, Channel,
        FiniteSetTheorems, SequenceTheorems, WellFoundedInduction, TLAPS

-----------------------------------------------------------------------------
(* NodeSession: starting and stopping the node *)

Stage   == {"none", "create", "wire", "settings", "start", "done"}
Calls   == [at : Stage, phrase : Phrase \cup {NoPhrase}, store : Nat,
            from : {"setup", "locked"}]
Holding == {"wire", "settings"}

Types ==
    /\ call \in [Attempt -> Calls]
    /\ node \in [Attempt -> {"none", "made", "running", "stopped"}]
    /\ storeRef \in Nat /\ nodeRef \in Attempt \cup {0}
    /\ screen \in {"checking", "setup", "locked", "starting", "ready"}
    /\ earned \subseteq Attempt

\* An attempt that got past the passphrase earned it, a node is made at the settings and
\* runs only after them, and the provider refers to none before that.
Staged ==
    \A i \in Attempt :
      /\ call[i].at \in {"wire", "settings", "start"} => i \in earned
      /\ node[i] = "made" <=> call[i].at = "settings"
      /\ node[i] = "running" => i \in earned /\ call[i].at \in {"start", "done"}
      /\ call[i].at \in {"none", "create", "wire"} => node[i] = "none"
      /\ nodeRef = i => call[i].at = "done"

SessionInv == Types /\ Staged /\ KeysEarned

-----------------------------------------------------------------------------
LEMMA SessionInvInit == SessionInit => SessionInv
  BY NodeSessionAssumption
  DEF SessionInit, SessionInv, Types, Staged, KeysEarned, Attempt, Idle, Calls, Stage,
      Running

\* A key that stays is held by who held it, unless that attempt ended.
LEMMA SessionInvNext == SessionInv /\ [SessionNext]_session => SessionInv'
<1> SUFFICES ASSUME SessionInv, [SessionNext]_session
             PROVE  SessionInv'
  OBVIOUS
<1> USE DEF SessionInv, Types, Staged, KeysEarned, Running, Calls, Stage
<1>0. 0 \notin Attempt
  BY DEF Attempt
<1>1. ASSUME Checked PROVE SessionInv'
  BY <1>1 DEF Checked
<1>2. ASSUME NEW i \in Attempt, NEW p \in Phrase, Unlock(i, p) PROVE SessionInv'
  BY <1>2 DEF Unlock
<1>3. ASSUME NEW i \in Attempt, CreateFails(i) PROVE SessionInv'
  BY <1>3 DEF CreateFails, Fails
<1>4. ASSUME NEW i \in Attempt, Create(i) PROVE SessionInv'
  <2>1. CASE Unlocks(i)
    BY <1>4, <2>1 DEF Create, Unlocks
  <2>2. CASE ~Unlocks(i)
    <3>1. /\ call[i].at = "create" /\ call' = [call EXCEPT ![i].at = "done"]
          /\ screen' = call[i].from /\ keyring' \subseteq keyring
          /\ earned \subseteq earned' /\ earned' \subseteq Attempt
          /\ UNCHANGED <<nodeRef, storeRef, node>>
      BY <1>4, <2>2 DEF Create, Fails
    <3> QED BY <3>1
  <2> QED BY <2>1, <2>2
<1>5. ASSUME NEW i \in Attempt, Wire(i) PROVE SessionInv'
  <2>1. CASE /\ node' = [node EXCEPT ![i] = "made"]
             /\ call' = [call EXCEPT ![i].at = "settings"]
             /\ UNCHANGED <<keyring, screen>>
    BY <1>5, <2>1 DEF Wire
  <2>2. CASE Fails(i, keyring \ {call[i].store}) /\ node' = node
    <3>1. /\ call[i].at = "wire" /\ call' = [call EXCEPT ![i].at = "done"]
          /\ screen' = call[i].from
          /\ keyring' \subseteq keyring /\ call[i].store \notin keyring'
          /\ UNCHANGED <<nodeRef, storeRef, node, earned>>
      BY <1>5, <2>2 DEF Wire, Fails
    <3> QED BY <3>1
  <2> QED BY <1>5, <2>1, <2>2 DEF Wire
<1>6. ASSUME NEW i \in Attempt, Settings(i) PROVE SessionInv'
  <2>1. CASE call[i].store \in keyring
    BY <1>6, <2>1 DEF Settings
  <2>2. CASE call[i].store \notin keyring
    <3>1. /\ call[i].at = "settings" /\ call' = [call EXCEPT ![i].at = "done"]
          /\ node' = [node EXCEPT ![i] = "stopped"] /\ screen' = call[i].from
          /\ keyring' \subseteq keyring
          /\ UNCHANGED <<nodeRef, storeRef, earned>>
      BY <1>6, <2>2 DEF Settings, Stopped, KeysAfterStop, Fails, Attempt
    <3> QED BY <2>2, <3>1
  <2> QED BY <2>1, <2>2
<1>7. ASSUME NEW i \in Attempt, Started(i) PROVE SessionInv'
  BY <1>7 DEF Started
<1>8. ASSUME NEW c \in 1..Commands, NEW kind \in {"lock", "wipe", "reset"}, Begin(c, kind)
      PROVE  SessionInv'
  <2>1. CASE nodeRef = 0
    BY <1>8, <2>1 DEF Begin, Stopped, KeysAfterStop
  <2>2. CASE nodeRef # 0
    <3>1. /\ nodeRef \in Attempt /\ nodeRef' \in {nodeRef, 0}
          /\ node' = [node EXCEPT ![nodeRef] = "stopped"]
          /\ UNCHANGED <<screen, storeRef, call, earned>>
      BY <1>8, <2>2 DEF Begin, Stopped
    <3>2. /\ keyring' \subseteq keyring
          /\ node[nodeRef] = "running" => call[nodeRef].store \notin keyring'
      BY <1>8, <2>2 DEF Begin, KeysAfterStop
    <3>3. Types' /\ Staged'
      BY <1>0, <3>1
    <3>4. KeysEarned'
      BY <3>1, <3>2
    <3> QED BY <3>3, <3>4
  <2> QED BY <2>1, <2>2
<1>9. ASSUME NEW c \in 1..Commands, LockEnd(c) PROVE SessionInv'
  BY <1>9 DEF LockEnd
<1>10. ASSUME NEW c \in 1..Commands, WipeKey(c) PROVE SessionInv'
  <2>1. /\ keyring' \subseteq keyring /\ nodeRef' \in {nodeRef, 0}
        /\ UNCHANGED <<screen, storeRef, call, node, earned>>
    BY <1>10 DEF WipeKey
  <2> QED BY <1>0, <2>1
<1>11. ASSUME NEW c \in 1..Commands, WipeEnd(c) PROVE SessionInv'
  BY <1>11 DEF WipeEnd
<1>12. CASE UNCHANGED session
  BY <1>12 DEF session
<1> QED
  BY <1>1, <1>2, <1>3, <1>4, <1>5, <1>6, <1>7, <1>8, <1>9, <1>10, <1>11, <1>12
  DEF SessionNext

\* For any number of overlapping attempts and commands, a node runs only for a passphrase
\* that fitted, and a key is in memory only for an attempt under way or a running node
\* (IndexedDBStore.unlock, the catch blocks of create() and unlock()).
THEOREM KeysAreEarned == SessionSpec => []KeysEarned
<1>1. SessionInv => KeysEarned
  BY DEF SessionInv
<1> QED BY <1>1, SessionInvInit, SessionInvNext, PTL DEF SessionSpec

-----------------------------------------------------------------------------
(* LocalVault: the encrypted local store *)

\* What a store may be doing, and with what: from the put of a key on there is one data
\* key, and a store that copies holds every old record that is not sealed with it yet.
Working(s) ==
    LET w == work[s]
    IN  /\ w.at \in {"put", "rewrap"} => w.key = 1
        /\ w.at \in {"legacy", "copy", "slots", "rewrap"} => dek.key = 1
        /\ w.at \in {"legacy", "copy", "slots", "mine"} => w.pass \in fits
        /\ w.at = "copy" /\ vault[s] # 0 => w.key = 1
        /\ w.at = "copy" => \A r \in Plain0 : r \in w.rest \/ Sealed(r, 1) \in records

VaultTypes ==
    /\ made \in Nat /\ dek.key \in Nat
    /\ DOMAIN work = Store /\ vault \in [Store -> Nat]
    /\ \A s \in Store : work[s].key \in Nat
    /\ plain \subseteq Plain0
    /\ DOMAIN slot = {"node", "trip"}

OneKey ==
    /\ dek = NoKey \/ (dek.key = 1 /\ dek.pass \in fits)
    /\ \A s \in Store : vault[s] \in {0, dek.key}
    /\ \A row \in records : row.key = 1 /\ dek.key = 1 /\ row = Sealed(row.rec, 1)
    /\ \A r \in Plain0 : r \in plain \/ Sealed(r, 1) \in records
    /\ \A x \in DOMAIN slot : slot[x] \in fits \cup {Unsealed, Nothing}
    /\ \A s \in Store : Working(s)

VaultInv == VaultTypes /\ (made < 2 /\ ~wiped => OneKey)

LEMMA VaultInvInit == VaultInit => VaultInv
<1> SUFFICES ASSUME VaultInit PROVE VaultInv
  OBVIOUS
<1> USE DEF VaultInit
<1>1. VaultTypes
  <2>1. DOMAIN work = Store /\ \A s \in Store : work[s] = Resting
    OBVIOUS
  <2>2. dek.key = 0 /\ made = 0
    BY DEF NoKey
  <2>3. vault \in [Store -> Nat] /\ DOMAIN slot = {"node", "trip"} /\ plain \subseteq Plain0
    OBVIOUS
  <2> QED BY <2>1, <2>2, <2>3 DEF VaultTypes, Resting
<1>2. \A s \in Store : Working(s)
  BY DEF Working, Resting
<1>3. dek = NoKey /\ dek.key = 0
  BY DEF NoKey
<1>4. \A x \in DOMAIN slot : slot[x] \in fits \cup {Unsealed, Nothing}
  OBVIOUS
<1>5. \A r \in Plain0 : r \in plain \/ Sealed(r, 1) \in records
  OBVIOUS
<1> QED BY <1>1, <1>2, <1>3, <1>4, <1>5 DEF VaultInv, OneKey

LEMMA VaultInvKept == VaultInv => VaultKept
<1> SUFFICES ASSUME VaultInv, made < 2, ~wiped
             PROVE  VaultKept
  BY DEF VaultKept
<1>1. OneKey /\ VaultTypes
  BY DEF VaultInv
<1>2. \A s \in Store : vault[s] # 0 => \A row \in records : row.rec \in Reads(s)
  BY <1>1 DEF OneKey, Reads
<1>3. \A r \in Plain0 : r \in plain \/ Sealed(r, dek.key) \in records
  BY <1>1 DEF OneKey, Sealed
<1> QED BY <1>1, <1>2, <1>3 DEF VaultKept, OneKey

LEMMA VaultInvNext == VaultInv /\ [VaultNext]_vault_vars => VaultInv'
<1> SUFFICES ASSUME VaultInv, [VaultNext]_vault_vars
             PROVE  VaultInv'
  OBVIOUS
<1> USE DEF VaultInv, Sealed
<1>1. ASSUME NEW s \in Store, NEW p \in Pass, UnlockRead(s, p) PROVE VaultInv'
  <2> USE <1>1 DEF UnlockRead, To, Fits
  <2>1. VaultTypes'
    BY DEF VaultTypes, OneKey, NoKey
  <2>2. ASSUME made' < 2, ~wiped' PROVE OneKey'
    BY <2>2 DEF VaultTypes, OneKey, Working, NoKey
  <2> QED BY <2>1, <2>2
<1>2. ASSUME NEW s \in Store, UnlockPut(s) PROVE VaultInv'
  <2> USE <1>2 DEF UnlockPut, To
  <2>1. VaultTypes'
    BY DEF VaultTypes
  <2>2. ASSUME made' < 2, ~wiped' PROVE OneKey'
    BY <2>2 DEF VaultTypes, OneKey, Working, NoKey
  <2> QED BY <2>1, <2>2
<1>3. ASSUME NEW s \in Store, LegacyRead(s) PROVE VaultInv'
  <2> USE <1>3 DEF LegacyRead, To
  <2>1. VaultTypes'
    BY DEF VaultTypes
  <2>2. ASSUME made' < 2, ~wiped' PROVE OneKey'
    BY <2>2 DEF VaultTypes, OneKey, Working, NoKey
  <2> QED BY <2>1, <2>2
<1>4. ASSUME NEW s \in Store, LegacyCopy(s) PROVE VaultInv'
  <2> USE <1>4 DEF LegacyCopy, To, Rests, Resting
  <2>1. VaultTypes'
    BY DEF VaultTypes
  <2>2. ASSUME made' < 2, ~wiped' PROVE OneKey'
    <3>1. CASE vault[s] = 0
      BY <2>2, <3>1 DEF VaultTypes, OneKey, Working
    <3>2. CASE vault[s] # 0
      BY <2>2, <3>2 DEF VaultTypes, OneKey, Working
    <3> QED BY <3>1, <3>2
  <2> QED BY <2>1, <2>2
<1>5. ASSUME NEW s \in Store, LegacyClear(s) PROVE VaultInv'
  <2> USE <1>5 DEF LegacyClear, To
  <2>1. VaultTypes'
    BY DEF VaultTypes
  <2>2. ASSUME made' < 2, ~wiped' PROVE OneKey'
    BY <2>2 DEF VaultTypes, OneKey, Working
  <2> QED BY <2>1, <2>2
<1>6. ASSUME NEW s \in Store, SlotsResealed(s) PROVE VaultInv'
  <2> USE <1>6 DEF SlotsResealed, Rests, Resting
  <2>1. VaultTypes'
    BY DEF VaultTypes
  <2>2. ASSUME made' < 2, ~wiped' PROVE OneKey'
    BY <2>2 DEF VaultTypes, OneKey, Working
  <2> QED BY <2>1, <2>2
<1>7. ASSUME NEW s \in Store, NEW p \in Pass, NEW q \in Pass, ChangeRead(s, p, q) PROVE VaultInv'
  <2> USE <1>7 DEF ChangeRead, To, Fits
  <2>1. VaultTypes'
    BY DEF VaultTypes
  <2>2. ASSUME made' < 2, ~wiped' PROVE OneKey'
    BY <2>2 DEF VaultTypes, OneKey, Working
  <2> QED BY <2>1, <2>2
<1>8. ASSUME NEW s \in Store, ChangePut(s) PROVE VaultInv'
  <2> USE <1>8 DEF ChangePut, Rests, Resting
  <2>1. VaultTypes'
    BY DEF VaultTypes
  <2>2. ASSUME made' < 2, ~wiped' PROVE OneKey'
    BY <2>2 DEF VaultTypes, OneKey, Working, NoKey
  <2> QED BY <2>1, <2>2
<1>9. ASSUME NEW s \in Store, Lock(s) PROVE VaultInv'
  BY <1>9 DEF Lock, VaultTypes, OneKey, Working
<1>10. ASSUME NEW s \in Store, Crash(s) PROVE VaultInv'
  BY <1>10 DEF Crash, VaultTypes, OneKey, Working, Rests, Resting
<1>11. ASSUME NEW s \in Store, Wipe(s) PROVE VaultInv'
  <2>1. /\ wiped' = TRUE /\ dek'.key = 0 /\ UNCHANGED <<work, made>>
        /\ vault' = [vault EXCEPT ![s] = 0] /\ DOMAIN slot' = DOMAIN slot
        /\ plain' \subseteq plain
    BY <1>11 DEF Wipe, NoKey
  <2>2. VaultTypes'
    BY <2>1 DEF VaultTypes
  <2> QED BY <2>1, <2>2
<1>12. ASSUME NEW s \in Store, NEW r \in Written, Save(s, r) PROVE VaultInv'
  <2> USE <1>12 DEF Save
  <2>1. VaultTypes'
    BY DEF VaultTypes
  <2>2. ASSUME made' < 2, ~wiped' PROVE OneKey'
    <3>1. vault[s] = 1 /\ dek.key = 1
      BY <2>2 DEF OneKey, NoKey
    <3> QED BY <2>2, <3>1 DEF OneKey, Working
  <2> QED BY <2>1, <2>2
<1>13. ASSUME NEW s \in Store, NEW p \in Pass, NodeLoad(s, p) PROVE VaultInv'
  BY <1>13 DEF NodeLoad, To, VaultTypes, OneKey, Working
<1>14. ASSUME NEW s \in Store, NodeSave(s) PROVE VaultInv'
  BY <1>14 DEF NodeSave, Rests, Resting, VaultTypes, OneKey, Working
<1>15. ASSUME NEW s \in Store, NEW p \in Pass \cup {Nothing}, TripSaved(s, p) PROVE VaultInv'
  BY <1>15 DEF TripSaved, VaultTypes, OneKey, Working
<1>16. CASE UNCHANGED vault_vars
  BY <1>16 DEF vault_vars, VaultTypes, OneKey, Working
<1> QED
  BY <1>1, <1>2, <1>3, <1>4, <1>5, <1>6, <1>7, <1>8, <1>9, <1>10, <1>11, <1>12, <1>13,
     <1>14, <1>15, <1>16 DEF VaultNext

\* For any stores, passphrases and records, whatever crashes, locks, wipes and changes of
\* passphrase fall between the steps of the stores: as long as one data key was made, what
\* was written is readable by whoever is unlocked and no old record is lost on its way
\* (unlock, migrateLegacy, changePassphrase, loadOrMine).
THEOREM VaultIsKept == VaultSpec => []VaultKept
<1> QED BY VaultInvInit, VaultInvNext, VaultInvKept, PTL DEF VaultSpec

-----------------------------------------------------------------------------
(* Zones: the depth, the subscriptions and the open views *)

\* The open views of a topic.
Holders(t) == {v \in open : About[v] = t}

\* The count of a topic is that of the views that hold it, and the timer has not run
\* longer than the depth was unchallenged.
ZonesInv ==
    /\ depth \in 0..MaxDepth /\ falling \in 0..Wait /\ lower \in 0..Wait
    /\ open \subseteq View /\ refs \in [Topic -> Nat]
    /\ \A t \in Topic : refs[t] = Cardinality(Holders(t))
    /\ zones \in Chosen(depth)
    /\ falling > 0 => depth > 0 /\ lower + falling >= Wait

\* The zones chosen for a depth exist, and are as many as they may be.
LEMMA ChosenZones ==
    ASSUME ZonesAssumption, NEW d \in 0..MaxDepth, NEW Z \in Chosen(d)
    PROVE  /\ Z \subseteq 0..(2^d - 1)
           /\ Cardinality(Z) = IF 2^d <= Count THEN 2^d ELSE Count
<1> DEFINE n == 2^d
<1>1. n \in Int /\ n > 0
  BY DEF ZonesAssumption
<1>2. /\ n <= Count => Z = 0..(n - 1)
      /\ ~(n <= Count) => Z \subseteq 0..(n - 1) /\ Cardinality(Z) = Count
  BY DEF Chosen
<1> HIDE DEF n
<1>3. Cardinality(0..(n - 1)) = n
  <2>1. n - 1 \in Int /\ 0 \in Int /\ ~(0 > n - 1) /\ n - 1 - 0 + 1 = n
    BY <1>1
  <2> QED BY <2>1, FS_Interval
<1>4. Z \subseteq 0..(n - 1) /\ Cardinality(Z) = IF n <= Count THEN n ELSE Count
  BY <1>2, <1>3
<1> QED BY <1>4 DEF n

\* A topic has finitely many holders.
LEMMA HoldersFinite ==
    ASSUME ZonesAssumption, open \subseteq View, NEW t
    PROVE  IsFiniteSet(Holders(t)) /\ Cardinality(Holders(t)) \in Nat
<1>1. Holders(t) \subseteq View /\ IsFiniteSet(View)
  BY DEF Holders, ZonesAssumption
<1> QED BY <1>1, FS_Subset, FS_CardinalityType

\* An open view is heard at every depth.
LEMMA ZonesHear == ASSUME ZonesAssumption, ZonesInv PROVE OpenHeard
<1>1. ASSUME NEW v \in open, NEW d \in 0..MaxDepth PROVE Subscribed(ZoneAt(About[v], d))
  <2>1. About[v] \in Topic /\ v \in Holders(About[v])
    BY DEF ZonesInv, ZonesAssumption, Holders
  <2>2. IsFiniteSet(Holders(About[v])) /\ Cardinality(Holders(About[v])) \in Nat
    BY HoldersFinite DEF ZonesInv
  <2>3. Cardinality(Holders(About[v])) # 0
    BY <2>1, <2>2, FS_EmptySet
  <2>4. refs[About[v]] > 0
    BY <2>1, <2>2, <2>3 DEF ZonesInv
  <2>5. About[v] \in Watched
    BY <2>1, <2>4 DEF Watched
  <2> QED BY <2>5 DEF Subscribed
<1>2. /\ zones \subseteq 0..(2^depth - 1)
      /\ Cardinality(zones) = IF 2^depth <= Count THEN 2^depth ELSE Count
  BY ChosenZones DEF ZonesInv
<1> QED BY <1>1, <1>2 DEF OpenHeard

\* A node starts at depth 0 with the only zone there is.
LEMMA ZonesStart == ASSUME ZonesAssumption, ZonesInit PROVE ZonesInv
<1>1. \A t \in Topic : refs[t] = 0 /\ Holders(t) = {}
  BY DEF ZonesInit, Holders
<1>2. \A t \in Topic : refs[t] = Cardinality(Holders(t))
  BY <1>1, FS_EmptySet
<1>3. {MaxDepth, Wait, Count} \subseteq Nat \ {0}
  BY DEF ZonesAssumption
<1>4. zones \in Chosen(0)
  <2>1. 2^0 = 1 /\ 1 <= Count
    BY <1>3
  <2>2. {0} = 0..0 /\ 1 - 1 = 0
    OBVIOUS
  <2> QED BY <2>1, <2>2 DEF Chosen, ZonesInit
<1>5. 0 \in 0..MaxDepth /\ 0 \in 0..Wait /\ ~(0 > 0)
  BY <1>3
<1> QED BY <1>2, <1>4, <1>5 DEF ZonesInv, ZonesInit

\* One view more or less counts for its topic and for no other.
LEMMA HoldersOf ==
    ASSUME ZonesAssumption, open \subseteq View, NEW v \in View, NEW t \in Topic
    PROVE  /\ v \notin open /\ open' = open \cup {v} =>
                Cardinality(Holders(t)') = IF About[v] = t THEN Cardinality(Holders(t)) + 1
                                           ELSE Cardinality(Holders(t))
           /\ v \in open /\ open' = open \ {v} =>
                Cardinality(Holders(t)') = IF About[v] = t THEN Cardinality(Holders(t)) - 1
                                           ELSE Cardinality(Holders(t))
<1>1. IsFiniteSet(Holders(t)) /\ Cardinality(Holders(t)) \in Nat
  BY HoldersFinite
<1>2. ASSUME v \notin open, open' = open \cup {v}
      PROVE  Cardinality(Holders(t)') = IF About[v] = t THEN Cardinality(Holders(t)) + 1
                                        ELSE Cardinality(Holders(t))
  <2>1. v \notin Holders(t)
    BY <1>2 DEF Holders
  <2>2. Holders(t)' = IF About[v] = t THEN Holders(t) \cup {v} ELSE Holders(t)
    BY <1>2 DEF Holders
  <2>3. CASE About[v] = t
    BY <1>1, <2>1, <2>2, <2>3, FS_AddElement
  <2>4. CASE About[v] # t
    BY <2>2, <2>4
  <2> QED BY <2>3, <2>4
<1>3. ASSUME v \in open, open' = open \ {v}
      PROVE  Cardinality(Holders(t)') = IF About[v] = t THEN Cardinality(Holders(t)) - 1
                                        ELSE Cardinality(Holders(t))
  <2>1. About[v] = t => v \in Holders(t)
    BY <1>3 DEF Holders
  <2>2. Holders(t)' = IF About[v] = t THEN Holders(t) \ {v} ELSE Holders(t)
    BY <1>3 DEF Holders
  <2>3. CASE About[v] = t
    BY <1>1, <2>1, <2>2, <2>3, FS_RemoveElement
  <2>4. CASE About[v] # t
    BY <2>2, <2>4
  <2> QED BY <2>3, <2>4
<1> QED BY <1>2, <1>3

\* Every step keeps the invariant.
LEMMA ZonesGoOn == ASSUME ZonesAssumption, ZonesInv, [ZonesNext]_zone_vars PROVE ZonesInv'
<1>0. {MaxDepth, Wait, Count} \subseteq Nat \ {0}
  BY DEF ZonesAssumption
<1>1. ASSUME UNCHANGED <<refs, open>>
      PROVE  (open \subseteq View /\ refs \in [Topic -> Nat]
              /\ \A t \in Topic : refs[t] = Cardinality(Holders(t)))'
  BY <1>1 DEF ZonesInv, Holders
<1>2. ASSUME NEW target \in 0..MaxDepth, Rises(target) PROVE ZonesInv'
  <2>1. depth' = target /\ falling' = 0 /\ lower' = 0 /\ zones' \in Chosen(target)
        /\ UNCHANGED <<refs, open>>
    BY <1>2 DEF Rises, Descended
  <2>2. zones' \in Chosen(depth')
    BY <2>1
  <2>3. (zones \in Chosen(depth))'
    BY <2>2 DEF Chosen
  <2>4. 0 \in 0..Wait /\ ~(0 > 0)
    BY <1>0
  <2> QED BY <1>1, <2>1, <2>3, <2>4 DEF ZonesInv
<1>3. ASSUME NEW target \in 0..MaxDepth, Lower(target) PROVE ZonesInv'
  <2>1. /\ target < depth /\ falling' = IF falling = 0 THEN Wait ELSE falling
        /\ UNCHANGED <<depth, zones, refs, open, lower>>
    BY <1>3 DEF Lower
  <2>2. depth \in 0..MaxDepth /\ falling \in 0..Wait /\ lower \in 0..Wait
        /\ (falling > 0 => lower + falling >= Wait)
    BY DEF ZonesInv
  <2>3. falling' \in 0..Wait /\ (falling' > 0 => depth > 0 /\ lower + falling' >= Wait)
    BY <1>0, <2>1, <2>2
  <2>4. (zones \in Chosen(depth))'
    BY <2>1 DEF ZonesInv, Chosen
  <2> QED BY <1>1, <2>1, <2>2, <2>3, <2>4 DEF ZonesInv
<1>4. ASSUME NEW target \in 0..MaxDepth, Steady(target) PROVE ZonesInv'
  <2>1. falling' = 0 /\ lower' = 0 /\ UNCHANGED <<depth, zones, refs, open>>
    BY <1>4 DEF Steady
  <2>2. (zones \in Chosen(depth))'
    BY <2>1 DEF ZonesInv, Chosen
  <2>3. 0 \in 0..Wait /\ ~(0 > 0)
    BY <1>0
  <2> QED BY <1>1, <2>1, <2>2, <2>3 DEF ZonesInv
<1>5. CASE Minute
  <2>0. depth \in 0..MaxDepth /\ falling \in 0..Wait /\ lower \in 0..Wait
        /\ (falling > 0 => depth > 0 /\ lower + falling >= Wait)
    BY DEF ZonesInv
  <2>1. CASE falling = 1
    <3>1. /\ falling' = 0 /\ depth' = depth - 1 /\ zones' \in Chosen(depth - 1) /\ lower' = 0
          /\ UNCHANGED <<refs, open>>
      BY <1>5, <2>1 DEF Minute
    <3>2. depth' \in 0..MaxDepth
      BY <1>0, <2>0, <2>1, <3>1
    <3>3. (zones \in Chosen(depth))'
      BY <3>1 DEF Chosen
    <3>4. 0 \in 0..Wait /\ ~(0 > 0)
      BY <1>0
    <3> QED BY <1>1, <3>1, <3>2, <3>3, <3>4 DEF ZonesInv
  <2>2. CASE falling # 1
    <3>1. /\ falling' = IF falling = 0 THEN 0 ELSE falling - 1
          /\ lower' = IF lower < Wait THEN lower + 1 ELSE lower
          /\ UNCHANGED <<depth, zones, refs, open>>
      BY <1>5, <2>2 DEF Minute
    <3>2. /\ falling' \in 0..Wait /\ lower' \in 0..Wait
          /\ falling' > 0 => depth > 0 /\ lower' + falling' >= Wait
      BY <1>0, <2>0, <2>2, <3>1
    <3>3. (zones \in Chosen(depth))'
      BY <3>1 DEF ZonesInv, Chosen
    <3> QED BY <1>1, <2>0, <3>1, <3>2, <3>3 DEF ZonesInv
  <2> QED BY <2>1, <2>2
<1>6. ASSUME NEW v \in View, Watch(v) \/ Release(v) PROVE ZonesInv'
  <2>0. UNCHANGED <<depth, zones, falling, lower>>
    BY <1>6 DEF Watch, Release
  <2>1. (zones \in Chosen(depth))'
    BY <2>0 DEF ZonesInv, Chosen
  <2>2. About[v] \in Topic /\ refs \in [Topic -> Nat] /\ open \subseteq View
        /\ \A t \in Topic : refs[t] = Cardinality(Holders(t)) /\ Cardinality(Holders(t)) \in Nat
    BY HoldersFinite DEF ZonesInv, ZonesAssumption
  <2>3. open' \subseteq View
    BY <1>6, <2>2 DEF Watch, Release
  <2>4. ASSUME NEW t \in Topic PROVE refs'[t] = Cardinality(Holders(t)')
    <3>1. CASE Watch(v)
      <4>1. /\ v \notin open /\ open' = open \cup {v}
            /\ refs'[t] = IF About[v] = t THEN refs[t] + 1 ELSE refs[t]
        BY <2>2, <3>1 DEF Watch
      <4> QED BY <2>2, <4>1, HoldersOf
    <3>2. CASE Release(v)
      <4>1. /\ v \in open /\ open' = open \ {v}
            /\ refs'[t] = IF About[v] = t THEN refs[t] - 1 ELSE refs[t]
        BY <2>2, <3>2 DEF Release
      <4> QED BY <2>2, <4>1, HoldersOf
    <3> QED BY <1>6, <3>1, <3>2
  <2>5. \A t \in Topic : Cardinality(Holders(t)') \in Nat
    <3>1. \A t : IsFiniteSet(Holders(t)')
      <4>1. \A t : Holders(t)' \subseteq View
        BY <2>3 DEF Holders
      <4> QED BY <4>1, FS_Subset DEF ZonesAssumption
    <3> QED BY <3>1, FS_CardinalityType
  <2>6. DOMAIN refs' = Topic /\ refs' = [t \in Topic |-> refs'[t]]
    BY <1>6, <2>2 DEF Watch, Release
  <2>7. refs' \in [Topic -> Nat]
    BY <2>4, <2>5, <2>6
  <2> QED BY <2>0, <2>1, <2>3, <2>4, <2>7 DEF ZonesInv
<1>7. CASE UNCHANGED zone_vars
  <2>1. UNCHANGED <<depth, zones, falling, refs, open, lower>>
    BY <1>7 DEF zone_vars
  <2>2. (zones \in Chosen(depth))'
    BY <2>1 DEF ZonesInv, Chosen
  <2> QED BY <1>1, <2>1, <2>2 DEF ZonesInv
<1> QED BY <1>2, <1>3, <1>4, <1>5, <1>6, <1>7 DEF ZonesNext

\* For any topics, views and zones: whatever opens and closes and however the depth moves,
\* what an open view is sent is passed to it, the node subscribes to zones that exist and
\* to as many as it may, and its depth falls one step at a time, never sooner than Wait
\* after it changed or was asked for (isSubscribed, watchTopic, recomputeDepth).
THEOREM ZonesAreFollowed == ASSUME ZonesAssumption PROVE ZonesSpec => ZonesFollow
<1> DEFINE Slow == depth' < depth => depth' = depth - 1 /\ lower >= Wait - 1
<1>1. ZonesInit => ZonesInv
  BY ZonesStart
<1>2. ZonesInv /\ [ZonesNext]_zone_vars => ZonesInv'
  BY ZonesGoOn
<1>3. ZonesInv => OpenHeard
  BY ZonesHear
<1>4. ZonesInv /\ [ZonesNext]_zone_vars => Slow
  <2> SUFFICES ASSUME ZonesInv, [ZonesNext]_zone_vars, depth' < depth
               PROVE  depth' = depth - 1 /\ lower >= Wait - 1
    OBVIOUS
  <2>0. /\ depth \in Nat /\ falling \in Nat /\ lower \in Nat /\ Wait \in Nat
        /\ falling > 0 => depth > 0 /\ lower + falling >= Wait
    BY DEF ZonesInv, ZonesAssumption
  <2>1. ~\E target \in 0..MaxDepth : Rises(target) \/ Lower(target) \/ Steady(target)
    BY <2>0 DEF Rises, Lower, Steady
  <2>2. ~(\E v \in View : Watch(v) \/ Release(v)) /\ ~UNCHANGED zone_vars
    BY <2>0 DEF Watch, Release, zone_vars
  <2>3. Minute
    BY <2>1, <2>2 DEF ZonesNext
  <2>4. falling = 1 /\ depth' = depth - 1
    BY <2>0, <2>3 DEF Minute
  <2> QED BY <2>0, <2>4
<1> HIDE DEF Slow
<1>5. ZonesSpec => []OpenHeard /\ [][Slow]_zone_vars
  BY <1>1, <1>2, <1>3, <1>4, PTL DEF ZonesSpec
<1> QED BY <1>5 DEF ZonesFollow, FallsSlowly, Slow

-----------------------------------------------------------------------------
(* BoardView: the board and its background work *)

Boards == Board \cup {NoBoard}
BoardTypes ==
    /\ board \in Boards /\ degree \in Nat /\ acts \in Nat
    /\ threads \in [Packet -> Nat] /\ stats \in [Packet -> Nat]
    /\ \A rows \in ticks : rows \in [Packet -> Nat]
    /\ \A j \in jobs : j.post \in Packet /\ j.pow \in Nat \ {0}
    /\ \A l \in loads : /\ l.board \in Board /\ (l.at = "get" => l.rest = {})
                        /\ \A p \in l.rest : p \in Packet /\ For(p) = l.board
    /\ \A s \in submits : s.post \in Own /\ home[s.post] # NoBoard
    /\ home \in [Own -> Boards]
    /\ \A p \in seen : p \in Packet /\ (p \in Own => home[p] # NoBoard)
    /\ disk \subseteq Packet

\* Under way for p: its packet waits to be merged.
Merging == {j.post : j \in {i \in jobs : i.at = "merge"}}

\* Who is looked for is followed up also while the synchronization that was just begun has
\* not settled.
Follows ==
    /\ status = "none" => Shown = {}
    /\ board # NoBoard /\ (loads = {} \/ syncing) =>
         /\ status = "syncing" => verdict
         /\ status = "loading" => degree = 0

Accounted ==
    /\ \A p \in seen : For(p) = board => p \in Shown \cup missed \cup Merging
    /\ \A p \in known : /\ p \in Packet /\ For(p) = board /\ board # NoBoard
                        /\ \/ p \in Shown \cup missed \cup Merging
                           \/ \E l \in loads : p \in l.rest
BoardInv == BoardTypes /\ Follows /\ Accounted

-----------------------------------------------------------------------------
LEMMA BoardInvInit == Init => BoardInv
  BY BoardViewAssumption DEF Init, BoardInv, BoardTypes, Follows, Accounted, None, Boards, Listed, Shown

\* What handlePacketObject() adds: at most a packet that waits to be merged.
LEMMA HandleAdds ==
    ASSUME BoardTypes, NEW p \in Packet, NEW b, NEW n, Handle(p, b, n)
    PROVE  /\ seen' = seen \cup {p} /\ jobs \subseteq jobs'
           /\ \A j \in jobs' : j \in jobs \/ (j.post = p /\ j.at = "merge" /\ j.pow \in Nat \ {0})
           /\ p \notin seen /\ For(p) = b => \E j \in jobs' : j.post = p /\ j.at = "merge"
<1>1. Higher(1, stats[p]) \in Nat \ {0}
  BY DEF BoardTypes, Higher
<1> DEFINE new == Job(p, b, n, "merge", Higher(1, stats[p]))
<1>2. new.post = p /\ new.at = "merge" /\ new.pow \in Nat \ {0}
  BY <1>1 DEF Job
<1>3. seen' = seen \cup {p} /\ jobs' = IF p \in seen \/ For(p) # b THEN jobs ELSE jobs \cup {new}
  BY DEF Handle
<1> HIDE DEF new
<1> QED BY <1>2, <1>3

LEMMA BoardTypesNext == BoardTypes /\ [Next]_vars => BoardTypes'
<1> SUFFICES ASSUME BoardTypes, [Next]_vars
             PROVE  BoardTypes'
  OBVIOUS
<1> USE BoardViewAssumption DEF BoardTypes, Boards, listing, line, sync, kept, For
<1>1. ASSUME VerdictDue PROVE BoardTypes'
  BY <1>1 DEF VerdictDue
<1>2. ASSUME GracePasses PROVE BoardTypes'
  BY <1>2 DEF GracePasses
<1>3. ASSUME PeerConnects PROVE BoardTypes'
  BY <1>3 DEF PeerConnects
<1>4. ASSUME PeerLeaves PROVE BoardTypes'
  BY <1>4 DEF PeerLeaves
<1>5. ASSUME DebounceDue PROVE BoardTypes'
  BY <1>5 DEF DebounceDue
<1>6. ASSUME StatsTick PROVE BoardTypes'
  BY <1>6 DEF StatsTick, StatsRead
<1>7. ASSUME NEW rows \in ticks, StatsMerged(rows) PROVE BoardTypes'
  BY <1>7 DEF StatsMerged, MergedStats, Higher
<1>8. ASSUME NEW p \in Packet, OnPacket(p) PROVE BoardTypes'
  <2>1. Handle(p, board, 0)
    BY <1>8 DEF OnPacket
  <2> QED BY <1>8, <2>1, HandleAdds DEF OnPacket
<1>9. ASSUME NEW p \in Packet, ReplySaved(p) PROVE BoardTypes'
  BY <1>9 DEF ReplySaved
<1>10. ASSUME NEW p \in Packet, SubmitThread(p) PROVE BoardTypes'
  BY <1>10 DEF SubmitThread, Submit
<1>11. ASSUME NEW j \in jobs, PacketMerged(j) PROVE BoardTypes'
  BY <1>11 DEF PacketMerged, Merged, Higher, Job
<1>12. ASSUME NEW j \in jobs, PacketSaved(j) PROVE BoardTypes'
  BY <1>12 DEF PacketSaved, Higher, Submit
<1>13. ASSUME NEW j \in jobs, JobFails(j) PROVE BoardTypes'
  BY <1>13 DEF JobFails
<1>14. ASSUME Clear PROVE BoardTypes'
  BY <1>14 DEF Clear, Reset, None, Load
<1>15. ASSUME NEW b \in Board, Activate(b) PROVE BoardTypes'
  BY <1>15 DEF Activate, Reset, None, Load
<1>16. ASSUME NEW l \in loads, LoadRead(l) PROVE BoardTypes'
  BY <1>16 DEF LoadRead, Load
<1>17. ASSUME NEW s \in submits, SubmitBuilt(s) PROVE BoardTypes'
  BY <1>17 DEF SubmitBuilt, Merged, Higher, Submit
<1>18. ASSUME NEW s \in submits, BuildFails(s) PROVE BoardTypes'
  BY <1>18 DEF BuildFails
<1>19. ASSUME NEW s \in submits, SubmitSaved(s) PROVE BoardTypes'
  BY <1>19 DEF SubmitSaved, Higher, Submit
<1>20. ASSUME NEW s \in submits, SubmitSent(s) PROVE BoardTypes'
  BY <1>20 DEF SubmitSent
<1>21. ASSUME SyncSettled PROVE BoardTypes'
  BY <1>21 DEF SyncSettled
<1>22. ASSUME NEW l \in loads, LoadDone(l) PROVE BoardTypes'
  BY <1>22 DEF LoadDone
<1>23. ASSUME NEW l \in loads, NEW p \in Packet, LoadNext(l, p) PROVE BoardTypes'
  <2>1. Handle(p, l.board, l.n) /\ For(p) = l.board
    BY <1>23 DEF LoadNext
  <2>2. \A j \in jobs' : j.post \in Packet /\ j.pow \in Nat \ {0}
    BY <2>1, HandleAdds
  <2>3. \A q \in seen' : q \in Packet /\ (q \in Own => home[q] # NoBoard)
    BY <2>1, HandleAdds
  <2> QED BY <1>23, <2>2, <2>3 DEF LoadNext, Load
<1>24. CASE UNCHANGED vars
  BY <1>24 DEF vars
<1> QED
  BY <1>1, <1>2, <1>3, <1>4, <1>5, <1>6, <1>7, <1>8, <1>9, <1>10, <1>11, <1>12, <1>13, <1>14, <1>15, <1>16, <1>17, <1>18, <1>19, <1>20, <1>21, <1>22, <1>23, <1>24 DEF Next, Continuation, Event

LEMMA FollowsNext == BoardTypes /\ Follows /\ [Next]_vars => Follows'
<1> SUFFICES ASSUME BoardTypes, Follows, [Next]_vars
             PROVE  Follows'
  OBVIOUS
<1> USE BoardViewAssumption DEF BoardTypes, Follows, Shown, Listed, Boards, listing, line, sync, kept
<1>1. ASSUME VerdictDue PROVE Follows'
  BY <1>1 DEF VerdictDue, Refresh, Refreshed
<1>2. ASSUME GracePasses PROVE Follows'
  BY <1>2 DEF GracePasses
<1>3. ASSUME PeerConnects PROVE Follows'
  BY <1>3 DEF PeerConnects, Refresh, Refreshed
<1>4. ASSUME PeerLeaves PROVE Follows'
  BY <1>4 DEF PeerLeaves
<1>5. ASSUME DebounceDue PROVE Follows'
  BY <1>5 DEF DebounceDue, FullSync, Refresh, Refreshed
<1>6. ASSUME StatsTick PROVE Follows'
  BY <1>6 DEF StatsTick, StatsRead
<1>7. ASSUME NEW rows \in ticks, StatsMerged(rows) PROVE Follows'
  BY <1>7 DEF StatsMerged, MergedStats, Higher
<1>8. ASSUME NEW p \in Packet, OnPacket(p) PROVE Follows'
  BY <1>8 DEF OnPacket, Handle, Job
<1>9. ASSUME NEW p \in Packet, ReplySaved(p) PROVE Follows'
  BY <1>9 DEF ReplySaved
<1>10. ASSUME NEW p \in Packet, SubmitThread(p) PROVE Follows'
  BY <1>10 DEF SubmitThread, Submit
<1>11. ASSUME NEW j \in jobs, PacketMerged(j) PROVE Follows'
  BY <1>11 DEF PacketMerged, Merged, Higher, Job, Announce, Refresh, Refreshed
<1>12. ASSUME NEW j \in jobs, PacketSaved(j) PROVE Follows'
  BY <1>12 DEF PacketSaved, Higher, Submit
<1>13. ASSUME NEW j \in jobs, JobFails(j) PROVE Follows'
  BY <1>13 DEF JobFails
<1>14. ASSUME Clear PROVE Follows'
  BY <1>14 DEF Clear, Reset, None, Load
<1>15. ASSUME NEW b \in Board, Activate(b), ~syncing PROVE Follows'
  <2>1. loads' # {} /\ syncing' = syncing /\ status' = status
    BY <1>15 DEF Activate
  <2>2. threads' = threads \/ \A p \in Packet : threads'[p] = 0
    BY <1>15 DEF Activate, Reset, None
  <2> QED BY <1>15, <2>1, <2>2
<1>16. ASSUME NEW l \in loads, LoadRead(l) PROVE Follows'
  BY <1>16 DEF LoadRead, Load
<1>17. ASSUME NEW s \in submits, SubmitBuilt(s) PROVE Follows'
  BY <1>17 DEF SubmitBuilt, Merged, Higher, Submit
<1>18. ASSUME NEW s \in submits, BuildFails(s) PROVE Follows'
  BY <1>18 DEF BuildFails
<1>19. ASSUME NEW s \in submits, SubmitSaved(s) PROVE Follows'
  BY <1>19 DEF SubmitSaved, Higher, Submit
<1>20. ASSUME NEW s \in submits, SubmitSent(s) PROVE Follows'
  BY <1>20 DEF SubmitSent
<1>21. ASSUME SyncSettled PROVE Follows'
  BY <1>21 DEF SyncSettled
<1>22. ASSUME NEW l \in loads, LoadDone(l) PROVE Follows'
  BY <1>22 DEF LoadDone, FullSync, Refresh, Refreshed
<1>23. ASSUME NEW l \in loads, NEW p \in Packet, LoadNext(l, p) PROVE Follows'
  BY <1>23 DEF LoadNext, Handle, Job, Load
<1>24. CASE UNCHANGED vars
  BY <1>24 DEF vars
<1> QED
  BY <1>1, <1>2, <1>3, <1>4, <1>5, <1>6, <1>7, <1>8, <1>9, <1>10, <1>11, <1>12, <1>13, <1>14, <1>15, <1>16, <1>17, <1>18, <1>19, <1>20, <1>21, <1>22, <1>23, <1>24 DEF Next, Continuation, Event

LEMMA AccountedNext == BoardTypes /\ Accounted /\ [Next]_vars => Accounted'
<1> SUFFICES ASSUME BoardTypes, Accounted, [Next]_vars
             PROVE  Accounted'
  OBVIOUS
<1> USE BoardViewAssumption DEF BoardTypes, Accounted, Merging, Shown, Listed, For, Boards, listing, line, sync, kept
<1>1. ASSUME VerdictDue PROVE Accounted'
  BY <1>1 DEF VerdictDue
<1>2. ASSUME GracePasses PROVE Accounted'
  BY <1>2 DEF GracePasses
<1>3. ASSUME PeerConnects PROVE Accounted'
  BY <1>3 DEF PeerConnects
<1>4. ASSUME PeerLeaves PROVE Accounted'
  BY <1>4 DEF PeerLeaves
<1>5. ASSUME DebounceDue PROVE Accounted'
  BY <1>5 DEF DebounceDue
<1>6. ASSUME StatsTick PROVE Accounted'
  BY <1>6 DEF StatsTick, StatsRead
<1>7. ASSUME NEW rows \in ticks, StatsMerged(rows) PROVE Accounted'
  BY <1>7 DEF StatsMerged, MergedStats, Higher
<1>8. ASSUME NEW p \in Packet, OnPacket(p) PROVE Accounted'
  <2>1. Handle(p, board, 0)
    BY <1>8 DEF OnPacket
  <2> QED BY <1>8, <2>1, HandleAdds DEF OnPacket
<1>9. ASSUME NEW p \in Packet, ReplySaved(p) PROVE Accounted'
  BY <1>9 DEF ReplySaved
<1>10. ASSUME NEW p \in Packet, SubmitThread(p) PROVE Accounted'
  BY <1>10 DEF SubmitThread, Submit
<1>11. ASSUME NEW j \in jobs, PacketMerged(j) PROVE Accounted'
  BY <1>11 DEF PacketMerged, Merged, Higher, Job
<1>12. ASSUME NEW j \in jobs, PacketSaved(j) PROVE Accounted'
  BY <1>12 DEF PacketSaved, Higher, Submit
<1>13. ASSUME NEW j \in jobs, JobFails(j) PROVE Accounted'
  BY <1>13 DEF JobFails
<1>14. ASSUME Clear PROVE Accounted'
  BY <1>14 DEF Clear, Reset, None, Load
<1>15. ASSUME NEW b \in Board, Activate(b) PROVE Accounted'
  BY <1>15 DEF Activate, Reset, None, Load
<1>16. ASSUME NEW l \in loads, LoadRead(l) PROVE Accounted'
  <2> DEFINE Saving(rest) ==
          /\ loads' = (loads \ {l}) \cup {Load(l.n, l.board, "loop", rest)}
          /\ known' \subseteq known \cup (IF l.board = board THEN rest ELSE {})
          /\ \A p \in rest : p \in disk /\ For(p) = l.board
      rows == {p \in disk : For(p) = l.board}
  <2>0. Saving(rows) \/ Saving({})
    BY <1>16 DEF LoadRead
  <2>1. PICK rest : Saving(rest)
    BY <2>0
  <2>2. /\ l.rest = {} /\ UNCHANGED <<board, threads, seen, jobs, home, missed>>
    BY <1>16 DEF LoadRead
  <2>3. Load(l.n, l.board, "loop", rest) \in loads' /\ Load(l.n, l.board, "loop", rest).rest = rest
    BY <2>1 DEF Load
  <2>4. \A p \in known' : p \in Packet /\ For(p) = board /\ board # NoBoard
    BY <2>1
  <2>5. \A p \in known' : \/ p \in Shown \cup missed \cup Merging
                         \/ \E m \in loads' : p \in m.rest
    BY <2>1, <2>2, <2>3
  <2> QED BY <2>2, <2>4, <2>5
<1>17. ASSUME NEW s \in submits, SubmitBuilt(s) PROVE Accounted'
  BY <1>17 DEF SubmitBuilt, Merged, Higher, Submit
<1>18. ASSUME NEW s \in submits, BuildFails(s) PROVE Accounted'
  BY <1>18 DEF BuildFails
<1>19. ASSUME NEW s \in submits, SubmitSaved(s) PROVE Accounted'
  BY <1>19 DEF SubmitSaved, Higher, Submit
<1>20. ASSUME NEW s \in submits, SubmitSent(s) PROVE Accounted'
  BY <1>20 DEF SubmitSent
<1>21. ASSUME SyncSettled PROVE Accounted'
  BY <1>21 DEF SyncSettled
<1>22. ASSUME NEW l \in loads, LoadDone(l) PROVE Accounted'
  BY <1>22 DEF LoadDone
<1>23. ASSUME NEW l \in loads, NEW p \in Packet, LoadNext(l, p) PROVE Accounted'
  <2> DEFINE left == Load(l.n, l.board, "loop", l.rest \ {p})
  <2>1. Handle(p, l.board, l.n) /\ For(p) = l.board
    BY <1>23 DEF LoadNext
  <2>2. /\ loads' = (loads \ {l}) \cup {left} /\ left.rest = l.rest \ {p}
        /\ UNCHANGED <<board, threads, known, home, missed>>
    BY <1>23 DEF LoadNext, Load
  <2> HIDE DEF left
  <2>3. Merging \subseteq Merging'
    BY <2>1, HandleAdds
  <2>4. For(p) = board => p \in Shown' \cup missed' \cup Merging'
    BY <2>1, <2>2, HandleAdds
  <2>5. \A q \in seen' : For(q)' = board' => q \in Shown' \cup missed' \cup Merging'
    BY <2>1, <2>2, <2>3, <2>4, HandleAdds
  <2>6. \A q \in known' : \/ q \in Shown' \cup missed' \cup Merging'
                         \/ \E m \in loads' : q \in m.rest
    BY <2>2, <2>3, <2>4
  <2> QED BY <2>2, <2>5, <2>6
<1>24. CASE UNCHANGED vars
  BY <1>24 DEF vars
<1> QED
  BY <1>1, <1>2, <1>3, <1>4, <1>5, <1>6, <1>7, <1>8, <1>9, <1>10, <1>11, <1>12, <1>13, <1>14, <1>15, <1>16, <1>17, <1>18, <1>19, <1>20, <1>21, <1>22, <1>23, <1>24 DEF Next, Continuation, Event

LEMMA WorkNext ==
    BoardTypes /\ [Next]_vars =>
      (board' = board => \A p \in Packet : threads'[p] >= threads[p])
<1> SUFFICES ASSUME BoardTypes, [Next]_vars, board' = board
             PROVE  \A p \in Packet : threads'[p] >= threads[p]
  OBVIOUS
<1> USE BoardViewAssumption DEF BoardTypes, listing, line, sync, kept
<1>1. CASE threads' = threads
  BY <1>1
<1>2. ASSUME NEW rows \in ticks, StatsMerged(rows) PROVE \A p \in Packet : threads'[p] >= threads[p]
  BY <1>2 DEF StatsMerged, MergedStats, Higher
<1>3. ASSUME NEW j \in jobs, PacketMerged(j) PROVE \A p \in Packet : threads'[p] >= threads[p]
  BY <1>3 DEF PacketMerged, Merged, Higher
<1>4. ASSUME NEW s \in submits, SubmitBuilt(s) PROVE \A p \in Packet : threads'[p] >= threads[p]
  BY <1>4 DEF SubmitBuilt, Merged, Higher
<1>5. ASSUME Clear PROVE FALSE
  BY <1>5 DEF Clear, Reset
<1>6. ASSUME NEW b \in Board, Activate(b) PROVE threads' = threads
  BY <1>6 DEF Activate, Reset
<1> QED
  <2>1. CASE Continuation
    BY <1>1, <2>1 DEF Continuation, SyncSettled, LoadDone, LoadNext
  <2>2. CASE Event
    BY <1>1, <1>2, <1>3, <1>4, <1>5, <1>6, <2>2
    DEF Event, VerdictDue, GracePasses, PeerConnects, PeerLeaves, DebounceDue, StatsTick,
        OnPacket, ReplySaved, SubmitThread, PacketSaved, JobFails, LoadRead, BuildFails,
        SubmitSaved, SubmitSent
  <2>3. CASE UNCHANGED vars
    BY <1>1, <2>3 DEF vars
  <2> QED BY <2>1, <2>2, <2>3 DEF Next

LEMMA BoardInvKept == Spec => []BoardInv
<1>1. BoardInv /\ [Next]_vars => BoardInv'
  BY BoardTypesNext, FollowsNext, AccountedNext DEF BoardInv
<1> QED BY <1>1, BoardInvInit, PTL DEF Spec

\* For any boards, packets and visits: the status line never denies a thread that is
\* listed, and one that says "searching" has something that will end it
\* (refreshEmptyStatus, onPeerConnect, clear).
THEOREM StatusAlwaysFits == Spec => []StatusFits
<1>1. BoardInv => StatusFits
  BY DEF BoardInv, Follows, StatusFits
<1> QED BY <1>1, BoardInvKept, PTL

\* For any boards, packets and visits: what was read from disk for the open board is
\* listed once nothing is under way, whatever loads and packets of earlier visits do
\* meanwhile (loadInitialCache, handlePacketObject).
THEOREM DiskIsListed == Spec => []DiskListed
<1>1. BoardInv => DiskListed
  BY DEF BoardInv, Accounted, DiskListed, Merging
<1> QED BY <1>1, BoardInvKept, PTL

\* For any boards and packets: while a board stays open no thread leaves its list and the
\* work shown for one does not fall, whatever statistics arrive late (mergeThread,
\* resolveMaxPow).
THEOREM WorkIsKept == Spec => WorkKept
<1>1. BoardInv /\ [Next]_vars =>
        [board' = board => \A p \in Packet : threads'[p] >= threads[p]]_vars
  BY WorkNext DEF BoardInv
<1> QED BY <1>1, BoardInvKept, PTL DEF WorkKept, Spec

-----------------------------------------------------------------------------
(* Lists: filtering and summing *)

\* Induction, for sets: what holds of 0 and passes on to the next number holds up to n.
LEMMA UpTo ==
    ASSUME NEW T, NEW n \in Nat, 0 \in T, \A i \in 0..(n - 1) : i \in T => i + 1 \in T
    PROVE  \A i \in 0..n : i \in T
<1> DEFINE U == {i \in 0..n : i \notin T}
<1>1. SUFFICES ASSUME U # {} PROVE FALSE
  OBVIOUS
<1>2. U \subseteq Nat
  OBVIOUS
<1>3. \E x \in U : \A y \in U : ~(<<y, x>> \in OpToRel(<, Nat))
  BY <1>1, <1>2, NatLessThanWellFounded, WFMin
<1>4. PICK x \in U : \A y \in U : ~(y < x)
  BY <1>2, <1>3 DEF OpToRel
<1>5. x \in 1..n /\ x - 1 \in 0..(n - 1) /\ (x - 1) + 1 = x
  OBVIOUS
<1>6. x - 1 \notin U
  BY <1>4, <1>5
<1> QED BY <1>5, <1>6

\* One step of the filter.
FilterStep(s, S, before, i) == IF s[i] \in S THEN Append(before, s[i]) ELSE before
Filters(f, s, S, n) == f = [i \in 0..n |-> IF i = 0 THEN <<>> ELSE FilterStep(s, S, f[i - 1], i)]

LEMMA PassedExists ==
    ASSUME NEW s, NEW S, Len(s) \in Nat
    PROVE  \E f : Filters(f, s, S, Len(s))
<1> DEFINE T == {n \in 0..Len(s) : \E f : Filters(f, s, S, n)}
<1>1. 0 \in T
  <2>1. Filters([i \in 0..0 |-> <<>>], s, S, 0)
    BY DEF Filters
  <2> QED BY <2>1
<1>2. ASSUME NEW n \in 0..(Len(s) - 1), n \in T PROVE n + 1 \in T
  <2>1. PICK f : Filters(f, s, S, n)
    BY <1>2
  <2> DEFINE g == [i \in 0..(n + 1) |-> IF i = n + 1 THEN FilterStep(s, S, f[n], n + 1) ELSE f[i]]
  <2>2. ASSUME NEW i \in 0..(n + 1)
        PROVE  g[i] = IF i = 0 THEN <<>> ELSE FilterStep(s, S, g[i - 1], i)
    <3>1. CASE i = n + 1
      <4>1. i - 1 = n /\ n \in 0..(n + 1) /\ n # n + 1
        BY <3>1
      <4>2. g[i - 1] = f[n]
        BY <4>1
      <4> QED BY <3>1, <4>2
    <3>2. CASE i = 0
      BY <2>1, <3>2 DEF Filters
    <3>3. CASE i \in 1..n
      <4>1. i - 1 \in 0..n /\ i - 1 # n + 1 /\ i # n + 1 /\ i # 0 /\ i \in 0..n
        BY <3>3
      <4>2. g[i] = f[i] /\ g[i - 1] = f[i - 1]
        BY <4>1
      <4>3. f[i] = FilterStep(s, S, f[i - 1], i)
        BY <2>1, <4>1 DEF Filters
      <4> QED BY <4>1, <4>2, <4>3
    <3> QED BY <3>1, <3>2, <3>3
  <2>3. Filters(g, s, S, n + 1)
    BY <2>2 DEF Filters
  <2> QED BY <2>3
<1>3. \A n \in 0..Len(s) : n \in T
  <2> HIDE DEF T
  <2> QED BY <1>1, <1>2, UpTo
<1>4. Len(s) \in T
  BY <1>3
<1> QED BY <1>4

\* The filter, as it is defined: nothing of nothing, and element by element.
LEMMA PassedDef ==
    ASSUME NEW s, NEW S, Len(s) \in Nat
    PROVE  /\ Passed(s, S)[0] = <<>>
           /\ \A i \in 1..Len(s) : Passed(s, S)[i] = FilterStep(s, S, Passed(s, S)[i - 1], i)
<1>1. Passed(s, S) = CHOOSE f : f = [i \in 0..Len(s) |-> IF i = 0 THEN <<>>
        ELSE IF s[i] \in S THEN Append(f[i - 1], s[i]) ELSE f[i - 1]]
  BY DEF Passed
<1>2. PICK f : Filters(f, s, S, Len(s))
  BY PassedExists
<1>3. f = [i \in 0..Len(s) |-> IF i = 0 THEN <<>>
        ELSE IF s[i] \in S THEN Append(f[i - 1], s[i]) ELSE f[i - 1]]
  BY <1>2 DEF Filters, FilterStep
<1>4. Passed(s, S) = [i \in 0..Len(s) |-> IF i = 0 THEN <<>>
        ELSE IF s[i] \in S THEN Append(Passed(s, S)[i - 1], s[i]) ELSE Passed(s, S)[i - 1]]
  BY <1>1, <1>3
<1> DEFINE p == Passed(s, S)
           next(i) == IF i = 0 THEN <<>> ELSE FilterStep(s, S, p[i - 1], i)
<1>5. p = [i \in 0..Len(s) |-> next(i)]
  BY <1>4 DEF FilterStep
<1> HIDE DEF p, next
<1>6. \A i \in 0..Len(s) : p[i] = next(i)
  BY <1>5
<1>7. /\ p[0] = <<>>
      /\ \A i \in 1..Len(s) : p[i] = FilterStep(s, S, p[i - 1], i)
  BY <1>6 DEF next
<1> QED BY <1>7 DEF p

\* What is let through is in the set, and was there.
LEMMA OnlyType ==
    ASSUME NEW A, NEW s \in Seq(A), NEW S
    PROVE  Only(s, S) \in Seq(A \cap S)
<1>0. Len(s) \in Nat /\ \A i \in 1..Len(s) : s[i] \in A
  BY LenProperties, ElementOfSeq
<1> DEFINE p == Passed(s, S)
           T == {i \in 0..Len(s) : p[i] \in Seq(A \cap S)}
<1>1. p[0] = <<>> /\ \A i \in 1..Len(s) : p[i] = FilterStep(s, S, p[i - 1], i)
  BY <1>0, PassedDef
<1> HIDE DEF p
<1>2. 0 \in T
  <2>1. <<>> \in Seq(A \cap S)
    BY EmptySeq
  <2>2. p[0] \in Seq(A \cap S)
    BY <1>1, <2>1
  <2> QED BY <1>0, <2>2
<1>3. ASSUME NEW i \in 0..(Len(s) - 1), i \in T PROVE i + 1 \in T
  <2>1. i + 1 \in 1..Len(s) /\ (i + 1) - 1 = i
    BY <1>0
  <2>2. p[i + 1] = FilterStep(s, S, p[i], i + 1) /\ s[i + 1] \in A
    BY <1>0, <1>1, <2>1
  <2>3. p[i] \in Seq(A \cap S)
    BY <1>3
  <2>4. p[i + 1] \in Seq(A \cap S)
    BY <2>2, <2>3, AppendProperties DEF FilterStep
  <2> QED BY <2>1, <2>4
<1>4. \A i \in 0..Len(s) : i \in T
  <2> HIDE DEF T
  <2> QED BY <1>0, <1>2, <1>3, UpTo
<1>5. p[Len(s)] \in Seq(A \cap S)
  BY <1>0, <1>4
<1> QED BY <1>5 DEF p, Only

LEMMA OnlyEmpty ==
    ASSUME NEW S PROVE Only(<<>>, S) = <<>>
<1>1. Len(<<>>) = 0
  OBVIOUS
<1> QED BY <1>1, PassedDef DEF Only

\* A list with one more element passes as before, and then that element.
LEMMA OnlyAppend ==
    ASSUME NEW A, NEW s \in Seq(A), NEW x \in A, NEW S
    PROVE  Only(Append(s, x), S) = IF x \in S THEN Append(Only(s, S), x) ELSE Only(s, S)
<1> DEFINE t == Append(s, x)
<1>0. /\ Len(s) \in Nat /\ Len(t) = Len(s) + 1
      /\ \A i \in 1..Len(s) : t[i] = s[i]
      /\ t[Len(t)] = x
  BY LenProperties, AppendProperties
<1> DEFINE p == Passed(s, S)
           q == Passed(t, S)
           T == {i \in 0..Len(s) : q[i] = p[i]}
<1>1. p[0] = <<>> /\ \A i \in 1..Len(s) : p[i] = FilterStep(s, S, p[i - 1], i)
  BY <1>0, PassedDef
<1>2. q[0] = <<>> /\ \A i \in 1..Len(t) : q[i] = FilterStep(t, S, q[i - 1], i)
  <2>1. Len(t) \in Nat
    BY <1>0
  <2> HIDE DEF t
  <2> QED BY <2>1, PassedDef
<1> HIDE DEF p, q, t
<1>3. 0 \in T
  BY <1>0, <1>1, <1>2
<1>4. ASSUME NEW i \in 0..(Len(s) - 1), i \in T PROVE i + 1 \in T
  <2>1. i + 1 \in 1..Len(s) /\ i + 1 \in 1..Len(t) /\ (i + 1) - 1 = i
    BY <1>0
  <2>2. p[i + 1] = FilterStep(s, S, p[i], i + 1) /\ q[i + 1] = FilterStep(t, S, q[i], i + 1)
    BY <1>1, <1>2, <2>1
  <2>3. q[i] = p[i] /\ t[i + 1] = s[i + 1]
    BY <1>0, <1>4, <2>1
  <2>4. q[i + 1] = p[i + 1]
    BY <2>2, <2>3 DEF FilterStep
  <2> QED BY <2>1, <2>4
<1>5. \A i \in 0..Len(s) : i \in T
  <2> HIDE DEF T
  <2> QED BY <1>0, <1>3, <1>4, UpTo
<1>6. q[Len(s)] = p[Len(s)]
  BY <1>0, <1>5
<1>7. Len(t) \in 1..Len(t) /\ Len(t) - 1 = Len(s)
  BY <1>0
<1>8. q[Len(t)] = FilterStep(t, S, p[Len(s)], Len(t))
  BY <1>2, <1>6, <1>7
<1>9. q[Len(t)] = IF x \in S THEN Append(p[Len(s)], x) ELSE p[Len(s)]
  BY <1>0, <1>8 DEF FilterStep
<1> QED BY <1>9 DEF p, q, t, Only

\* Two filters one after the other are the filter with what they have in common.
LEMMA OnlyOnly ==
    ASSUME NEW A, NEW s \in Seq(A), NEW S, NEW R
    PROVE  Only(Only(s, S), R) = Only(s, S \cap R)
<1>0. Len(s) \in Nat /\ \A i \in 1..Len(s) : s[i] \in A
  BY LenProperties, ElementOfSeq
<1> DEFINE p == Passed(s, S)
           q == Passed(s, S \cap R)
           T == {i \in 0..Len(s) : p[i] \in Seq(A) /\ Only(p[i], R) = q[i]}
<1>1. p[0] = <<>> /\ \A i \in 1..Len(s) : p[i] = FilterStep(s, S, p[i - 1], i)
  BY <1>0, PassedDef
<1>2. q[0] = <<>> /\ \A i \in 1..Len(s) : q[i] = FilterStep(s, S \cap R, q[i - 1], i)
  BY <1>0, PassedDef
<1> HIDE DEF p, q
<1>3. 0 \in T
  <2>1. <<>> \in Seq(A)
    BY EmptySeq
  <2>2. Only(<<>>, R) = <<>>
    BY OnlyEmpty
  <2>3. p[0] \in Seq(A) /\ Only(p[0], R) = q[0]
    BY <1>1, <1>2, <2>1, <2>2
  <2> QED BY <1>0, <2>3
<1>4. ASSUME NEW i \in 0..(Len(s) - 1), i \in T PROVE i + 1 \in T
  <2>1. i + 1 \in 1..Len(s) /\ (i + 1) - 1 = i
    BY <1>0
  <2>2. /\ p[i + 1] = FilterStep(s, S, p[i], i + 1) /\ q[i + 1] = FilterStep(s, S \cap R, q[i], i + 1)
        /\ s[i + 1] \in A
    BY <1>0, <1>1, <1>2, <2>1
  <2>3. p[i] \in Seq(A) /\ Only(p[i], R) = q[i]
    BY <1>4
  <2> DEFINE x == s[i + 1]
             b == p[i]
  <2>4. Only(Append(b, x), R) = IF x \in R THEN Append(Only(b, R), x) ELSE Only(b, R)
    <3>1. b \in Seq(A) /\ x \in A
      BY <2>2, <2>3
    <3> HIDE DEF b, x
    <3> QED BY <3>1, OnlyAppend
  <2>5. p[i + 1] \in Seq(A) /\ Only(p[i + 1], R) = q[i + 1]
    BY <2>2, <2>3, <2>4, AppendProperties DEF FilterStep
  <2> QED BY <2>1, <2>5
<1>5. \A i \in 0..Len(s) : i \in T
  <2> HIDE DEF T
  <2> QED BY <1>0, <1>3, <1>4, UpTo
<1>6. Only(p[Len(s)], R) = q[Len(s)]
  BY <1>0, <1>5
<1> QED BY <1>6 DEF p, q, Only

\* Only what the list holds decides.
LEMMA OnlyHeld ==
    ASSUME NEW A, NEW s \in Seq(A), NEW S, NEW R,
           \A i \in 1..Len(s) : s[i] \in S <=> s[i] \in R
    PROVE  Only(s, S) = Only(s, R)
<1>0. Len(s) \in Nat
  BY LenProperties
<1> DEFINE p == Passed(s, S)
           q == Passed(s, R)
           T == {i \in 0..Len(s) : p[i] = q[i]}
<1>1. p[0] = <<>> /\ \A i \in 1..Len(s) : p[i] = FilterStep(s, S, p[i - 1], i)
  BY <1>0, PassedDef
<1>2. q[0] = <<>> /\ \A i \in 1..Len(s) : q[i] = FilterStep(s, R, q[i - 1], i)
  BY <1>0, PassedDef
<1> HIDE DEF p, q
<1>3. 0 \in T
  BY <1>0, <1>1, <1>2
<1>4. ASSUME NEW i \in 0..(Len(s) - 1), i \in T PROVE i + 1 \in T
  <2>1. i + 1 \in 1..Len(s) /\ (i + 1) - 1 = i
    BY <1>0
  <2>2. p[i + 1] = FilterStep(s, S, p[i], i + 1) /\ q[i + 1] = FilterStep(s, R, q[i], i + 1)
    BY <1>1, <1>2, <2>1
  <2>3. p[i + 1] = q[i + 1]
    BY <1>4, <2>1, <2>2 DEF FilterStep
  <2> QED BY <2>1, <2>3
<1>5. \A i \in 0..Len(s) : i \in T
  <2> HIDE DEF T
  <2> QED BY <1>0, <1>3, <1>4, UpTo
<1> QED BY <1>0, <1>5 DEF p, q, Only

Sums(f, s, n) == f = [i \in 0..n |-> IF i = 0 THEN 0 ELSE f[i - 1] + s[i]]

LEMMA SummedExists ==
    ASSUME NEW s, Len(s) \in Nat
    PROVE  \E f : Sums(f, s, Len(s))
<1> DEFINE T == {n \in 0..Len(s) : \E f : Sums(f, s, n)}
<1>1. 0 \in T
  <2>1. Sums([i \in 0..0 |-> 0], s, 0)
    BY DEF Sums
  <2> QED BY <2>1
<1>2. ASSUME NEW n \in 0..(Len(s) - 1), n \in T PROVE n + 1 \in T
  <2>1. PICK f : Sums(f, s, n)
    BY <1>2
  <2> DEFINE g == [i \in 0..(n + 1) |-> IF i = n + 1 THEN f[n] + s[n + 1] ELSE f[i]]
  <2>2. ASSUME NEW i \in 0..(n + 1)
        PROVE  g[i] = IF i = 0 THEN 0 ELSE g[i - 1] + s[i]
    <3>1. CASE i = n + 1
      <4>1. i - 1 = n /\ n \in 0..(n + 1) /\ n # n + 1
        BY <3>1
      <4>2. g[i - 1] = f[n]
        BY <4>1
      <4> QED BY <3>1, <4>2
    <3>2. CASE i = 0
      BY <2>1, <3>2 DEF Sums
    <3>3. CASE i \in 1..n
      <4>1. i - 1 \in 0..n /\ i - 1 # n + 1 /\ i # n + 1 /\ i # 0 /\ i \in 0..n
        BY <3>3
      <4>2. g[i] = f[i] /\ g[i - 1] = f[i - 1]
        BY <4>1
      <4>3. f[i] = f[i - 1] + s[i]
        BY <2>1, <4>1 DEF Sums
      <4> QED BY <4>1, <4>2, <4>3
    <3> QED BY <3>1, <3>2, <3>3
  <2>3. Sums(g, s, n + 1)
    BY <2>2 DEF Sums
  <2> QED BY <2>3
<1>3. \A n \in 0..Len(s) : n \in T
  <2> HIDE DEF T
  <2> QED BY <1>1, <1>2, UpTo
<1>4. Len(s) \in T
  BY <1>3
<1> QED BY <1>4

\* The sum of natural numbers is one.
LEMMA SumType ==
    ASSUME NEW s \in Seq(Nat)
    PROVE  SumOf(s) \in Nat
<1>0. Len(s) \in Nat /\ \A i \in 1..Len(s) : s[i] \in Nat
  BY LenProperties, ElementOfSeq
<1> DEFINE p == Summed(s)
           T == {i \in 0..Len(s) : p[i] \in Nat}
<1>1. p = CHOOSE f : f = [i \in 0..Len(s) |-> IF i = 0 THEN 0 ELSE f[i - 1] + s[i]]
  BY DEF Summed
<1>2. PICK f : f = [i \in 0..Len(s) |-> IF i = 0 THEN 0 ELSE f[i - 1] + s[i]]
  BY <1>0, SummedExists DEF Sums
<1>3. p = [i \in 0..Len(s) |-> IF i = 0 THEN 0 ELSE p[i - 1] + s[i]]
  BY <1>1, <1>2
<1> DEFINE next(i) == IF i = 0 THEN 0 ELSE p[i - 1] + s[i]
<1>4. p = [i \in 0..Len(s) |-> next(i)]
  BY <1>3
<1> HIDE DEF p, next
<1>5. \A i \in 0..Len(s) : p[i] = next(i)
  BY <1>4
<1>6. p[0] = 0 /\ \A i \in 1..Len(s) : p[i] = p[i - 1] + s[i]
  BY <1>0, <1>5 DEF next
<1>7. 0 \in T
  BY <1>0, <1>6
<1>8. ASSUME NEW i \in 0..(Len(s) - 1), i \in T PROVE i + 1 \in T
  <2>1. i + 1 \in 1..Len(s) /\ i + 1 \in 0..Len(s) /\ (i + 1) - 1 = i
    BY <1>0
  <2>2. p[i + 1] = p[i] + s[i + 1] /\ s[i + 1] \in Nat
    BY <1>0, <1>6, <2>1
  <2>3. p[i + 1] \in Nat
    BY <1>8, <2>2
  <2> QED BY <2>1, <2>3
<1>9. \A i \in 0..Len(s) : i \in T
  <2> HIDE DEF T
  <2> QED BY <1>0, <1>7, <1>8, UpTo
<1> QED BY <1>0, <1>9 DEF p, SumOf

-----------------------------------------------------------------------------
(* Release: when a replica is let go *)

Report == [at : 0..Hour, bytes : Bodies \cup {0}]
Plans  == [size : Bodies, at : Nat, until : Nat, mode : Modes, hints : Nat, loads : Nat]

ReleaseTypes ==
    /\ mode \in Modes /\ time \in 0..Hour
    /\ hintTimes \in Seq(Report) /\ relayBytes \in Seq(Report)
    /\ hintsEver \in Seq(Report) /\ bytesEver \in Seq(Report)
    /\ Len(hintsEver) =< Seen
    /\ \A w \in waiting : /\ w.size \in Bodies /\ w.at \in Nat /\ w.until \in Nat
                          /\ w.hints \in 0..Len(hintsEver) /\ w.loads \in 0..Len(bytesEver)

\* What a queue has forgotten was older than the window.
Remembers ==
    /\ \A t \in Int : t >= time - Window => /\ Only(hintTimes, Since(t)) = Only(hintsEver, Since(t))
                                            /\ Only(relayBytes, Since(t)) = Only(bytesEver, Since(t))


\* A later window is part of an earlier one.
LEMMA SinceLater ==
    ASSUME NEW t \in Int, NEW u \in Int, t =< u, ReleaseAssumption
    PROVE  Since(t) \cap Since(u) = Since(u)
  BY DEF Since, ReleaseAssumption

LEMMA PruneKeeps ==
    ASSUME ReleaseAssumption, NEW q \in Seq(Report), time \in 0..Hour, NEW t \in Int, t >= time - Window
    PROVE  Pruned(q) \in Seq(Report) /\ Only(Pruned(q), Since(t)) = Only(q, Since(t))
<1> DEFINE u == time - Window
<1>1. u \in Int /\ u =< t
  BY DEF ReleaseAssumption
<1>2. Only(q, Since(u)) \in Seq(Report \cap Since(u))
  BY OnlyType
<1>3. Only(q, Since(u)) \in Seq(Report)
  BY <1>2, SeqMonotonic
<1>4. Only(Only(q, Since(u)), Since(t)) = Only(q, Since(u) \cap Since(t))
  BY OnlyOnly
<1>5. Since(u) \cap Since(t) = Since(t)
  BY <1>1, SinceLater
<1> QED BY <1>3, <1>4, <1>5 DEF Pruned

LEMMA DivType ==
    ASSUME NEW a \in Nat, NEW b \in Nat \ {0}
    PROVE  a \div b \in Nat
  OBVIOUS

LEMMA DivPositive ==
    ASSUME NEW a \in Nat, NEW b \in 1..a
    PROVE  a \div b \in Nat \ {0}
  OBVIOUS

LEMMA ProductType ==
    ASSUME NEW a \in Nat, NEW b \in Nat
    PROVE  a * b \in Nat
  OBVIOUS

LEMMA SendTimeType ==
    ASSUME ReleaseAssumption, NEW size \in Bodies, NEW total \in Nat
    PROVE  SendTime(size, total) \in Nat
<1>1. size \in Nat /\ Window \in Nat
  BY DEF ReleaseAssumption
<1>2. size * Window \in Nat
  BY <1>1, ProductType
<1>3. CASE total = 0
  BY <1>3 DEF SendTime
<1>4. CASE total > 0
  <2> DEFINE a == size * Window
  <2>1. a \in Nat
    BY <1>2
  <2> HIDE DEF a
  <2>2. a \div total \in Nat
    BY <1>4, <2>1, DivType
  <2> QED BY <1>4, <2>2 DEF SendTime, a
<1> QED BY <1>3, <1>4

\* A plan that is not given up lasts for a while, and not longer than patience does.
LEMMA SpanBounds ==
    ASSUME ReleaseAssumption, NEW size \in Bodies, NEW n \in 0..Seen, NEW total \in Nat
    PROVE  /\ Span(size, n, total) \in Nat /\ Patient(size, total) \in Nat
           /\ Span(size, n, total) =< Patient(size, total)
           /\ n > 0 => Span(size, n, total) > 0
<1> DEFINE send == SendTime(size, total)
           wait == IF n > 0 THEN (Target * Window) \div n ELSE 0
           sending == Envelope * send
<1>1. send \in Nat
  BY SendTimeType
<1>2. Patience \in Nat \ {0} /\ Envelope \in Nat /\ Seen \in Nat
  BY DEF ReleaseAssumption
<1>3. Target * Window \in Nat /\ Seen =< Target * Window
  BY ProductType DEF ReleaseAssumption
<1>4. wait \in Nat /\ (n > 0 => wait > 0)
  <2> DEFINE a == Target * Window
  <2>1. a \in Nat /\ Seen =< a
    BY <1>3
  <2> HIDE DEF a
  <2>2. n > 0 => a \div n \in Nat \ {0}
    BY <1>2, <2>1, DivPositive
  <2>3. wait = IF n > 0 THEN a \div n ELSE 0
    BY DEF a
  <2> HIDE DEF wait
  <2> QED BY <2>2, <2>3
<1>5. sending \in Nat
  BY <1>1, <1>2, ProductType
<1>6. /\ Patient(size, total) = Greater(Patience, 2 * send)
      /\ Span(size, n, total) = Lesser(Greater(sending, wait), Patient(size, total))
  BY DEF Patient, Span
<1> HIDE DEF send, wait, sending
<1> QED BY <1>1, <1>2, <1>4, <1>5, <1>6 DEF Greater, Lesser

\* What plan() promises of the delay it gives.
Gains(delay, size, n, total, how) ==
    /\ delay \in Nat
    /\ delay > 0 => /\ how # "disabled" /\ size * Window > total * Noise
                    /\ how = "adaptive" => delay * n >= Measurable * Window
                    /\ delay =< Greater(Patience, 2 * SendTime(size, total))
    /\ ~(delay > 0) /\ how = "strict" /\ n > 0 => size * Window =< total * Noise

LEMMA PlanGains ==
    ASSUME ReleaseAssumption, NEW size \in Bodies, NEW n \in 0..Seen, NEW total \in Nat,
           mode \in Modes
    PROVE  Gains(Plan(size, n, total), size, n, total, mode)
<1> DEFINE span == Span(size, n, total)
           load == size * Window
           noise == total * Noise
           gain == span * n
           least == Measurable * Window
<1>1. /\ span \in Nat /\ span =< Patient(size, total) /\ (n > 0 => span > 0)
      /\ Patient(size, total) = Greater(Patience, 2 * SendTime(size, total))
  BY SpanBounds DEF Patient
<1>2. load \in Nat /\ noise \in Nat /\ gain \in Nat /\ least \in Nat
  <2>1. size \in Nat /\ Window \in Nat /\ Noise \in Nat /\ Measurable \in Nat /\ n \in Nat
    BY DEF ReleaseAssumption
  <2>2. span \in Nat
    BY <1>1
  <2> HIDE DEF span
  <2> QED BY <2>1, <2>2, ProductType
<1>3. Plan(size, n, total) = IF \/ mode = "disabled" \/ load =< noise
                                \/ mode = "adaptive" /\ gain < least
                             THEN 0 ELSE span
  BY DEF Plan
<1>4. Plan(size, n, total) \in {0, span}
  BY <1>3
<1>5. CASE Plan(size, n, total) > 0
  <2>1. /\ Plan(size, n, total) = span /\ mode # "disabled" /\ ~(load =< noise)
        /\ ~(mode = "adaptive" /\ gain < least)
    BY <1>3, <1>5
  <2>2. load > noise /\ (mode = "adaptive" => gain >= least)
    <3> HIDE DEF load, noise, gain, least
    <3> QED BY <1>2, <2>1
  <2>3. Plan(size, n, total) * n = gain
    BY <2>1
  <2> HIDE DEF span
  <2> QED BY <1>1, <1>5, <2>1, <2>2, <2>3 DEF Gains
<1>6. CASE ~(Plan(size, n, total) > 0)
  <2>1. ASSUME mode = "strict", n > 0 PROVE load =< noise
    <3> HIDE DEF span, load, noise, gain, least
    <3> QED BY <1>1, <1>3, <1>6, <2>1
  <2>2. Plan(size, n, total) \in Nat
    <3> HIDE DEF span
    <3> QED BY <1>1, <1>4
  <2> QED BY <1>6, <2>1, <2>2 DEF Gains
<1> QED BY <1>5, <1>6

-----------------------------------------------------------------------------
\* A list is no longer when it is filtered.
LEMMA OnlyLen ==
    ASSUME NEW A, NEW s \in Seq(A), NEW S
    PROVE  Len(Only(s, S)) =< Len(s)
<1>0. Len(s) \in Nat /\ \A i \in 1..Len(s) : s[i] \in A
  BY LenProperties, ElementOfSeq
<1> DEFINE p == Passed(s, S)
           T == {i \in 0..Len(s) : p[i] \in Seq(A) /\ Len(p[i]) =< i}
<1>1. p[0] = <<>> /\ \A i \in 1..Len(s) : p[i] = FilterStep(s, S, p[i - 1], i)
  BY <1>0, PassedDef
<1> HIDE DEF p
<1>2. 0 \in T
  <2>1. <<>> \in Seq(A) /\ Len(<<>>) = 0
    BY EmptySeq
  <2>2. p[0] \in Seq(A) /\ Len(p[0]) = 0
    BY <1>1, <2>1
  <2> QED BY <1>0, <2>2
<1>3. ASSUME NEW i \in 0..(Len(s) - 1), i \in T PROVE i + 1 \in T
  <2>1. i + 1 \in 1..Len(s) /\ (i + 1) - 1 = i
    BY <1>0
  <2>2. p[i + 1] = FilterStep(s, S, p[i], i + 1) /\ s[i + 1] \in A
    BY <1>0, <1>1, <2>1
  <2>3. p[i] \in Seq(A) /\ Len(p[i]) \in Nat /\ Len(p[i]) =< i
    BY <1>3, LenProperties
  <2>4. p[i + 1] \in Seq(A) /\ Len(p[i + 1]) =< i + 1
    BY <2>2, <2>3, AppendProperties DEF FilterStep
  <2> QED BY <2>1, <2>4
<1>4. \A i \in 0..Len(s) : i \in T
  <2> HIDE DEF T
  <2> QED BY <1>0, <1>2, <1>3, UpTo
<1> QED BY <1>0, <1>4 DEF p, Only

\* The beginning of a list does not change when it grows, and a list begins with itself.
LEMMA Beginning ==
    ASSUME NEW A, NEW s \in Seq(A), NEW x \in A, NEW k \in 0..Len(s)
    PROVE  /\ SubSeq(s, 1, k) \in Seq(A)
           /\ SubSeq(Append(s, x), 1, k) = SubSeq(s, 1, k)
<1> DEFINE t == Append(s, x)
           a == SubSeq(s, 1, k)
           b == SubSeq(t, 1, k)
<1>0. Len(s) \in Nat /\ k \in Nat /\ k =< Len(s)
  BY LenProperties
<1>1. \A i \in 1..k : s[i] \in A /\ t[i] = s[i]
  BY <1>0, ElementOfSeq, AppendProperties
<1>2. /\ a \in Seq(A) /\ Len(a) = k /\ \A i \in 1..k : a[i] = s[i]
  <2>1. /\ a \in Seq(A) /\ Len(a) = IF 1 =< k THEN k - 1 + 1 ELSE 0
        /\ \A i \in 1..(k - 1 + 1) : a[i] = s[1 + i - 1]
    BY <1>0, <1>1, SubSeqProperties
  <2> HIDE DEF a
  <2> QED BY <1>0, <2>1
<1>3. /\ b \in Seq(A) /\ Len(b) = k /\ \A i \in 1..k : b[i] = t[i]
  <2>1. \A i \in 1..k : t[i] \in A
    BY <1>1
  <2> HIDE DEF t
  <2>2. /\ b \in Seq(A) /\ Len(b) = IF 1 =< k THEN k - 1 + 1 ELSE 0
        /\ \A i \in 1..(k - 1 + 1) : b[i] = t[1 + i - 1]
    BY <1>0, <2>1, SubSeqProperties
  <2> HIDE DEF b
  <2> QED BY <1>0, <2>2
<1> HIDE DEF a, b, t
<1>4. a = b
  BY <1>0, <1>1, <1>2, <1>3, SeqEqual
<1> QED BY <1>2, <1>4 DEF a, b, t

LEMMA AllOfIt ==
    ASSUME NEW A, NEW s \in Seq(A)
    PROVE  SubSeq(s, 1, Len(s)) = s
<1> DEFINE k == Len(s)
           a == SubSeq(s, 1, k)
<1>0. k \in Nat /\ \A i \in 1..k : s[i] \in A
  BY LenProperties, ElementOfSeq
<1>1. /\ a \in Seq(A) /\ Len(a) = IF 1 =< k THEN k - 1 + 1 ELSE 0
      /\ \A i \in 1..(k - 1 + 1) : a[i] = s[1 + i - 1]
  <2> HIDE DEF k
  <2> QED BY <1>0, SubSeqProperties
<1>2. Len(a) = k /\ \A i \in 1..k : a[i] = s[i]
  <2> HIDE DEF a, k
  <2> QED BY <1>0, <1>1
<1> QED BY <1>1, <1>2, SeqEqual

LEMMA TotalType ==
    ASSUME ReleaseAssumption, NEW q \in Seq(Report)
    PROVE  Total(q) \in Nat
<1> DEFINE b == [i \in 1..Len(q) |-> q[i].bytes]
<1>1. Len(q) \in Nat /\ \A i \in 1..Len(q) : q[i].bytes \in Nat
  <2>1. \A i \in 1..Len(q) : q[i] \in Report
    BY ElementOfSeq
  <2>2. \A r \in Report : r.bytes \in Nat
    <3>1. Bodies \cup {0} \subseteq Nat
      BY DEF ReleaseAssumption
    <3> QED BY <3>1 DEF Report
  <2> QED BY <2>1, <2>2, LenProperties
<1>2. b \in [1..Len(q) -> Nat]
  BY <1>1
<1>3. b \in Seq(Nat)
  BY <1>1, <1>2, SeqDef
<1> QED BY <1>3, SumType DEF Total

-----------------------------------------------------------------------------
\* What HeldForGain says of one hint that is held back.
Gained(w) == Gains(w.until - w.at, w.size, HintsFor(w), LoadFor(w), w.mode)

\* The histories grow; what was planned from them stays as it was planned.
LEMMA GrowthKeeps ==
    ASSUME ReleaseTypes, NEW h \in Report, NEW w \in waiting,
           hintsEver' \in {hintsEver, Append(hintsEver, h)},
           bytesEver' \in {bytesEver, Append(bytesEver, h)}
    PROVE  HintsFor(w)' = HintsFor(w) /\ LoadFor(w)' = LoadFor(w)
<1>1. /\ hintsEver \in Seq(Report) /\ w.hints \in 0..Len(hintsEver)
      /\ bytesEver \in Seq(Report) /\ w.loads \in 0..Len(bytesEver)
  BY DEF ReleaseTypes
<1>2. /\ SubSeq(Append(hintsEver, h), 1, w.hints) = SubSeq(hintsEver, 1, w.hints)
      /\ SubSeq(Append(bytesEver, h), 1, w.loads) = SubSeq(bytesEver, 1, w.loads)
  BY <1>1, Beginning
<1>3. /\ SubSeq(hintsEver', 1, w.hints) = SubSeq(hintsEver, 1, w.hints)
      /\ SubSeq(bytesEver', 1, w.loads) = SubSeq(bytesEver, 1, w.loads)
  BY <1>2
<1> QED BY <1>3 DEF HintsFor, LoadFor, Since, Total

\* What is planned from the queues is planned from the window as it really was.
LEMMA PlannedFromWindow ==
    ASSUME ReleaseAssumption, ReleaseTypes, Remembers, NEW w,
           w.at = time, w.hints = Len(hintsEver), w.loads = Len(bytesEver)
    PROVE  /\ HintsFor(w) = Len(Pruned(hintTimes)) /\ LoadFor(w) = Total(Pruned(relayBytes))
           /\ HintsFor(w) \in 0..Seen /\ LoadFor(w) \in Nat
<1> DEFINE t == time - Window
<1>1. t \in Int /\ hintsEver \in Seq(Report) /\ bytesEver \in Seq(Report)
  BY DEF ReleaseAssumption, ReleaseTypes
<1>2. SubSeq(hintsEver, 1, w.hints) = hintsEver /\ SubSeq(bytesEver, 1, w.loads) = bytesEver
  BY <1>1, AllOfIt
<1>3. /\ Only(hintTimes, Since(t)) = Only(hintsEver, Since(t))
      /\ Only(relayBytes, Since(t)) = Only(bytesEver, Since(t))
  BY <1>1 DEF Remembers
<1>4. /\ HintsFor(w) = Len(Only(hintsEver, Since(t)))
      /\ LoadFor(w) = Total(Only(bytesEver, Since(t)))
  BY <1>2 DEF HintsFor, LoadFor
<1>5. /\ Only(hintsEver, Since(t)) \in Seq(Report) /\ Only(bytesEver, Since(t)) \in Seq(Report)
  <2>1. /\ Only(hintsEver, Since(t)) \in Seq(Report \cap Since(t))
        /\ Only(bytesEver, Since(t)) \in Seq(Report \cap Since(t))
    BY <1>1, OnlyType
  <2> QED BY <2>1, SeqMonotonic
<1>6. Len(Only(hintsEver, Since(t))) \in 0..Seen
  <2>1. Len(Only(hintsEver, Since(t))) =< Len(hintsEver)
    BY <1>1, OnlyLen
  <2>2. Len(Only(hintsEver, Since(t))) \in Nat /\ Len(hintsEver) \in Nat /\ Len(hintsEver) =< Seen
    BY <1>1, <1>5, LenProperties DEF ReleaseTypes
  <2> QED BY <2>1, <2>2 DEF ReleaseAssumption
<1>7. Total(Only(bytesEver, Since(t))) \in Nat
  BY <1>5, TotalType
<1> QED BY <1>3, <1>4, <1>6, <1>7 DEF Pruned

ReleaseInv == ReleaseTypes /\ Remembers /\ \A w \in waiting : Gained(w)

\* A report that is noted is noted in the queue as in the history.
LEMMA NotedInBoth ==
    ASSUME ReleaseAssumption, time \in 0..Hour, NEW q \in Seq(Report), NEW ever \in Seq(Report),
           NEW r \in Report, NEW t \in Int, t >= time - Window,
           Only(q, Since(t)) = Only(ever, Since(t))
    PROVE  Only(Pruned(Append(q, r)), Since(t)) = Only(Append(ever, r), Since(t))
<1>1. Append(q, r) \in Seq(Report)
  BY AppendProperties
<1>2. Only(Pruned(Append(q, r)), Since(t)) = Only(Append(q, r), Since(t))
  BY <1>1, PruneKeeps
<1> DEFINE S == Since(t)
<1>3. Only(Append(q, r), S)
        = IF r \in S THEN Append(Only(q, S), r) ELSE Only(q, S)
  <2> HIDE DEF S
  <2> QED BY OnlyAppend
<1>4. Only(Append(ever, r), S)
        = IF r \in S THEN Append(Only(ever, S), r) ELSE Only(ever, S)
  <2> HIDE DEF S
  <2> QED BY OnlyAppend
<1> QED BY <1>2, <1>3, <1>4

LEMMA ReleaseStarts ==
    ASSUME ReleaseAssumption, ReleaseInit PROVE ReleaseInv
<1>1. <<>> \in Seq(Report) /\ Len(<<>>) = 0
  BY EmptySeq
<1>2. ReleaseTypes
  <2>1. time \in 0..Hour /\ 0 =< Seen /\ mode \in Modes
    BY DEF ReleaseInit, ReleaseAssumption, Modes
  <2> QED BY <1>1, <2>1 DEF ReleaseInit, ReleaseTypes
<1> QED BY <1>2 DEF ReleaseInit, ReleaseInv, Remembers

LEMMA WiderRange ==
    ASSUME NEW n \in Nat, NEW m \in Nat, n =< m, NEW i \in 0..n PROVE i \in 0..m
  OBVIOUS

\* What is noted in the queues and in the histories.
Noted(h) ==
    \/ /\ Len(hintsEver) < Seen
       /\ hintTimes' = Pruned(Append(hintTimes, h)) /\ hintsEver' = Append(hintsEver, h)
       /\ relayBytes' = Pruned(relayBytes) /\ bytesEver' = bytesEver
    \/ /\ relayBytes' = Pruned(Append(relayBytes, h)) /\ bytesEver' = Append(bytesEver, h)
       /\ hintTimes' = Pruned(hintTimes) /\ hintsEver' = hintsEver

LEMMA NotingKeeps ==
    ASSUME ReleaseAssumption, ReleaseInv, NEW h \in Report,
           Noted(h), UNCHANGED <<mode, waiting, time>>
    PROVE  ReleaseInv'
<1>0. /\ hintsEver \in Seq(Report) /\ bytesEver \in Seq(Report) /\ Len(hintsEver) =< Seen
      /\ hintTimes \in Seq(Report) /\ relayBytes \in Seq(Report) /\ time \in 0..Hour
  BY DEF ReleaseInv, ReleaseTypes
<1>1. /\ Append(hintsEver, h) \in Seq(Report) /\ Len(Append(hintsEver, h)) = Len(hintsEver) + 1
      /\ Append(bytesEver, h) \in Seq(Report) /\ Len(Append(bytesEver, h)) = Len(bytesEver) + 1
      /\ Append(hintTimes, h) \in Seq(Report) /\ Append(relayBytes, h) \in Seq(Report)
      /\ Len(hintsEver) \in Nat /\ Len(bytesEver) \in Nat /\ Seen \in Nat
  BY <1>0, AppendProperties, LenProperties DEF ReleaseAssumption
<1>2. ReleaseTypes'
  <2>1. hintTimes' \in Seq(Report) /\ relayBytes' \in Seq(Report)
    <3>1. time - Window \in Int /\ time - Window >= time - Window
      BY <1>0 DEF ReleaseAssumption
    <3> QED BY <1>0, <1>1, <3>1, PruneKeeps DEF Noted
  <2>2. /\ hintsEver' \in Seq(Report) /\ bytesEver' \in Seq(Report)
        /\ Len(hintsEver') \in Nat /\ Len(hintsEver) =< Len(hintsEver')
        /\ Len(bytesEver') \in Nat /\ Len(bytesEver) =< Len(bytesEver')
        /\ Len(hintsEver') =< Seen
    <3> DEFINE hh == Append(hintsEver, h)
               bb == Append(bytesEver, h)
    <3>1. \/ hintsEver' = hh /\ Len(hintsEver) < Seen /\ bytesEver' = bytesEver
          \/ hintsEver' = hintsEver /\ bytesEver' = bb
      BY DEF Noted
    <3>2. /\ hh \in Seq(Report) /\ Len(hh) = Len(hintsEver) + 1
          /\ bb \in Seq(Report) /\ Len(bb) = Len(bytesEver) + 1
      BY <1>1
    <3> HIDE DEF hh, bb
    <3>0. /\ hintsEver \in Seq(Report) /\ bytesEver \in Seq(Report) /\ Seen \in Nat
          /\ Len(hintsEver) \in Nat /\ Len(bytesEver) \in Nat /\ Len(hintsEver) =< Seen
      BY <1>0, <1>1
    <3>3. CASE hintsEver' = hh /\ Len(hintsEver) < Seen /\ bytesEver' = bytesEver
      BY <3>0, <3>2, <3>3
    <3>4. CASE hintsEver' = hintsEver /\ bytesEver' = bb
      BY <3>0, <3>2, <3>4
    <3> QED BY <3>1, <3>3, <3>4
  <2>3. \A w \in waiting : w.hints \in 0..Len(hintsEver') /\ w.loads \in 0..Len(bytesEver')
    <3> SUFFICES ASSUME NEW w \in waiting
                 PROVE  w.hints \in 0..Len(hintsEver') /\ w.loads \in 0..Len(bytesEver')
      OBVIOUS
    <3>1. w.hints \in 0..Len(hintsEver) /\ w.loads \in 0..Len(bytesEver)
      BY DEF ReleaseInv, ReleaseTypes
    <3>2. \A n \in Nat, m \in Nat : n =< m => \A i \in 0..n : i \in 0..m
      BY WiderRange
    <3>3. /\ Len(hintsEver) \in Nat /\ Len(hintsEver') \in Nat /\ Len(hintsEver) =< Len(hintsEver')
          /\ Len(bytesEver) \in Nat /\ Len(bytesEver') \in Nat /\ Len(bytesEver) =< Len(bytesEver')
      BY <1>1, <2>2
    <3> DEFINE a == Len(hintsEver)
               b == Len(hintsEver')
               c == Len(bytesEver)
               d == Len(bytesEver')
    <3>4. a \in Nat /\ b \in Nat /\ a =< b /\ c \in Nat /\ d \in Nat /\ c =< d
      BY <3>3
    <3>5. w.hints \in 0..a /\ w.loads \in 0..c
      BY <3>1
    <3> HIDE DEF a, b, c, d
    <3>6. w.hints \in 0..b /\ w.loads \in 0..d
      BY <3>4, <3>5
    <3> QED BY <3>6 DEF b, d
  <2> QED BY <2>1, <2>2, <2>3 DEF ReleaseInv, ReleaseTypes
<1>3. Remembers'
  <2> SUFFICES ASSUME NEW t \in Int, t >= time - Window
               PROVE  /\ Only(hintTimes', Since(t)) = Only(hintsEver', Since(t))
                      /\ Only(relayBytes', Since(t)) = Only(bytesEver', Since(t))
    BY DEF Remembers, Since
  <2>1. /\ Only(hintTimes, Since(t)) = Only(hintsEver, Since(t))
        /\ Only(relayBytes, Since(t)) = Only(bytesEver, Since(t))
    BY DEF ReleaseInv, Remembers
  <2>2. /\ Only(Pruned(hintTimes), Since(t)) = Only(hintsEver, Since(t))
        /\ Only(Pruned(relayBytes), Since(t)) = Only(bytesEver, Since(t))
    BY <1>0, <2>1, PruneKeeps
  <2>3. /\ Only(Pruned(Append(hintTimes, h)), Since(t)) = Only(Append(hintsEver, h), Since(t))
        /\ Only(Pruned(Append(relayBytes, h)), Since(t)) = Only(Append(bytesEver, h), Since(t))
    BY <1>0, <2>1, NotedInBoth
  <2> QED BY <2>2, <2>3 DEF Noted
<1>4. ASSUME NEW w \in waiting PROVE Gained(w)'
  <2>1. HintsFor(w)' = HintsFor(w) /\ LoadFor(w)' = LoadFor(w)
    BY GrowthKeeps DEF ReleaseInv, Noted
  <2>2. Gained(w)
    BY DEF ReleaseInv
  <2> QED BY <2>1, <2>2 DEF Gained, Gains, SendTime, Greater
<1> QED BY <1>2, <1>3, <1>4 DEF ReleaseInv

LEMMA HoldBackKeeps ==
    ASSUME ReleaseAssumption, ReleaseInv, NEW size \in Bodies, HoldBack(size)
    PROVE  ReleaseInv'
<1> DEFINE hints == Pruned(hintTimes)
           heard == Pruned(relayBytes)
           delay == Plan(size, Len(hints), Total(heard))
           w == [size |-> size, at |-> time, until |-> time + delay, mode |-> mode,
                 hints |-> Len(hintsEver), loads |-> Len(bytesEver)]
<1>0. /\ hintsEver \in Seq(Report) /\ bytesEver \in Seq(Report)
      /\ hintTimes \in Seq(Report) /\ relayBytes \in Seq(Report)
      /\ time \in 0..Hour /\ time \in Nat /\ mode \in Modes
  BY DEF ReleaseInv, ReleaseTypes, ReleaseAssumption
<1>1. /\ waiting' = waiting \cup {w} /\ hintTimes' = hints /\ relayBytes' = heard
      /\ UNCHANGED <<mode, time, hintsEver, bytesEver>>
  BY DEF HoldBack
<1>2. /\ HintsFor(w) = Len(hints) /\ LoadFor(w) = Total(heard)
      /\ HintsFor(w) \in 0..Seen /\ LoadFor(w) \in Nat
  <2>1. w.at = time /\ w.hints = Len(hintsEver) /\ w.loads = Len(bytesEver)
    OBVIOUS
  <2> HIDE DEF w
  <2> QED BY <2>1, PlannedFromWindow DEF ReleaseInv
<1>3. Gains(delay, size, HintsFor(w), LoadFor(w), mode)
  <2> HIDE DEF w, hints, heard
  <2> QED BY <1>0, <1>2, PlanGains
<1>4. delay \in Nat
  <2> HIDE DEF delay
  <2> QED BY <1>3 DEF Gains
<1>5. w.until - w.at = delay /\ w.size = size /\ w.mode = mode
  <2> HIDE DEF delay
  <2> QED BY <1>0, <1>4
<1>6. Gained(w)
  <2> HIDE DEF w, delay
  <2> QED BY <1>3, <1>5 DEF Gained
<1>7. /\ w.at \in Nat /\ w.until \in Nat
      /\ w.hints \in 0..Len(hintsEver) /\ w.loads \in 0..Len(bytesEver)
  <2>1. Len(hintsEver) \in Nat /\ Len(bytesEver) \in Nat
    BY <1>0, LenProperties
  <2>2. time + delay \in Nat
    <3> HIDE DEF delay
    <3> QED BY <1>0, <1>4
  <2> HIDE DEF delay
  <2> QED BY <1>0, <2>1, <2>2
<1> HIDE DEF w, delay
<1>8. ReleaseTypes'
  <2>1. hintTimes' \in Seq(Report) /\ relayBytes' \in Seq(Report)
    <3>1. time - Window \in Int /\ time - Window >= time - Window
      BY <1>0 DEF ReleaseAssumption
    <3> QED BY <1>0, <1>1, <3>1, PruneKeeps
  <2>2. \A v \in waiting' : /\ v.size \in Bodies /\ v.at \in Nat /\ v.until \in Nat
                            /\ v.hints \in 0..Len(hintsEver) /\ v.loads \in 0..Len(bytesEver)
    BY <1>1, <1>5, <1>7 DEF ReleaseInv, ReleaseTypes
  <2> QED BY <1>1, <2>1, <2>2 DEF ReleaseInv, ReleaseTypes
<1>9. Remembers'
  <2> SUFFICES ASSUME NEW t \in Int, t >= time - Window
               PROVE  /\ Only(hintTimes', Since(t)) = Only(hintsEver, Since(t))
                      /\ Only(relayBytes', Since(t)) = Only(bytesEver, Since(t))
    BY <1>1 DEF Remembers, Since
  <2>1. /\ Only(hintTimes, Since(t)) = Only(hintsEver, Since(t))
        /\ Only(relayBytes, Since(t)) = Only(bytesEver, Since(t))
    BY DEF ReleaseInv, Remembers
  <2> QED BY <1>0, <1>1, <2>1, PruneKeeps
<1>10. ASSUME NEW v \in waiting' PROVE Gained(v)'
  <2>1. Gained(v)
    BY <1>1, <1>6 DEF ReleaseInv
  <2>2. HintsFor(v)' = HintsFor(v) /\ LoadFor(v)' = LoadFor(v)
    BY <1>1 DEF HintsFor, LoadFor, Since, Total
  <2> QED BY <2>1, <2>2 DEF Gained, Gains, SendTime, Greater
<1> QED BY <1>8, <1>9, <1>10 DEF ReleaseInv

\* The steps that note nothing and plan nothing.
LEMMA WaitingKeeps ==
    ASSUME ReleaseAssumption, ReleaseInv, mode' \in Modes, waiting' \subseteq waiting,
           time' \in 0..Hour, time' >= time,
           UNCHANGED <<hintTimes, relayBytes, hintsEver, bytesEver>>
    PROVE  ReleaseInv'
<1>1. ReleaseTypes'
  BY DEF ReleaseInv, ReleaseTypes
<1>2. Remembers'
  <2> SUFFICES ASSUME NEW t \in Int, t >= time' - Window
               PROVE  /\ Only(hintTimes, Since(t)) = Only(hintsEver, Since(t))
                      /\ Only(relayBytes, Since(t)) = Only(bytesEver, Since(t))
    BY DEF Remembers, Since
  <2>1. t >= time - Window
    <3>1. time \in Int /\ time' \in Int /\ Window \in Int
      BY DEF ReleaseInv, ReleaseTypes, ReleaseAssumption
    <3> DEFINE a == time
               b == time'
    <3>2. a \in Int /\ b \in Int /\ a =< b /\ t >= b - Window
      BY <3>1
    <3> HIDE DEF a, b
    <3>3. t >= a - Window
      BY <3>1, <3>2
    <3> QED BY <3>3 DEF a
  <2> QED BY <2>1 DEF ReleaseInv, Remembers
<1>3. ASSUME NEW w \in waiting' PROVE Gained(w)'
  <2>1. Gained(w)
    BY DEF ReleaseInv
  <2>2. HintsFor(w)' = HintsFor(w) /\ LoadFor(w)' = LoadFor(w)
    BY DEF HintsFor, LoadFor, Since, Total
  <2> QED BY <2>1, <2>2 DEF Gained, Gains, SendTime, Greater
<1> QED BY <1>1, <1>2, <1>3 DEF ReleaseInv

LEMMA ReleaseGoesOn ==
    ASSUME ReleaseAssumption, ReleaseInv, [ReleaseNext]_release_vars PROVE ReleaseInv'
<1>0. time \in 0..Hour /\ Hour \in Nat /\ mode \in Modes /\ 0 \in Bodies \cup {0}
  BY DEF ReleaseInv, ReleaseTypes, ReleaseAssumption
<1>1. CASE NoteHintSeen
  <2>1. [at |-> time, bytes |-> 0] \in Report
    BY <1>0 DEF Report
  <2> QED BY <1>1, <2>1, NotingKeeps DEF NoteHintSeen, Noted
<1>2. ASSUME NEW b \in Bodies, NoteRelayBytes(b) PROVE ReleaseInv'
  <2>1. [at |-> time, bytes |-> b] \in Report
    BY <1>0 DEF Report
  <2> QED BY <1>2, <2>1, NotingKeeps DEF NoteRelayBytes, Noted
<1>3. ASSUME NEW b \in Bodies, HoldBack(b) PROVE ReleaseInv'
  BY <1>3, HoldBackKeeps
<1>4. ASSUME NEW m \in Modes, SetMode(m) PROVE ReleaseInv'
  BY <1>0, <1>4, WaitingKeeps DEF SetMode
<1>5. ASSUME NEW w \in waiting, LetGo(w) PROVE ReleaseInv'
  BY <1>0, <1>5, WaitingKeeps DEF LetGo
<1>6. CASE TimePasses
  BY <1>0, <1>6, WaitingKeeps DEF TimePasses
<1>7. CASE UNCHANGED release_vars
  BY <1>0, <1>7, WaitingKeeps DEF release_vars
<1> QED BY <1>1, <1>2, <1>3, <1>4, <1>5, <1>6, <1>7 DEF ReleaseNext

\* For any sizes, rates and settings: a delay is one that the hints and bytes of the last
\* window, as they really were, justify; the queues that prune() shortens at every call
\* lead to the same plan (HintReleaseScheduler.plan, prune).
THEOREM DelaysGain == ASSUME ReleaseAssumption PROVE ReleaseSpec => []HeldForGain
<1>1. ReleaseInit => ReleaseInv
  BY ReleaseStarts
<1>2. ReleaseInv /\ [ReleaseNext]_release_vars => ReleaseInv'
  BY ReleaseGoesOn
<1>3. ReleaseInv => HeldForGain
  <2> SUFFICES ASSUME ReleaseInv, NEW w \in waiting
               PROVE  IF w.until - w.at > 0
                      THEN /\ w.mode # "disabled" /\ w.size * Window > LoadFor(w) * Noise
                           /\ w.mode = "adaptive" =>
                                (w.until - w.at) * HintsFor(w) >= Measurable * Window
                           /\ w.until - w.at =< Greater(Patience, 2 * SendTime(w.size, LoadFor(w)))
                      ELSE w.mode = "strict" /\ HintsFor(w) > 0
                             => w.size * Window =< LoadFor(w) * Noise
    BY DEF HeldForGain
  <2>1. Gained(w)
    BY DEF ReleaseInv
  <2> DEFINE held == w.until - w.at
  <2>2. Gains(held, w.size, HintsFor(w), LoadFor(w), w.mode)
    BY <2>1 DEF Gained
  <2> HIDE DEF held
  <2>3. IF held > 0
        THEN /\ w.mode # "disabled" /\ w.size * Window > LoadFor(w) * Noise
             /\ w.mode = "adaptive" => held * HintsFor(w) >= Measurable * Window
             /\ held =< Greater(Patience, 2 * SendTime(w.size, LoadFor(w)))
        ELSE w.mode = "strict" /\ HintsFor(w) > 0 => w.size * Window =< LoadFor(w) * Noise
    BY <2>2 DEF Gains
  <2> QED BY <2>3 DEF held
<1> QED BY <1>1, <1>2, <1>3, PTL DEF ReleaseSpec

-----------------------------------------------------------------------------
(* Guards: the lists of trusted guards *)

\* Every signature on a list that travels was really made.
Genuine == \A list \in drafts : list.sigs \in Seq(agreed)
GuardsInv == Genuine /\ Endorsed

Signers(c) == {m \in Maintainer : [by |-> m, over |-> c] \in agreed}
Backed(c) == /\ c \in {a.over : a \in agreed}
             /\ Cardinality(Signers(c)) >= Threshold
             /\ trusted = [version |-> c.version, guards |-> {d.of : d \in c.guards} \ c.revoked,
                           from |-> c.from, until |-> c.until]

LEMMA EndorsedMeans == Endorsed <=> (trusted # NoList => \E c : Backed(c))
  BY DEF Endorsed, Backed, Signers

\* More signatures do not take away an endorsement.
LEMMA EndorsementStays ==
    ASSUME GuardsAssumption, Endorsed, agreed \subseteq agreed', trusted' = trusted
    PROVE  Endorsed'
<1> SUFFICES ASSUME trusted # NoList PROVE \E c : Backed(c)'
  BY EndorsedMeans DEF Endorsed, Backed, Signers
<1>1. PICK c : Backed(c)
  BY EndorsedMeans
<1>2. IsFiniteSet(Signers(c)') /\ Signers(c) \subseteq Signers(c)'
  BY FS_Subset DEF Signers, GuardsAssumption
<1>3. /\ Cardinality(Signers(c)) =< Cardinality(Signers(c)')
      /\ Cardinality(Signers(c)) \in Nat /\ Cardinality(Signers(c)') \in Nat
  BY <1>2, FS_Subset, FS_CardinalityType
<1>4. Cardinality(Signers(c))' >= Threshold
  <2>1. Cardinality(Signers(c)) >= Threshold /\ Threshold \in Int
    BY <1>1 DEF Backed, GuardsAssumption
  <2> QED BY <1>3, <2>1
<1>5. c \in {a.over : a \in agreed'}
  BY <1>1 DEF Backed
<1>6. Backed(c)'
  BY <1>1, <1>4, <1>5 DEF Backed
<1> QED BY <1>6

\* What a maintainer signs carries the signatures it had, and his.
LEMMA SignedGenuine ==
    ASSUME NEW c, NEW m, NEW sigs \in Seq(agreed), agreed' = agreed \cup {[by |-> m, over |-> c]}
    PROVE  Signed(c, m, sigs).sigs \in Seq(agreed')
<1> DEFINE S == OfOthers(m, sigs)
           own == [by |-> m, over |-> c]
<1>1. Only(sigs, S) \in Seq(agreed \cap S)
  <2> HIDE DEF S
  <2> QED BY OnlyType
<1>2. Only(sigs, S) \in Seq(agreed') /\ own \in agreed'
  BY <1>1, SeqMonotonic
<1>3. Append(Only(sigs, S), own) \in Seq(agreed')
  <2> HIDE DEF S, own
  <2> QED BY <1>2, AppendProperties
<1> QED BY <1>3 DEF Signed

LEMMA GuardsGoOn == ASSUME GuardsAssumption, GuardsInv, [GuardsNext]_guard_vars PROVE GuardsInv'
<1>1. ASSUME NEW m, NEW v, NEW g, NEW r, NEW days, SignNew(m, v, g, r, days) PROVE GuardsInv'
  <2> DEFINE c == [version |-> v, guards |-> g, revoked |-> r, from |-> today, until |-> today + days]
  <2>1. /\ drafts' = drafts \cup {Signed(c, m, <<>>)} /\ agreed' = agreed \cup {[by |-> m, over |-> c]}
        /\ trusted' = trusted
    BY <1>1 DEF SignNew
  <2> HIDE DEF c
  <2>2. <<>> \in Seq(agreed)
    BY EmptySeq
  <2>3. Signed(c, m, <<>>).sigs \in Seq(agreed')
    BY <2>1, <2>2, SignedGenuine
  <2>4. Genuine'
    BY <2>1, <2>3, SeqMonotonic DEF GuardsInv, Genuine
  <2>5. Endorsed'
    BY <2>1, EndorsementStays DEF GuardsInv
  <2> QED BY <2>4, <2>5 DEF GuardsInv
<1>2. ASSUME NEW m, NEW list \in drafts, SignExisting(m, list) PROVE GuardsInv'
  <2> DEFINE c == list.content
  <2>1. /\ drafts' = drafts \cup {Signed(c, m, list.sigs)}
        /\ agreed' = agreed \cup {[by |-> m, over |-> c]} /\ trusted' = trusted
    BY <1>2 DEF SignExisting
  <2>2. list.sigs \in Seq(agreed)
    BY DEF GuardsInv, Genuine
  <2> HIDE DEF c
  <2>3. Signed(c, m, list.sigs).sigs \in Seq(agreed')
    BY <2>1, <2>2, SignedGenuine
  <2>4. Genuine'
    BY <2>1, <2>3, SeqMonotonic DEF GuardsInv, Genuine
  <2>5. Endorsed'
    BY <2>1, EndorsementStays DEF GuardsInv
  <2> QED BY <2>4, <2>5 DEF GuardsInv
<1>3. ASSUME NEW list \in drafts, Alter(list) PROVE GuardsInv'
  <2> DEFINE Joined == {list.sigs, list.sigs \o list.sigs} \cup {other.sigs : other \in drafts}
  <2>0. \E c \in Edited(list.content) \cup {list.content} :
          \E sigs \in Joined : drafts' = drafts \cup {[content |-> c, sigs |-> sigs]}
    BY <1>3 DEF Alter
  <2>1. PICK c, sigs : sigs \in Joined /\ drafts' = drafts \cup {[content |-> c, sigs |-> sigs]}
    <3> HIDE DEF Joined
    <3> QED BY <2>0
  <2>2. agreed' = agreed /\ trusted' = trusted
    BY <1>3 DEF Alter
  <2>3. list.sigs \in Seq(agreed) /\ \A other \in drafts : other.sigs \in Seq(agreed)
    BY DEF GuardsInv, Genuine
  <2>4. list.sigs \o list.sigs \in Seq(agreed)
    BY <2>3, ConcatProperties
  <2>5. sigs \in Seq(agreed)
    BY <2>1, <2>3, <2>4
  <2>6. Genuine'
    BY <2>1, <2>2, <2>5 DEF GuardsInv, Genuine
  <2>7. Endorsed'
    BY <2>2, EndorsementStays DEF GuardsInv
  <2> QED BY <2>6, <2>7 DEF GuardsInv
<1>4. ASSUME NEW list \in drafts, NEW now, Import(list, now) PROVE GuardsInv'
  <2> DEFINE c == list.content
             V == ValidSigners(list)
  <2>1. /\ agreed' = agreed /\ drafts' = drafts
        /\ trusted' = [version |-> c.version, guards |-> {d.of : d \in c.guards} \ c.revoked,
                       from |-> c.from, until |-> c.until]
        /\ Cardinality(V) >= Threshold
    BY <1>4 DEF Import, Acceptable, EnoughSigned, EnoughOf, Usable
  <2>2. Genuine'
    BY <2>1 DEF GuardsInv, Genuine
  <2>3. V \subseteq Signers(c)
    <3>1. list.sigs \in Seq(agreed)
      BY DEF GuardsInv, Genuine
    <3>2. \A i \in 1..Len(list.sigs) : list.sigs[i] \in agreed
      BY <3>1, ElementOfSeq
    <3> QED BY <3>2 DEF ValidSigners, Signers
  <2>4. IsFiniteSet(Signers(c)) /\ IsFiniteSet(V)
    BY <2>3, FS_Subset DEF Signers, GuardsAssumption
  <2>5. /\ Cardinality(V) =< Cardinality(Signers(c))
        /\ Cardinality(V) \in Nat /\ Cardinality(Signers(c)) \in Nat
    BY <2>3, <2>4, FS_Subset, FS_CardinalityType
  <2>6. Cardinality(Signers(c)) >= Threshold /\ Cardinality(V) # 0
    <3>1. Threshold \in Int /\ Threshold >= 1
      <4>1. Cardinality(Maintainer) \in Nat
        BY FS_CardinalityType DEF GuardsAssumption
      <4> QED BY <4>1 DEF GuardsAssumption
    <3> HIDE DEF V, c
    <3> QED BY <2>1, <2>5, <3>1
  <2>7. PICK m : m \in V
    BY <2>4, <2>6, FS_EmptySet
  <2>8. c \in {a.over : a \in agreed}
    <3>1. [by |-> m, over |-> c] \in agreed
      BY <2>3, <2>7 DEF Signers
    <3>2. [by |-> m, over |-> c].over = c
      OBVIOUS
    <3> QED BY <3>1, <3>2
  <2>9. Backed(c)'
    <3>1. Signers(c)' = Signers(c)
      BY <2>1 DEF Signers
    <3> QED BY <2>1, <2>6, <2>8, <3>1 DEF Backed
  <2>10. Endorsed'
    BY <2>9 DEF Endorsed, Backed, Signers
  <2> QED BY <2>2, <2>10 DEF GuardsInv
<1>5. ASSUME UNCHANGED <<drafts, agreed, trusted>> PROVE GuardsInv'
  BY <1>5, EndorsementStays DEF GuardsInv, Genuine
<1> QED BY <1>1, <1>2, <1>3, <1>4, <1>5 DEF GuardsNext, DayPasses, guard_vars

\* For any maintainers and threshold, whatever is signed, edited and merged on the way: the
\* guards in use are those of one content that as many maintainers as the threshold asks
\* for have signed, without the revoked ones (verifyGuardList, signGuardList).
THEOREM ListsAreEndorsed == ASSUME GuardsAssumption PROVE GuardsSpec => []Endorsed
<1>1. GuardsInit => GuardsInv
  BY DEF GuardsInit, GuardsInv, Genuine, Endorsed
<1>2. GuardsInv /\ [GuardsNext]_guard_vars => GuardsInv'
  BY GuardsGoOn
<1>3. GuardsInv => Endorsed
  BY DEF GuardsInv
<1> QED BY <1>1, <1>2, <1>3, PTL DEF GuardsSpec

-----------------------------------------------------------------------------
(* Channel: messages cut into pieces *)

Part     == Message \X Nat
Piece    == [id : Nat, seq : Nat, total : Nat, part : Part]
Gathered == UNION {[S -> Part] : S \in SUBSET Nat}
Entry    == [id : Nat, total : Nat, got : Gathered, late : BOOLEAN]

Separate(R) == \A j, k \in 1..Len(R) : R[j].id = R[k].id => j = k
Distinct(s) == \A j, k \in 1..Len(s) : s[j] = s[k] => j = k

\* The values of a list.
LEMMA Values ==
    ASSUME NEW A, NEW s \in Seq(A)
    PROVE  /\ Len(s) \in Nat /\ DOMAIN s = 1..Len(s)
           /\ ToSet(s) \subseteq A
           /\ \A i \in 1..Len(s) : s[i] \in ToSet(s)
           /\ \A x \in ToSet(s) : \E i \in 1..Len(s) : s[i] = x
<1>1. Len(s) \in Nat /\ DOMAIN s = 1..Len(s)
  BY LenProperties
<1>2. \A i \in 1..Len(s) : s[i] \in A
  BY ElementOfSeq
<1> QED BY <1>1, <1>2 DEF ToSet

\* A list with one more element.
LEMMA ValuesAppend ==
    ASSUME NEW A, NEW s \in Seq(A), NEW x \in A
    PROVE  /\ Append(s, x) \in Seq(A) /\ Len(Append(s, x)) = Len(s) + 1
           /\ ToSet(Append(s, x)) = ToSet(s) \cup {x}
           /\ \A i \in 1..Len(s) : Append(s, x)[i] = s[i]
           /\ Append(s, x)[Len(s) + 1] = x
<1> DEFINE t == Append(s, x)
<1>1. /\ t \in Seq(A) /\ Len(t) = Len(s) + 1
      /\ \A i \in 1..Len(s) : t[i] = s[i]
      /\ t[Len(s) + 1] = x
  BY AppendProperties
<1> HIDE DEF t
<1>2. Len(s) \in Nat /\ DOMAIN s = 1..Len(s) /\ DOMAIN t = 1..Len(t)
  BY <1>1, LenProperties
<1>3. ToSet(t) = ToSet(s) \cup {x}
  <2>1. \A i \in 1..Len(t) : i \in 1..Len(s) \/ i = Len(s) + 1
    BY <1>1, <1>2
  <2>2. Len(s) + 1 \in 1..Len(t) /\ \A i \in 1..Len(s) : i \in 1..Len(t)
    BY <1>1, <1>2
  <2> QED BY <1>1, <1>2, <2>1, <2>2 DEF ToSet
<1> QED BY <1>1, <1>3 DEF t

\* A list without its first element.
LEMMA ValuesTail ==
    ASSUME NEW A, NEW s \in Seq(A), s # <<>>
    PROVE  /\ Tail(s) \in Seq(A) /\ Len(Tail(s)) = Len(s) - 1 /\ Len(s) \in Nat \ {0}
           /\ Head(s) \in ToSet(s) /\ Head(s) = s[1]
           /\ \A i \in 1..Len(Tail(s)) : Tail(s)[i] = s[i + 1] /\ i + 1 \in 1..Len(s)
           /\ ToSet(s) = ToSet(Tail(s)) \cup {Head(s)}
<1> DEFINE t == Tail(s)
<1>1. /\ t \in Seq(A) /\ Len(t) = Len(s) - 1
      /\ \A i \in 1..Len(t) : t[i] = s[i + 1]
  BY HeadTailProperties
<1>2. Len(s) \in Nat \ {0} /\ DOMAIN s = 1..Len(s)
  BY EmptySeq, LenProperties
<1>3. Head(s) = s[1]
  OBVIOUS
<1> HIDE DEF t
<1>4. DOMAIN t = 1..Len(t)
  BY <1>1, LenProperties
<1>5. \A i \in 1..Len(t) : i + 1 \in 1..Len(s)
  BY <1>1, <1>2
<1>6. \A i \in 1..Len(s) : i = 1 \/ (i - 1 \in 1..Len(t) /\ (i - 1) + 1 = i)
  BY <1>1, <1>2
<1>7. 1 \in 1..Len(s)
  BY <1>2
<1>8. ToSet(s) = ToSet(t) \cup {Head(s)}
  <2>1. \A i \in 1..Len(s) : s[i] = s[1] \/ s[i] = t[i - 1]
    BY <1>1, <1>6
  <2>2. \A i \in 1..Len(t) : t[i] = s[i + 1]
    BY <1>1
  <2>3. ToSet(s) \subseteq ToSet(t) \cup {Head(s)}
    BY <1>2, <1>3, <1>4, <1>6, <2>1 DEF ToSet
  <2>4. ToSet(t) \subseteq ToSet(s)
    BY <1>2, <1>4, <1>5, <2>2 DEF ToSet
  <2>5. Head(s) \in ToSet(s)
    BY <1>2, <1>3, <1>7 DEF ToSet
  <2> QED BY <2>3, <2>4, <2>5
<1> QED BY <1>1, <1>2, <1>3, <1>5, <1>7, <1>8 DEF t, ToSet

\* What a filter leaves of a list of entries: those of the set, each once if each was there
\* once.
LEMMA OnlyEntries ==
    ASSUME NEW A, NEW s \in Seq(A), NEW S
    PROVE  /\ Only(s, S) \in Seq(A) /\ Len(Only(s, S)) <= Len(s)
           /\ ToSet(Only(s, S)) = ToSet(s) \cap S
           /\ Separate(s) => Separate(Only(s, S))
<1>0. Len(s) \in Nat /\ DOMAIN s = 1..Len(s) /\ \A i \in 1..Len(s) : s[i] \in A
  BY LenProperties, ElementOfSeq
<1> DEFINE p == Passed(s, S)
           SoFar(t, n) == /\ t \in Seq(A) /\ Len(t) <= n
                          /\ \A j \in 1..Len(t) : \E i \in 1..n : t[j] = s[i] /\ s[i] \in S
                          /\ \A i \in 1..n : s[i] \in S => \E j \in 1..Len(t) : t[j] = s[i]
                          /\ Separate(s) => Separate(t)
           T == {n \in 0..Len(s) : SoFar(p[n], n)}
<1>1. p[0] = <<>> /\ \A i \in 1..Len(s) : p[i] = FilterStep(s, S, p[i - 1], i)
  BY <1>0, PassedDef
<1> HIDE DEF p
<1>2. 0 \in T
  <2>1. <<>> \in Seq(A) /\ Len(<<>>) = 0
    BY EmptySeq
  <2>2. SoFar(<<>>, 0)
    BY <2>1 DEF Separate
  <2>3. SoFar(p[0], 0)
    BY <1>1, <2>2
  <2> HIDE DEF SoFar
  <2> QED BY <1>0, <2>3
<1>3. ASSUME NEW n \in 0..(Len(s) - 1), n \in T PROVE n + 1 \in T
  <2> DEFINE t == p[n]
             u == p[n + 1]
  <2>1. n \in Nat /\ n + 1 \in 1..Len(s) /\ n + 1 \in 0..Len(s) /\ (n + 1) - 1 = n
    BY <1>0
  <2>2. u = FilterStep(s, S, t, n + 1) /\ s[n + 1] \in A
    BY <1>0, <1>1, <2>1
  <2>3. SoFar(t, n)
    BY <1>3
  <2> HIDE DEF t, u
  <2>4. CASE s[n + 1] \notin S
    <3>1. u = t
      BY <2>2, <2>4 DEF FilterStep
    <3>2. \A i \in 1..(n + 1) : i \in 1..n \/ i = n + 1
      BY <2>1
    <3>3. Len(t) \in Nat
      BY <2>3, LenProperties
    <3>4. Len(t) <= n + 1 /\ \A i \in 1..n : i \in 1..(n + 1)
      BY <2>1, <2>3, <3>3
    <3>5. SoFar(u, n + 1)
      BY <2>3, <2>4, <3>1, <3>2, <3>4
    <3> QED BY <2>1, <3>5 DEF u
  <2>5. CASE s[n + 1] \in S
    <3>1. u = Append(t, s[n + 1])
      BY <2>2, <2>5 DEF FilterStep
    <3>2. t \in Seq(A)
      BY <2>3
    <3>3. /\ u \in Seq(A) /\ Len(u) = Len(t) + 1
          /\ \A i \in 1..Len(t) : u[i] = t[i]
          /\ u[Len(t) + 1] = s[n + 1]
      <4> DEFINE w == s[n + 1]
      <4>1. w \in A /\ u = Append(t, w)
        BY <2>2, <3>1
      <4> HIDE DEF w, SoFar, T
      <4>2. /\ u \in Seq(A) /\ Len(u) = Len(t) + 1
            /\ \A i \in 1..Len(t) : u[i] = t[i]
            /\ u[Len(t) + 1] = w
        BY <3>2, <4>1, AppendProperties
      <4> QED BY <4>2 DEF w
    <3>4. Len(t) \in Nat
      BY <3>2, LenProperties
    <3>5. /\ \A j \in 1..Len(u) : j \in 1..Len(t) \/ j = Len(t) + 1
          /\ \A j \in 1..Len(t) : j \in 1..Len(u)
          /\ Len(t) + 1 \in 1..Len(u) /\ Len(u) <= n + 1
          /\ \A i \in 1..(n + 1) : i \in 1..n \/ i = n + 1
          /\ \A i \in 1..n : i \in 1..(n + 1) /\ i # n + 1 /\ i \in 1..Len(s)
          /\ n + 1 \in 1..(n + 1)
      BY <1>0, <2>1, <2>3, <3>3, <3>4
    <3>6. \A j \in 1..Len(u) : \E i \in 1..(n + 1) : u[j] = s[i] /\ s[i] \in S
      <4>1. \A j \in 1..Len(t) : \E i \in 1..n : t[j] = s[i] /\ s[i] \in S
        BY <2>3
      <4>2. \A j \in 1..Len(t) : \E i \in 1..(n + 1) : u[j] = s[i] /\ s[i] \in S
        BY <3>3, <3>5, <4>1
      <4> QED BY <2>5, <3>3, <3>5, <4>2
    <3>7. \A i \in 1..(n + 1) : s[i] \in S => \E j \in 1..Len(u) : u[j] = s[i]
      <4>1. \A i \in 1..n : s[i] \in S => \E j \in 1..Len(t) : t[j] = s[i]
        BY <2>3
      <4>2. \A i \in 1..n : s[i] \in S => \E j \in 1..Len(u) : u[j] = s[i]
        BY <3>3, <3>5, <4>1
      <4> QED BY <3>3, <3>5, <4>2
    <3>8. ASSUME Separate(s) PROVE Separate(u)
      <4>1. \A j \in 1..Len(t) : t[j].id # s[n + 1].id
        BY <2>1, <2>3, <3>5, <3>8 DEF Separate
      <4>2. \A j, k \in 1..Len(t) : t[j].id = t[k].id => j = k
        BY <2>3, <3>8 DEF Separate
      <4> QED BY <3>3, <3>5, <4>1, <4>2 DEF Separate
    <3>9. SoFar(u, n + 1)
      BY <3>3, <3>5, <3>6, <3>7, <3>8
    <3> QED BY <2>1, <3>9 DEF u
  <2> QED BY <2>4, <2>5
<1>4. \A i \in 0..Len(s) : i \in T
  <2> HIDE DEF T
  <2> QED BY <1>0, <1>2, <1>3, UpTo
<1> DEFINE t == p[Len(s)]
<1>5. SoFar(t, Len(s))
  <2>1. Len(s) \in T
    <3> HIDE DEF T
    <3> QED BY <1>0, <1>4
  <2> QED BY <2>1
<1>6. t = Only(s, S)
  BY DEF p, Only
<1> HIDE DEF t
<1>7. DOMAIN t = 1..Len(t)
  BY <1>5, LenProperties
<1>8. ToSet(t) = ToSet(s) \cap S
  <2>1. ToSet(t) \subseteq ToSet(s) \cap S
    BY <1>0, <1>5, <1>7 DEF ToSet
  <2>2. ToSet(s) \cap S \subseteq ToSet(t)
    <3>1. \A i \in 1..Len(s) : s[i] \in S => \E j \in 1..Len(t) : t[j] = s[i]
      BY <1>5
    <3> QED BY <1>0, <1>7, <3>1 DEF ToSet
  <2> QED BY <2>1, <2>2
<1> QED BY <1>5, <1>6, <1>8

Begun(m)    == sends[m].is # "new"
SentUpTo(m) == IF sends[m].is = "sent" THEN Length[m] ELSE sends[m].next - 1
Progress    == [is : {"new", "sending", "sent", "failed"}, id : Nat, next : Nat \ {0}]
Wholes      == {Whole(m) : m \in Message}

ChannelTypes ==
    /\ {from, to} \subseteq {"web", "cache"} /\ dc \in {"open", "closed"}
    /\ sends \in [Message -> Progress] /\ msg_counter \in Nat /\ strained \in BOOLEAN
    /\ buffer \in Seq(Piece) /\ reassembly \in Seq(Entry) /\ arrived \in Seq(Wholes)

\* Ids tell the messages apart that have been begun.
Numbered ==
    /\ IsFiniteSet({m \in Message : Begun(m)})
    /\ \A m \in Message : sends[m].is # "sent" => sends[m].next <= Length[m]
    /\ \A m \in Message : Begun(m) => sends[m].id < msg_counter
    /\ \A m, n \in Message : Begun(m) /\ Begun(n) /\ sends[m].id = sends[n].id => m = n

\* What is on its way was sent, and is there once.
Underway ==
    /\ Distinct(buffer)
    /\ \A c \in ToSet(buffer) :
         \E m \in Message : Begun(m) /\ \E i \in 1..SentUpTo(m) : c = Chunk(m, i)

\* r is what has come of m: some of its pieces, not all, and none that is still to come.
PiecesOf(r, m) ==
    /\ Begun(m) /\ r.id = sends[m].id /\ r.total = Length[m] /\ Length[m] # 1
    /\ Whole(m) \notin ToSet(arrived)
    /\ DOMAIN r.got \subseteq 1..SentUpTo(m) /\ DOMAIN r.got # 1..Length[m]
    /\ \A i \in DOMAIN r.got : r.got[i] = <<m, i>> /\ Chunk(m, i) \notin ToSet(buffer)

InPieces ==
    /\ Separate(reassembly) /\ (to = "web" => Len(reassembly) <= MaxPending)
    /\ \A r \in ToSet(reassembly) : \E m \in Message : PiecesOf(r, m)

\* Nothing is left of a message that was handed on.
HandedOn ==
    /\ Distinct(arrived)
    /\ \A m \in Message : Whole(m) \in ToSet(arrived) =>
         sends[m].is = "sent" /\ \A i \in 1..Length[m] : Chunk(m, i) \notin ToSet(buffer)

\* While nothing timed out and there was room, every piece that was sent is somewhere.
Somewhere(m, i) ==
    \/ Chunk(m, i) \in ToSet(buffer) \/ Whole(m) \in ToSet(arrived)
    \/ \E r \in ToSet(reassembly) : r.id = sends[m].id /\ i \in DOMAIN r.got

NoneLost ==
    dc = "open" /\ ~strained =>
      /\ Cardinality(OnTheWay) <= MaxPending
      /\ \A r \in ToSet(reassembly) : ~r.late
      /\ \A m \in Message : Begun(m) /\ Length[m] <= MaxChunks =>
           \A i \in 1..SentUpTo(m) : Somewhere(m, i)

ChannelInv == ChannelTypes /\ Numbered /\ Underway /\ InPieces /\ HandedOn /\ NoneLost

\* A message is known by any of its pieces, and by the whole.
LEMMA OwnPieces ==
    ASSUME ChannelAssumption, ChannelTypes, NEW m \in Message, NEW n \in Message
    PROVE  /\ \A i, j : Chunk(m, i) = Chunk(n, j) => m = n /\ i = j
           /\ \A i \in Nat : Chunk(m, i) \in Piece
           /\ Whole(m) = Whole(n) => m = n
           /\ Length[m] \in Nat \ {0}
<1>1. Length[m] \in Nat \ {0} /\ Length[n] \in Nat \ {0}
  BY DEF ChannelAssumption
<1>2. \A i, j : Chunk(m, i) = Chunk(n, j) => m = n /\ i = j
  BY DEF Chunk
<1>3. \A i \in Nat : Chunk(m, i) \in Piece
  <2>1. sends[m].id \in Nat
    BY DEF ChannelTypes, Progress
  <2> QED BY <1>1, <2>1 DEF Chunk, Piece, Part
<1>4. ASSUME Whole(m) = Whole(n) PROVE m = n
  <2>1. 1 \in 1..Length[m] /\ 1 \in 1..Length[n]
    BY <1>1
  <2>2. Whole(m)[1] = <<m, 1>> /\ Whole(n)[1] = <<n, 1>>
    BY <2>1 DEF Whole
  <2> QED BY <1>4, <2>2
<1> QED BY <1>1, <1>2, <1>3, <1>4

\* How far a message has been sent.
LEMMA SentUpToType ==
    ASSUME ChannelAssumption, ChannelTypes, Numbered, NEW m \in Message
    PROVE  /\ SentUpTo(m) \in Nat /\ SentUpTo(m) <= Length[m]
           /\ sends[m].is # "sent" => SentUpTo(m) < Length[m]
<1>1. Length[m] \in Nat \ {0} /\ sends[m].next \in Nat \ {0}
  BY DEF ChannelAssumption, ChannelTypes, Progress
<1>2. sends[m].is # "sent" => sends[m].next <= Length[m]
  BY DEF Numbered
<1> QED BY <1>1, <1>2 DEF SentUpTo

\* Nothing was sent at first.
LEMMA ChannelStarts == ASSUME ChannelAssumption, ChannelInit PROVE ChannelInv
<1> USE DEF ChannelInit
<1>1. \A m \in Message : sends[m] = [is |-> "new", id |-> 0, next |-> 1]
  OBVIOUS
<1>2. \A m \in Message : ~Begun(m)
  BY <1>1 DEF Begun
<1>3. \A A : <<>> \in Seq(A) /\ Len(<<>>) = 0
  BY EmptySeq
<1>4. ToSet(<<>>) = {}
  BY DEF ToSet
<1>5. ChannelTypes
  <2>1. [is |-> "new", id |-> 0, next |-> 1] \in Progress
    BY DEF Progress
  <2> QED BY <1>3, <2>1 DEF ChannelTypes
<1>6. Numbered
  <2>1. {m \in Message : Begun(m)} = {}
    BY <1>2
  <2>2. IsFiniteSet({})
    BY FS_EmptySet
  <2>3. \A m \in Message : sends[m].next <= Length[m]
    BY <1>1 DEF ChannelAssumption
  <2> QED BY <1>2, <2>1, <2>2, <2>3 DEF Numbered
<1>7. Underway
  BY <1>3, <1>4 DEF Underway, Distinct
<1>8. InPieces
  <2>1. Separate(reassembly)
    BY <1>3 DEF Separate
  <2>2. Len(reassembly) = 0 /\ ToSet(reassembly) = {}
    BY <1>3, <1>4
  <2> QED BY <2>1, <2>2 DEF InPieces, ChannelAssumption
<1>9. HandedOn
  BY <1>3, <1>4 DEF HandedOn, Distinct
<1>10. NoneLost
  <2>1. OnTheWay = {}
    BY <1>1 DEF OnTheWay
  <2>2. Cardinality(OnTheWay) = 0 /\ MaxPending \in Nat
    BY <2>1, FS_EmptySet DEF ChannelAssumption
  <2> QED BY <1>2, <1>4, <2>2 DEF NoneLost
<1> QED BY <1>5, <1>6, <1>7, <1>8, <1>9, <1>10 DEF ChannelInv

\* Sending more of a message disturbs nothing of what came of the others.
LEMMA SendersGoOn ==
    ASSUME ChannelAssumption, ChannelInv, UNCHANGED <<to, reassembly, arrived>>,
           \A n \in Message : Begun(n) =>
             /\ Begun(n)' /\ sends'[n].id = sends[n].id
             /\ SentUpTo(n)' \in Nat /\ SentUpTo(n) <= SentUpTo(n)'
             /\ sends[n].is = "sent" => sends'[n].is = "sent"
             /\ \A i \in 1..SentUpTo(n) :
                  Chunk(n, i) \in ToSet(buffer') => Chunk(n, i) \in ToSet(buffer)
    PROVE  InPieces' /\ HandedOn'
<1> USE DEF ChannelInv
<1>1. \A n \in Message : Begun(n) => \A i : Chunk(n, i)' = Chunk(n, i)
  BY DEF Chunk
<1>2. ASSUME NEW r \in ToSet(reassembly') PROVE \E m \in Message : PiecesOf(r, m)'
  <2>1. PICK m \in Message : PiecesOf(r, m)
    BY DEF InPieces
  <2>2. Begun(m) /\ SentUpTo(m) \in Nat
    BY <2>1, SentUpToType DEF PiecesOf
  <2>3. \A i \in 1..SentUpTo(m) : i \in 1..SentUpTo(m)'
    BY <2>2
  <2>4. DOMAIN r.got \subseteq 1..SentUpTo(m)
    BY <2>1 DEF PiecesOf
  <2>5. \A i \in DOMAIN r.got : r.got[i] = <<m, i>> /\ Chunk(m, i)' \notin ToSet(buffer')
    BY <1>1, <2>1, <2>2, <2>4 DEF PiecesOf
  <2>6. PiecesOf(r, m)'
    BY <2>1, <2>2, <2>3, <2>4, <2>5 DEF PiecesOf, Whole
  <2> QED BY <2>6
<1>3. InPieces'
  BY <1>2 DEF InPieces, Separate
<1>4. ASSUME NEW m \in Message, Whole(m)' \in ToSet(arrived')
      PROVE  sends'[m].is = "sent" /\ \A i \in 1..Length[m] : Chunk(m, i)' \notin ToSet(buffer')
  <2>1. sends[m].is = "sent" /\ \A i \in 1..Length[m] : Chunk(m, i) \notin ToSet(buffer)
    BY <1>4 DEF HandedOn, Whole
  <2>2. Begun(m) /\ SentUpTo(m) = Length[m]
    BY <2>1 DEF Begun, SentUpTo
  <2> QED BY <1>1, <2>1, <2>2
<1>5. HandedOn'
  BY <1>4 DEF HandedOn, Distinct
<1> QED BY <1>3, <1>5

\* Nor is a piece lost when one is added.
LEMMA SendersLoseNone ==
    ASSUME ChannelAssumption, ChannelInv, UNCHANGED <<reassembly, arrived>>, dc' = dc,
           strained => strained', Cardinality(OnTheWay') <= MaxPending \/ strained',
           ToSet(buffer) \subseteq ToSet(buffer'),
           \A n \in Message : Begun(n) => sends'[n].id = sends[n].id,
           \A n \in Message : Begun(n)' => \A i \in 1..SentUpTo(n)' :
             (Begun(n) /\ i \in 1..SentUpTo(n)) \/ Chunk(n, i)' \in ToSet(buffer')
    PROVE  NoneLost'
<1> USE DEF ChannelInv
<1> SUFFICES ASSUME dc' = "open", ~strained' PROVE
        /\ Cardinality(OnTheWay') <= MaxPending
        /\ \A r \in ToSet(reassembly') : ~r.late
        /\ \A m \in Message : Begun(m)' /\ Length[m] <= MaxChunks =>
             \A i \in 1..SentUpTo(m)' : Somewhere(m, i)'
  BY DEF NoneLost
<1>1. dc = "open" /\ ~strained
  OBVIOUS
<1>2. ASSUME NEW m \in Message, Begun(m)', Length[m] <= MaxChunks, NEW i \in 1..SentUpTo(m)'
      PROVE  Somewhere(m, i)'
  <2>1. CASE Chunk(m, i)' \in ToSet(buffer')
    BY <2>1 DEF Somewhere
  <2>2. CASE Begun(m) /\ i \in 1..SentUpTo(m)
    <3>1. Somewhere(m, i)
      BY <1>1, <1>2, <2>2 DEF NoneLost
    <3>2. Chunk(m, i)' = Chunk(m, i) /\ sends'[m].id = sends[m].id /\ Whole(m)' = Whole(m)
      BY <2>2 DEF Chunk, Whole
    <3> QED BY <3>1, <3>2 DEF Somewhere
  <2> QED BY <1>2, <2>1, <2>2
<1> QED BY <1>1, <1>2 DEF NoneLost

\* A message that is begun takes an id that none has.
LEMMA SendKeeps ==
    ASSUME ChannelAssumption, ChannelInv, NEW m \in Message, Send(m) PROVE ChannelInv'
<1> USE DEF ChannelInv
<1>0. /\ sends[m].is = "new"
      /\ sends' = [sends EXCEPT ![m] = [is |-> "sending", id |-> msg_counter, next |-> 1]]
      /\ msg_counter' = msg_counter + 1 /\ dc = "open"
      /\ strained' = (strained \/ Cardinality(OnTheWay) >= MaxPending)
      /\ UNCHANGED <<from, to, dc, buffer, reassembly, arrived>>
  BY DEF Send
<1>1. /\ sends'[m] = [is |-> "sending", id |-> msg_counter, next |-> 1]
      /\ \A n \in Message \ {m} : sends'[n] = sends[n]
  BY <1>0 DEF ChannelTypes
<1>2. ChannelTypes'
  <2>1. msg_counter' \in Nat /\ sends' \in [Message -> Progress]
    BY <1>0 DEF ChannelTypes, Progress
  <2>2. strained' \in BOOLEAN
    BY <1>0 DEF ChannelTypes
  <2> QED BY <1>0, <2>1, <2>2 DEF ChannelTypes, Wholes, Whole
<1>3. /\ ~Begun(m) /\ Begun(m)' /\ SentUpTo(m)' = 0
      /\ \A n \in Message \ {m} : /\ Begun(n)' = Begun(n) /\ SentUpTo(n)' = SentUpTo(n)
                                  /\ \A i : Chunk(n, i)' = Chunk(n, i)
  BY <1>0, <1>1 DEF Begun, SentUpTo, Chunk
<1>4. Numbered'
  <2>1. {n \in Message : Begun(n)'} = {n \in Message : Begun(n)} \cup {m}
    BY <1>3
  <2>2. IsFiniteSet({n \in Message : Begun(n)'})
    BY <2>1, FS_AddElement DEF Numbered
  <2>3. \A n \in Message : sends'[n].is # "sent" => sends'[n].next <= Length[n]
    BY <1>1 DEF Numbered, ChannelAssumption
  <2>4. \A n \in Message : Begun(n)' => sends'[n].id < msg_counter'
    <3>1. \A n \in Message \ {m} : Begun(n) => sends[n].id < msg_counter /\ sends[n].id \in Nat
      BY DEF Numbered, ChannelTypes, Progress
    <3>2. msg_counter \in Nat
      BY DEF ChannelTypes
    <3> QED BY <1>0, <1>1, <1>3, <3>1, <3>2
  <2>5. ASSUME NEW n \in Message, NEW k \in Message, Begun(n)', Begun(k)',
               sends'[n].id = sends'[k].id
        PROVE  n = k
    <3>1. \A x \in Message \ {m} : Begun(x) => sends[x].id < msg_counter /\ sends[x].id \in Nat
      BY DEF Numbered, ChannelTypes, Progress
    <3>2. \A x \in Message \ {m} : Begun(x) => sends[x].id # msg_counter
      BY <3>1 DEF ChannelTypes
    <3>3. CASE n = m \/ k = m
      BY <1>1, <1>3, <2>5, <3>2, <3>3
    <3>4. CASE n # m /\ k # m
      BY <1>1, <1>3, <2>5, <3>4 DEF Numbered
    <3> QED BY <3>3, <3>4
  <2> QED BY <2>2, <2>3, <2>4, <2>5 DEF Numbered
<1>5. Underway'
  <2>1. ASSUME NEW c \in ToSet(buffer')
        PROVE  \E n \in Message : Begun(n)' /\ \E i \in 1..SentUpTo(n)' : c = Chunk(n, i)'
    <3>1. PICK n \in Message : Begun(n) /\ \E i \in 1..SentUpTo(n) : c = Chunk(n, i)
      BY <1>0 DEF Underway
    <3> QED BY <1>3, <3>1
  <2> QED BY <1>0, <2>1 DEF Underway, Distinct
<1>6. InPieces' /\ HandedOn'
  <2>1. \A n \in Message : Begun(n) =>
             /\ Begun(n)' /\ sends'[n].id = sends[n].id
             /\ SentUpTo(n)' \in Nat /\ SentUpTo(n) <= SentUpTo(n)'
             /\ sends[n].is = "sent" => sends'[n].is = "sent"
    BY <1>1, <1>3, SentUpToType
  <2> QED BY <1>0, <2>1, SendersGoOn
<1>7. NoneLost'
  <2>1. Cardinality(OnTheWay') <= MaxPending \/ strained'
    <3>1. OnTheWay' \subseteq OnTheWay \cup {m}
      BY <1>0, <1>1 DEF OnTheWay, Whole
    <3>2. IsFiniteSet(OnTheWay)
      <4>1. OnTheWay \subseteq {n \in Message : Begun(n)}
        BY DEF OnTheWay, Begun
      <4> QED BY <4>1, FS_Subset DEF Numbered
    <3>3. /\ IsFiniteSet(OnTheWay \cup {m}) /\ Cardinality(OnTheWay) \in Nat
          /\ Cardinality(OnTheWay \cup {m}) <= Cardinality(OnTheWay) + 1
      <4>1. Cardinality(OnTheWay) \in Nat
        BY <3>2, FS_CardinalityType
      <4>2. /\ IsFiniteSet(OnTheWay \cup {m})
            /\ \/ Cardinality(OnTheWay \cup {m}) = Cardinality(OnTheWay)
               \/ Cardinality(OnTheWay \cup {m}) = Cardinality(OnTheWay) + 1
        BY <3>2, FS_AddElement
      <4> QED BY <4>1, <4>2
    <3>4. Cardinality(OnTheWay') <= Cardinality(OnTheWay \cup {m})
      BY <3>1, <3>3, FS_Subset
    <3>5. Cardinality(OnTheWay') \in Nat /\ Cardinality(OnTheWay \cup {m}) \in Nat
      BY <3>1, <3>3, FS_Subset, FS_CardinalityType
    <3>6. ~strained' => ~(Cardinality(OnTheWay) >= MaxPending)
      BY <1>0
    <3>7. MaxPending \in Nat
      BY DEF ChannelAssumption
    <3> HIDE DEF ChannelInv
    <3> QED BY <3>3, <3>4, <3>5, <3>6, <3>7
  <2>2. \A n \in Message : Begun(n)' => \A i \in 1..SentUpTo(n)' : Begun(n) /\ i \in 1..SentUpTo(n)
    BY <1>3
  <2>3. \A n \in Message : Begun(n) => sends'[n].id = sends[n].id
    BY <1>1, <1>3
  <2> QED BY <1>0, <2>1, <2>2, <2>3, SendersLoseNone
<1> QED BY <1>2, <1>4, <1>5, <1>6, <1>7

\* A send that fails leaves what is on its way.
LEMMA ThrowsKeeps ==
    ASSUME ChannelAssumption, ChannelInv, NEW m \in Message, Throws(m) PROVE ChannelInv'
<1> USE DEF ChannelInv
<1>0. /\ sends[m].is = "sending" /\ dc = "closed"
      /\ sends' = [sends EXCEPT ![m].is = "failed"]
      /\ UNCHANGED <<from, to, dc, buffer, msg_counter, reassembly, arrived, strained>>
  BY DEF Throws, Sending
<1>1. /\ sends'[m] = [sends[m] EXCEPT !.is = "failed"]
      /\ \A n \in Message \ {m} : sends'[n] = sends[n]
  BY <1>0 DEF ChannelTypes
<1>2. /\ sends'[m].is = "failed" /\ sends'[m].id = sends[m].id /\ sends'[m].next = sends[m].next
      /\ sends'[m] \in Progress
  BY <1>1 DEF ChannelTypes, Progress
<1>3. ChannelTypes'
  <2>1. sends' \in [Message -> Progress]
    BY <1>0, <1>1, <1>2 DEF ChannelTypes
  <2> QED BY <1>0, <2>1 DEF ChannelTypes, Wholes, Whole
<1>4. \A n \in Message : /\ Begun(n)' = Begun(n) /\ SentUpTo(n)' = SentUpTo(n)
                         /\ \A i : Chunk(n, i)' = Chunk(n, i)
                         /\ sends'[n].id = sends[n].id /\ sends'[n].next = sends[n].next
                         /\ sends'[n].is = "sent" <=> sends[n].is = "sent"
  BY <1>0, <1>1, <1>2 DEF Begun, SentUpTo, Chunk
<1>5. Numbered'
  <2>1. {n \in Message : Begun(n)'} = {n \in Message : Begun(n)}
    BY <1>4
  <2>2. IsFiniteSet({n \in Message : Begun(n)'})
    BY <2>1 DEF Numbered
  <2>3. \A n \in Message : sends'[n].is # "sent" => sends'[n].next <= Length[n]
    BY <1>4 DEF Numbered
  <2>4. \A n \in Message : Begun(n)' => sends'[n].id < msg_counter'
    BY <1>0, <1>4 DEF Numbered
  <2>5. \A n, k \in Message : Begun(n)' /\ Begun(k)' /\ sends'[n].id = sends'[k].id => n = k
    BY <1>4 DEF Numbered
  <2> QED BY <2>2, <2>3, <2>4, <2>5 DEF Numbered
<1>6. Underway'
  <2>1. ASSUME NEW c \in ToSet(buffer')
        PROVE  \E n \in Message : Begun(n)' /\ \E i \in 1..SentUpTo(n)' : c = Chunk(n, i)'
    <3>1. PICK n \in Message : Begun(n) /\ \E i \in 1..SentUpTo(n) : c = Chunk(n, i)
      BY <1>0 DEF Underway
    <3> QED BY <1>4, <3>1
  <2> QED BY <1>0, <2>1 DEF Underway, Distinct
<1>7. InPieces' /\ HandedOn'
  BY <1>0, <1>4, SentUpToType, SendersGoOn
<1>8. NoneLost'
  BY <1>0 DEF NoneLost
<1> QED BY <1>3, <1>5, <1>6, <1>7, <1>8

\* The pieces that go out before the next wait are the next ones, and at most all that are left.
LEMMA PiecesOut ==
    ASSUME ChannelAssumption, ChannelInv, NEW m \in Message, Sending(m), AtOnce(m) > 0
    PROVE  /\ AtOnce(m) \in Nat \ {0}
           /\ SentUpTo(m) = sends[m].next - 1 /\ sends[m].next + AtOnce(m) <= Length[m] + 1
<1> USE DEF ChannelInv
<1>1. Length[m] \in Nat \ {0} /\ sends[m].next \in Nat \ {0} /\ Full \in Nat /\ Len(buffer) \in Nat
  BY LenProperties DEF ChannelAssumption, ChannelTypes, Progress
<1>2. sends[m].next <= Length[m] /\ SentUpTo(m) = sends[m].next - 1
  BY DEF Numbered, Sending, SentUpTo
<1> DEFINE left == Length[m] - sends[m].next + 1
           room == Full - Len(buffer) + 1
<1>3. AtOnce(m) = IF Length[m] = 1 \/ from = "cache" \/ left < room THEN left ELSE room
  BY DEF AtOnce
<1>4. left \in Int /\ room \in Int /\ sends[m].next + left = Length[m] + 1
  BY <1>1
<1>5. AtOnce(m) \in Int /\ AtOnce(m) <= left
  <2> HIDE DEF left, room
  <2> QED BY <1>3, <1>4
<1>6. sends[m].next + AtOnce(m) <= sends[m].next + left
  <2> HIDE DEF left
  <2> QED BY <1>1, <1>4, <1>5
<1> QED BY <1>2, <1>4, <1>5, <1>6

\* A list with others behind it.
LEMMA ValuesConcat ==
    ASSUME NEW A, NEW s \in Seq(A), NEW t \in Seq(A)
    PROVE  /\ s \o t \in Seq(A) /\ ToSet(s \o t) = ToSet(s) \cup ToSet(t)
           /\ Distinct(s) /\ Distinct(t) /\ ToSet(s) \cap ToSet(t) = {} => Distinct(s \o t)
<1> DEFINE u == s \o t
           a == Len(s)
           b == Len(t)
<1>1. /\ u \in Seq(A) /\ Len(u) = a + b
      /\ \A i \in 1..(a + b) : u[i] = IF i <= a THEN s[i] ELSE t[i - a]
  BY ConcatProperties
<1>2. a \in Nat /\ b \in Nat /\ DOMAIN s = 1..a /\ DOMAIN t = 1..b /\ DOMAIN u = 1..(a + b)
  BY <1>1, LenProperties
<1>3. /\ \A i \in 1..a : s[i] \in ToSet(s)
      /\ \A i \in 1..b : t[i] \in ToSet(t)
      /\ \A x \in ToSet(s) : \E i \in 1..a : s[i] = x
      /\ \A x \in ToSet(t) : \E i \in 1..b : t[i] = x
      /\ \A i \in 1..(a + b) : u[i] \in ToSet(u)
      /\ \A x \in ToSet(u) : \E i \in 1..(a + b) : u[i] = x
  BY <1>2 DEF ToSet
<1> HIDE DEF u, a, b
<1>4. /\ \A i \in 1..a : i \in 1..(a + b) /\ i <= a
      /\ \A i \in 1..b : i + a \in 1..(a + b) /\ ~(i + a <= a) /\ (i + a) - a = i
      /\ \A i \in 1..(a + b) : IF i <= a THEN i \in 1..a ELSE i - a \in 1..b
  BY <1>2
<1>5. /\ \A i \in 1..a : u[i] = s[i]
      /\ \A i \in 1..b : u[i + a] = t[i]
  BY <1>1, <1>4
<1>6. ToSet(u) = ToSet(s) \cup ToSet(t)
  <2>1. ToSet(u) \subseteq ToSet(s) \cup ToSet(t)
    <3> SUFFICES ASSUME NEW x \in ToSet(u) PROVE x \in ToSet(s) \/ x \in ToSet(t)
      OBVIOUS
    <3>1. PICK i \in 1..(a + b) : u[i] = x
      BY <1>3
    <3>2. CASE i <= a
      <4>1. i \in 1..a
        BY <1>4, <3>2
      <4> QED BY <1>3, <1>5, <3>1, <4>1
    <3>3. CASE ~(i <= a)
      <4>1. i - a \in 1..b /\ u[i] = t[i - a]
        BY <1>1, <1>4, <3>3
      <4> QED BY <1>3, <3>1, <4>1
    <3> QED BY <3>2, <3>3
  <2>2. ToSet(s) \subseteq ToSet(u)
    BY <1>3, <1>4, <1>5
  <2>3. ToSet(t) \subseteq ToSet(u)
    BY <1>3, <1>4, <1>5
  <2> QED BY <2>1, <2>2, <2>3
<1>7. ASSUME Distinct(s), Distinct(t), ToSet(s) \cap ToSet(t) = {} PROVE Distinct(u)
  <2> SUFFICES ASSUME NEW j \in 1..(a + b), NEW k \in 1..(a + b), u[j] = u[k] PROVE j = k
    BY <1>1 DEF Distinct
  <2>1. CASE j <= a /\ k <= a
    BY <1>1, <1>4, <1>7, <2>1 DEF Distinct, a
  <2>2. CASE ~(j <= a) /\ ~(k <= a)
    <3>1. j - a \in 1..b /\ k - a \in 1..b /\ t[j - a] = t[k - a]
      BY <1>1, <1>4, <2>2
    <3>2. j - a = k - a
      BY <1>7, <3>1 DEF Distinct, b
    <3> QED BY <1>2, <3>2
  <2>3. CASE j <= a /\ ~(k <= a)
    <3>1. u[j] \in ToSet(s)
      BY <1>1, <1>3, <1>4, <2>3
    <3>2. u[k] \in ToSet(t)
      BY <1>1, <1>3, <1>4, <2>3
    <3> QED BY <1>7, <3>1, <3>2
  <2>4. CASE ~(j <= a) /\ k <= a
    <3>1. u[k] \in ToSet(s)
      BY <1>1, <1>3, <1>4, <2>4
    <3>2. u[j] \in ToSet(t)
      BY <1>1, <1>3, <1>4, <2>4
    <3> QED BY <1>7, <3>1, <3>2
  <2> QED BY <2>1, <2>2, <2>3, <2>4
<1> QED BY <1>1, <1>6, <1>7 DEF u

\* The next pieces of a message are put into the channel, none of them twice.
LEMMA ProceedsKeeps ==
    ASSUME ChannelAssumption, ChannelInv, NEW m \in Message, Proceeds(m) PROVE ChannelInv'
<1> USE DEF ChannelInv
<1> DEFINE n == AtOnce(m)
           next == sends[m].next
           new == [i \in 1..n |-> Chunk(m, next + i - 1)]
<1>0. /\ Sending(m) /\ sends[m].is = "sending" /\ dc = "open" /\ n > 0
      /\ buffer' = buffer \o new
      /\ sends' = IF next + n > Length[m] THEN [sends EXCEPT ![m].is = "sent"]
                  ELSE [sends EXCEPT ![m].next = @ + n]
      /\ UNCHANGED <<from, to, dc, msg_counter, reassembly, arrived, strained>>
  BY DEF Proceeds, Sending
<1>1. /\ n \in Nat \ {0} /\ SentUpTo(m) = next - 1 /\ next + n <= Length[m] + 1
      /\ next \in Nat \ {0} /\ Length[m] \in Nat \ {0}
  BY <1>0, PiecesOut DEF ChannelAssumption, ChannelTypes, Progress
<1>2. \A k \in Message \ {m} : sends'[k] = sends[k]
  BY <1>0 DEF ChannelTypes
<1>3. /\ sends'[m] \in Progress /\ sends'[m].id = sends[m].id
      /\ sends'[m].is \in {"sending", "sent"}
      /\ SentUpTo(m)' = next + n - 1
      /\ sends'[m].is # "sent" => sends'[m].next <= Length[m]
  <2>1. sends[m] \in Progress
    BY DEF ChannelTypes
  <2> HIDE DEF n
  <2>2. CASE next + n > Length[m]
    <3>1. sends'[m] = [sends[m] EXCEPT !.is = "sent"]
      BY <1>0, <2>2 DEF ChannelTypes
    <3>2. next + n = Length[m] + 1
      BY <1>1, <2>2
    <3>3. /\ sends'[m] \in Progress /\ sends'[m].id = sends[m].id
          /\ sends'[m].is = "sent"
      BY <2>1, <3>1 DEF Progress
    <3>4. SentUpTo(m)' = Length[m]
      BY <3>3 DEF SentUpTo
    <3> QED BY <1>1, <3>2, <3>3, <3>4
  <2>3. CASE ~(next + n > Length[m])
    <3> DEFINE x == next + n
    <3>1. sends'[m] = [sends[m] EXCEPT !.next = x]
      BY <1>0, <2>3 DEF ChannelTypes
    <3>2. x \in Nat \ {0} /\ x <= Length[m] /\ x = next + n
      BY <1>1, <2>3
    <3> HIDE DEF x
    <3>3. /\ sends'[m] \in Progress /\ sends'[m].id = sends[m].id
          /\ sends'[m].is = "sending" /\ sends'[m].next = x
      BY <1>0, <2>1, <3>1, <3>2 DEF Progress
    <3>4. SentUpTo(m)' = x - 1
      BY <3>3 DEF SentUpTo
    <3>5. SentUpTo(m)' = next + n - 1
      BY <1>1, <3>2, <3>4
    <3> QED BY <3>2, <3>3, <3>5
  <2> QED BY <2>2, <2>3
<1> HIDE DEF n, next
<1>4. /\ \A k \in Message : /\ Begun(k)' = Begun(k) /\ sends'[k].id = sends[k].id
                            /\ \A i : Chunk(k, i)' = Chunk(k, i)
      /\ \A k \in Message \ {m} : SentUpTo(k)' = SentUpTo(k)
  BY <1>0, <1>2, <1>3 DEF Begun, SentUpTo, Chunk
<1>5. Begun(m)
  BY <1>0 DEF Begun
<1>6. /\ new \in Seq(Piece) /\ Distinct(new)
      /\ \A c \in ToSet(new) : \E i \in next..(next + n - 1) : c = Chunk(m, i)
      /\ \A i \in next..(next + n - 1) : Chunk(m, i) \in ToSet(new)
  <2>1. \A i \in 1..n : next + i - 1 \in next..(next + n - 1) /\ next + i - 1 \in Nat
    BY <1>1
  <2>2. \A i \in 1..n : Chunk(m, next + i - 1) \in Piece
    BY <2>1, OwnPieces
  <2>3. new \in [1..n -> Piece]
    BY <2>2
  <2>4. new \in Seq(Piece) /\ Len(new) = n
    BY <1>1, <2>3
  <2>5. DOMAIN new = 1..n /\ \A i \in 1..n : new[i] = Chunk(m, next + i - 1)
    OBVIOUS
  <2> HIDE DEF new
  <2>6. \A c \in ToSet(new) : \E i \in next..(next + n - 1) : c = Chunk(m, i)
    BY <2>1, <2>5 DEF ToSet
  <2>7. \A i \in next..(next + n - 1) : i - next + 1 \in 1..n /\ next + (i - next + 1) - 1 = i
    BY <1>1
  <2>8. \A i \in next..(next + n - 1) : Chunk(m, i) \in ToSet(new)
    <3>1. \A i \in next..(next + n - 1) : new[i - next + 1] = Chunk(m, i)
      BY <2>5, <2>7
    <3> QED BY <2>5, <2>7, <3>1 DEF ToSet
  <2>9. Distinct(new)
    <3> SUFFICES ASSUME NEW j \in 1..n, NEW k \in 1..n, new[j] = new[k] PROVE j = k
      BY <2>4 DEF Distinct
    <3>1. next + j - 1 = next + k - 1
      BY <2>5, OwnPieces
    <3> QED BY <1>1, <3>1
  <2> QED BY <2>4, <2>6, <2>8, <2>9
<1> HIDE DEF new
<1>7. ToSet(buffer) \cap ToSet(new) = {}
  <2> SUFFICES ASSUME NEW c \in ToSet(buffer), c \in ToSet(new) PROVE FALSE
    OBVIOUS
  <2>1. PICK i \in next..(next + n - 1) : c = Chunk(m, i)
    BY <1>6
  <2>2. PICK k \in Message : Begun(k) /\ \E j \in 1..SentUpTo(k) : c = Chunk(k, j)
    BY DEF Underway
  <2>3. k = m /\ i \in 1..SentUpTo(m)
    BY <2>1, <2>2, OwnPieces
  <2> QED BY <1>1, <2>3
<1>8. /\ buffer' \in Seq(Piece) /\ Distinct(buffer')
      /\ ToSet(buffer') = ToSet(buffer) \cup ToSet(new)
  BY <1>0, <1>6, <1>7, ValuesConcat DEF ChannelTypes, Underway
<1>9. ChannelTypes'
  <2>1. sends' \in [Message -> Progress]
    BY <1>0, <1>2, <1>3 DEF ChannelTypes
  <2> QED BY <1>0, <1>8, <2>1 DEF ChannelTypes, Wholes, Whole
<1>10. Numbered'
  <2>1. {k \in Message : Begun(k)'} = {k \in Message : Begun(k)}
    BY <1>4
  <2>2. IsFiniteSet({k \in Message : Begun(k)'})
    BY <2>1 DEF Numbered
  <2>3. \A k \in Message : sends'[k].is # "sent" => sends'[k].next <= Length[k]
    BY <1>2, <1>3 DEF Numbered
  <2>4. \A k \in Message : Begun(k)' => sends'[k].id < msg_counter'
    BY <1>0, <1>4 DEF Numbered
  <2>5. \A j, k \in Message : Begun(j)' /\ Begun(k)' /\ sends'[j].id = sends'[k].id => j = k
    BY <1>4 DEF Numbered
  <2> QED BY <2>2, <2>3, <2>4, <2>5 DEF Numbered
<1>11. /\ SentUpTo(m)' \in Nat /\ SentUpTo(m) <= SentUpTo(m)'
       /\ \A i \in 1..SentUpTo(m) : i \in 1..SentUpTo(m)'
       /\ \A i \in next..(next + n - 1) : i \in 1..SentUpTo(m)' /\ i \notin 1..SentUpTo(m)
       /\ \A i \in 1..SentUpTo(m)' : i \in 1..SentUpTo(m) \/ i \in next..(next + n - 1)
  BY <1>1, <1>3
<1>12. Underway'
  <2>1. ASSUME NEW c \in ToSet(buffer')
        PROVE  \E k \in Message : Begun(k)' /\ \E i \in 1..SentUpTo(k)' : c = Chunk(k, i)'
    <3>1. CASE c \in ToSet(buffer)
      <4>1. PICK k \in Message : Begun(k) /\ \E i \in 1..SentUpTo(k) : c = Chunk(k, i)
        BY <3>1 DEF Underway
      <4>2. PICK i \in 1..SentUpTo(k) : c = Chunk(k, i)
        BY <4>1
      <4>3. i \in 1..SentUpTo(k)'
        BY <1>4, <1>11
      <4> QED BY <1>4, <4>1, <4>2, <4>3
    <3>2. CASE c \in ToSet(new)
      <4>1. PICK i \in next..(next + n - 1) : c = Chunk(m, i)
        BY <1>6, <3>2
      <4> QED BY <1>4, <1>5, <1>11, <4>1
    <3> QED BY <1>8, <3>1, <3>2
  <2> QED BY <1>8, <2>1 DEF Underway
<1>13. InPieces' /\ HandedOn'
  <2>1. ASSUME NEW k \in Message, Begun(k)
        PROVE  /\ Begun(k)' /\ sends'[k].id = sends[k].id
               /\ SentUpTo(k)' \in Nat /\ SentUpTo(k) <= SentUpTo(k)'
               /\ sends[k].is = "sent" => sends'[k].is = "sent"
    <3>1. SentUpTo(k) \in Nat
      BY SentUpToType
    <3>2. CASE k = m
      BY <1>0, <1>4, <1>11, <2>1, <3>2
    <3>3. CASE k # m
      BY <1>2, <1>4, <2>1, <3>1, <3>3
    <3> QED BY <3>2, <3>3
  <2>2. ASSUME NEW k \in Message, NEW i \in 1..SentUpTo(k), Chunk(k, i) \in ToSet(buffer')
        PROVE  Chunk(k, i) \in ToSet(buffer)
    <3>1. ASSUME Chunk(k, i) \in ToSet(new) PROVE FALSE
      <4>1. PICK j \in next..(next + n - 1) : Chunk(k, i) = Chunk(m, j)
        BY <1>6, <3>1
      <4>2. k = m /\ i = j
        BY <4>1, OwnPieces
      <4> QED BY <1>11, <4>2
    <3> QED BY <1>8, <2>2, <3>1
  <2> QED BY <1>0, <2>1, <2>2, SendersGoOn
<1>14. NoneLost'
  <2>1. OnTheWay' = OnTheWay
    BY <1>0, <1>4 DEF OnTheWay, Whole, Begun
  <2>2. Cardinality(OnTheWay') <= MaxPending \/ strained'
    BY <1>0, <2>1 DEF NoneLost, ChannelTypes
  <2>3. ASSUME NEW k \in Message, Begun(k)', NEW i \in 1..SentUpTo(k)'
        PROVE  (Begun(k) /\ i \in 1..SentUpTo(k)) \/ Chunk(k, i)' \in ToSet(buffer')
    BY <1>4, <1>6, <1>8, <1>11, <2>3
  <2> QED BY <1>0, <1>4, <1>8, <2>2, <2>3, SendersLoseNone
<1> QED BY <1>9, <1>10, <1>12, <1>13, <1>14

-----------------------------------------------------------------------------
(* What the operators on lists of entries return *)

Fresh(c) == [id |-> c.id, total |-> c.total, got |-> <<>>, late |-> FALSE]

\* The entry a message begins with.
LEMMA FreshEntry == ASSUME NEW c \in Piece PROVE Fresh(c) \in Entry /\ DOMAIN Fresh(c).got = {}
<1>1. c.id \in Nat /\ c.total \in Nat
  BY DEF Piece
<1>2. DOMAIN <<>> = {} /\ <<>> \in [{} -> Part]
  OBVIOUS
<1>3. [{} -> Part] \subseteq Gathered
  BY DEF Gathered
<1> QED BY <1>1, <1>2, <1>3 DEF Fresh, Entry

\* With room for c's message: its entry there, the others too unless the oldest had to go.
LEMMA OpenedEntries ==
    ASSUME ChannelAssumption, NEW R \in Seq(Entry), Separate(R), NEW c \in Piece
    PROVE  /\ StreamOpened(R, c) \in Seq(Entry) /\ Separate(StreamOpened(R, c))
           /\ Known(StreamOpened(R, c), c.id)
           /\ \A r \in ToSet(StreamOpened(R, c)) :
                r \in ToSet(R) \/ (r = Fresh(c) /\ ~Known(R, c.id))
           /\ to = "web" /\ Len(R) <= MaxPending => Len(StreamOpened(R, c)) <= MaxPending
           /\ Known(R, c.id) \/ to # "web" \/ Len(R) < MaxPending =>
                ToSet(R) \subseteq ToSet(StreamOpened(R, c))
<1> DEFINE O == StreamOpened(R, c)
<1>0. Len(R) \in Nat /\ DOMAIN R = 1..Len(R) /\ MaxPending \in Nat \ {0}
  BY LenProperties DEF ChannelAssumption
<1>1. CASE Known(R, c.id)
  <2>1. O = R
    BY <1>1 DEF StreamOpened
  <2> HIDE DEF O
  <2> QED BY <1>1, <2>1 DEF O
<1>2. CASE ~Known(R, c.id)
  <2> DEFINE Q == IF to = "web" /\ Len(R) >= MaxPending THEN Tail(R) ELSE R
             f == Fresh(c)
  <2>1. O = Append(Q, f)
    BY <1>2 DEF StreamOpened, Fresh
  <2>2. \A j \in 1..Len(R) : R[j].id # c.id
    BY <1>0, <1>2 DEF Known
  <2>3. /\ Q \in Seq(Entry) /\ Separate(Q) /\ \A j \in 1..Len(Q) : Q[j].id # c.id
        /\ ToSet(Q) \subseteq ToSet(R)
        /\ to = "web" /\ Len(R) <= MaxPending => Len(Q) < MaxPending
        /\ to # "web" \/ Len(R) < MaxPending => Q = R
    <3>1. CASE ~(to = "web" /\ Len(R) >= MaxPending)
      <4>1. Q = R
        BY <3>1
      <4> HIDE DEF Q
      <4> QED BY <1>0, <2>2, <3>1, <4>1
    <3>2. CASE to = "web" /\ Len(R) >= MaxPending
      <4> DEFINE t == Tail(R)
      <4>1. Q = t
        BY <3>2
      <4>2. R # <<>>
        BY <1>0, <3>2, EmptySeq
      <4>3. /\ t \in Seq(Entry) /\ Len(t) = Len(R) - 1
            /\ \A j \in 1..Len(t) : t[j] = R[j + 1] /\ j + 1 \in 1..Len(R)
            /\ ToSet(R) = ToSet(t) \cup {Head(R)}
        BY <4>2, ValuesTail
      <4> HIDE DEF t, Q
      <4>4. \A j \in 1..Len(t) : t[j].id # c.id
        BY <2>2, <4>3
      <4>5. Separate(t)
        <5> SUFFICES ASSUME NEW j \in 1..Len(t), NEW k \in 1..Len(t), t[j].id = t[k].id PROVE j = k
          BY DEF Separate
        <5>1. j + 1 = k + 1
          BY <4>3 DEF Separate
        <5> QED BY <5>1
      <4>6. Len(R) <= MaxPending => Len(t) < MaxPending
        BY <1>0, <4>3
      <4> QED BY <1>0, <3>2, <4>1, <4>3, <4>4, <4>5, <4>6
    <3> QED BY <3>1, <3>2
  <2>4. f \in Entry /\ f.id = c.id
    BY FreshEntry DEF Fresh
  <2> HIDE DEF O, Q, f
  <2>5. /\ O \in Seq(Entry) /\ Len(O) = Len(Q) + 1 /\ ToSet(O) = ToSet(Q) \cup {f}
        /\ \A j \in 1..Len(Q) : O[j] = Q[j]
        /\ O[Len(Q) + 1] = f
    BY <2>1, <2>3, <2>4, ValuesAppend
  <2>6. Len(Q) \in Nat /\ DOMAIN O = 1..(Len(Q) + 1)
    BY <2>3, <2>5, LenProperties
  <2>7. \A j \in 1..(Len(Q) + 1) : j \in 1..Len(Q) \/ j = Len(Q) + 1
    BY <2>6
  <2>8. Separate(O)
    BY <2>3, <2>4, <2>5, <2>7 DEF Separate
  <2>9. Known(O, c.id)
    <3>1. Len(Q) + 1 \in DOMAIN O
      BY <2>6
    <3> QED BY <2>4, <2>5, <3>1 DEF Known
  <2>10. to = "web" /\ Len(R) <= MaxPending => Len(O) <= MaxPending
    BY <1>0, <2>3, <2>5, <2>6
  <2>11. \A r \in ToSet(O) : r \in ToSet(R) \/ (r = Fresh(c) /\ ~Known(R, c.id))
    BY <1>2, <2>3, <2>5 DEF f
  <2>12. to # "web" \/ Len(R) < MaxPending => ToSet(R) \subseteq ToSet(O)
    BY <2>3, <2>5
  <2> QED BY <1>2, <2>5, <2>8, <2>9, <2>10, <2>11, <2>12 DEF O
<1> QED BY <1>1, <1>2

\* With c in its place: its entry has it, the others are as they were.
LEMMA FilledEntries ==
    ASSUME NEW R \in Seq(Entry), Separate(R), NEW c \in Piece, Known(R, c.id)
    PROVE  LET F == Filled(R, c)
               o == StreamEntry(R, c.id)
               e == StreamEntry(F, c.id)
           IN  /\ F \in Seq(Entry) /\ Len(F) = Len(R) /\ Separate(F)
               /\ o \in ToSet(R) /\ o.id = c.id
               /\ e \in ToSet(F) /\ e.id = c.id /\ e.total = o.total /\ e.late = o.late
               /\ DOMAIN e.got = DOMAIN o.got \cup {c.seq}
               /\ \A s \in DOMAIN e.got :
                    e.got[s] = IF s \in DOMAIN o.got THEN o.got[s] ELSE c.part
               /\ \A r \in ToSet(F) : r = e \/ (r.id # c.id /\ r \in ToSet(R))
               /\ \A r \in ToSet(R) : r = o \/ (r.id # c.id /\ r \in ToSet(F))
<1> DEFINE F == Filled(R, c)
           o == StreamEntry(R, c.id)
           e == StreamEntry(F, c.id)
           Fill(r) == IF r.id # c.id \/ c.seq \in DOMAIN r.got THEN r
                      ELSE [r EXCEPT !.got = [s \in DOMAIN @ \cup {c.seq} |->
                                                IF s = c.seq THEN c.part ELSE @[s]]]
<1>0. /\ Len(R) \in Nat /\ DOMAIN R = 1..Len(R) /\ ToSet(R) \subseteq Entry
      /\ \A j \in 1..Len(R) : R[j] \in ToSet(R) /\ R[j] \in Entry
      /\ \A x \in ToSet(R) : \E j \in 1..Len(R) : R[j] = x
  BY Values
<1>1. F = [j \in 1..Len(R) |-> Fill(R[j])]
  BY <1>0 DEF Filled
<1>2. ASSUME NEW r \in Entry
      PROVE  /\ Fill(r) \in Entry /\ Fill(r).id = r.id /\ Fill(r).total = r.total
             /\ Fill(r).late = r.late /\ (r.id # c.id => Fill(r) = r)
             /\ r.id = c.id =>
                  /\ DOMAIN Fill(r).got = DOMAIN r.got \cup {c.seq}
                  /\ \A s \in DOMAIN Fill(r).got :
                       Fill(r).got[s] = IF s \in DOMAIN r.got THEN r.got[s] ELSE c.part
  <2>1. CASE r.id # c.id \/ c.seq \in DOMAIN r.got
    BY <2>1
  <2>2. CASE ~(r.id # c.id \/ c.seq \in DOMAIN r.got)
    <3> DEFINE g == [s \in DOMAIN r.got \cup {c.seq} |-> IF s = c.seq THEN c.part ELSE r.got[s]]
    <3>1. Fill(r) = [r EXCEPT !.got = g]
      BY <2>2
    <3>2. PICK S \in SUBSET Nat : r.got \in [S -> Part]
      BY DEF Entry, Gathered
    <3>3. c.seq \in Nat /\ c.part \in Part
      BY DEF Piece
    <3>4. g \in [S \cup {c.seq} -> Part]
      BY <3>2, <3>3
    <3>5. g \in Gathered
      BY <3>2, <3>3, <3>4 DEF Gathered
    <3>6. /\ DOMAIN g = DOMAIN r.got \cup {c.seq}
          /\ \A s \in DOMAIN g : g[s] = IF s \in DOMAIN r.got THEN r.got[s] ELSE c.part
      BY <2>2
    <3> HIDE DEF Fill, g
    <3>7. /\ Fill(r) \in Entry /\ Fill(r).id = r.id /\ Fill(r).total = r.total
          /\ Fill(r).late = r.late /\ Fill(r).got = g
      BY <3>1, <3>5 DEF Entry
    <3> QED BY <2>2, <3>6, <3>7
  <2> QED BY <2>1, <2>2
<1> HIDE DEF Fill, F
<1>3. F \in [1..Len(R) -> Entry]
  BY <1>0, <1>1, <1>2
<1>4. F \in Seq(Entry) /\ Len(F) = Len(R) /\ DOMAIN F = 1..Len(R)
  BY <1>0, <1>3
<1>5. \A j \in 1..Len(R) : F[j] = Fill(R[j]) /\ F[j].id = R[j].id
  BY <1>0, <1>1, <1>2
<1>6. Separate(F)
  BY <1>4, <1>5 DEF Separate
<1>7. /\ \A j \in 1..Len(R) : F[j] \in ToSet(F)
      /\ \A x \in ToSet(F) : \E j \in 1..Len(R) : F[j] = x
  BY <1>4 DEF ToSet
<1>8. PICK k \in 1..Len(R) : R[k].id = c.id
  BY <1>0 DEF Known
<1>9. \A j \in 1..Len(R) : R[j].id = c.id => j = k
  BY <1>8 DEF Separate
<1>10. o = R[k]
  BY <1>0, <1>8, <1>9 DEF StreamEntry
<1>11. e = F[k]
  BY <1>4, <1>5, <1>8, <1>9 DEF StreamEntry
<1> HIDE DEF o, e
<1>12. /\ e.id = c.id /\ e.total = o.total /\ e.late = o.late
       /\ DOMAIN e.got = DOMAIN o.got \cup {c.seq}
       /\ \A s \in DOMAIN e.got : e.got[s] = IF s \in DOMAIN o.got THEN o.got[s] ELSE c.part
  BY <1>0, <1>2, <1>5, <1>8, <1>10, <1>11
<1>13. \A r \in ToSet(F) : r = e \/ (r.id # c.id /\ r \in ToSet(R))
  BY <1>0, <1>2, <1>5, <1>7, <1>9, <1>11
<1>14. \A r \in ToSet(R) : r = o \/ (r.id # c.id /\ r \in ToSet(F))
  BY <1>0, <1>2, <1>5, <1>7, <1>9, <1>10
<1> QED BY <1>0, <1>4, <1>6, <1>7, <1>8, <1>10, <1>11, <1>12, <1>13, <1>14 DEF F, o, e

\* Entries that go, or only grow old, take nothing from what was handed on.
LEMMA EntriesGo ==
    ASSUME ChannelAssumption, ChannelInv, NoneLost', strained' \in BOOLEAN, dc' \in {"open", "closed"},
           UNCHANGED <<from, to, buffer, sends, msg_counter, arrived>>,
           reassembly' \in Seq(Entry), Separate(reassembly'), Len(reassembly') <= Len(reassembly),
           \A r \in ToSet(reassembly') : \E q \in ToSet(reassembly) :
             r.id = q.id /\ r.total = q.total /\ r.got = q.got
    PROVE  ChannelInv'
<1> USE DEF ChannelInv
<1>1. /\ \A m \in Message : Begun(m)' = Begun(m) /\ SentUpTo(m)' = SentUpTo(m)
      /\ \A m \in Message : Whole(m)' = Whole(m) /\ \A i : Chunk(m, i)' = Chunk(m, i)
  BY DEF Begun, SentUpTo, Whole, Chunk
<1>2. ChannelTypes'
  BY DEF ChannelTypes, Wholes, Whole
<1>3. Numbered' /\ HandedOn'
  <2>1. {m \in Message : Begun(m)'} = {m \in Message : Begun(m)}
    BY <1>1
  <2>2. Numbered'
    BY <1>1, <2>1 DEF Numbered
  <2> QED BY <1>1, <2>2 DEF HandedOn, Distinct
<1>4. Underway'
  <2>1. ASSUME NEW c \in ToSet(buffer')
        PROVE  \E m \in Message : Begun(m)' /\ \E i \in 1..SentUpTo(m)' : c = Chunk(m, i)'
    BY <1>1 DEF Underway
  <2> QED BY <2>1 DEF Underway, Distinct
<1>5. InPieces'
  <2>1. ASSUME NEW r \in ToSet(reassembly') PROVE \E m \in Message : PiecesOf(r, m)'
    <3>1. PICK q \in ToSet(reassembly) : r.id = q.id /\ r.total = q.total /\ r.got = q.got
      OBVIOUS
    <3>2. PICK m \in Message : PiecesOf(q, m)
      BY DEF InPieces
    <3>3. PiecesOf(r, m)'
      BY <1>1, <3>1, <3>2 DEF PiecesOf
    <3> QED BY <3>3
  <2>2. to' = "web" => Len(reassembly') <= MaxPending
    <3>1. Len(reassembly') \in Nat /\ Len(reassembly) \in Nat /\ MaxPending \in Nat
      BY LenProperties DEF ChannelTypes, ChannelAssumption
    <3>2. to = "web" => Len(reassembly) <= MaxPending
      BY DEF InPieces
    <3> HIDE DEF ChannelInv
    <3> QED BY <3>1, <3>2
  <2>3. Separate(reassembly)'
    BY DEF Separate
  <2> QED BY <2>1, <2>2, <2>3 DEF InPieces
<1> QED BY <1>2, <1>3, <1>4, <1>5

\* Closing drops the entries, and promises no more.
LEMMA CloseKeeps == ASSUME ChannelAssumption, ChannelInv, Close PROVE ChannelInv'
<1>1. /\ dc' = "closed" /\ reassembly' = <<>>
      /\ UNCHANGED <<from, to, buffer, sends, msg_counter, arrived, strained>>
  BY DEF Close
<1>2. NoneLost'
  BY <1>1 DEF NoneLost
<1>3. /\ reassembly' \in Seq(Entry) /\ Len(reassembly') = 0 /\ ToSet(reassembly') = {}
  BY <1>1, EmptySeq DEF ToSet
<1>4. Separate(reassembly') /\ Len(reassembly') <= Len(reassembly)
  <2>1. Len(reassembly) \in Nat
    BY LenProperties DEF ChannelInv, ChannelTypes
  <2> QED BY <1>3, <2>1 DEF Separate
<1>5. strained' \in BOOLEAN
  BY <1>1 DEF ChannelInv, ChannelTypes
<1> QED BY <1>1, <1>2, <1>3, <1>4, <1>5, EntriesGo

\* What has timed out is marked, and strains the channel.
LEMMA TimesOutKeeps == ASSUME ChannelAssumption, ChannelInv, TimesOut PROVE ChannelInv'
<1> DEFINE Aged(r) == [r EXCEPT !.late = TRUE]
<1>1. /\ reassembly' = [i \in DOMAIN reassembly |-> Aged(reassembly[i])] /\ strained' = TRUE
      /\ UNCHANGED <<from, to, dc, buffer, sends, msg_counter, arrived>>
  BY DEF TimesOut
<1>2. NoneLost'
  BY <1>1 DEF NoneLost
<1>3. /\ Len(reassembly) \in Nat /\ DOMAIN reassembly = 1..Len(reassembly)
      /\ \A i \in 1..Len(reassembly) : reassembly[i] \in Entry
      /\ \A i \in 1..Len(reassembly) : reassembly[i] \in ToSet(reassembly)
  BY Values DEF ChannelInv, ChannelTypes
<1>4. \A r \in Entry : /\ Aged(r) \in Entry /\ Aged(r).id = r.id /\ Aged(r).total = r.total
                       /\ Aged(r).got = r.got
  BY DEF Entry
<1> HIDE DEF Aged
<1>5. reassembly' \in [1..Len(reassembly) -> Entry]
  BY <1>1, <1>3, <1>4
<1>6. /\ reassembly' \in Seq(Entry) /\ Len(reassembly') = Len(reassembly)
      /\ DOMAIN reassembly' = 1..Len(reassembly)
  BY <1>3, <1>5
<1>7. \A i \in 1..Len(reassembly) :
        /\ reassembly'[i].id = reassembly[i].id /\ reassembly'[i].total = reassembly[i].total
        /\ reassembly'[i].got = reassembly[i].got
  BY <1>1, <1>3, <1>4
<1>8. Separate(reassembly')
  BY <1>6, <1>7 DEF Separate, ChannelInv, InPieces
<1>9. \A r \in ToSet(reassembly') : \E q \in ToSet(reassembly) :
        r.id = q.id /\ r.total = q.total /\ r.got = q.got
  <2> SUFFICES ASSUME NEW r \in ToSet(reassembly')
               PROVE  \E q \in ToSet(reassembly) : r.id = q.id /\ r.total = q.total /\ r.got = q.got
    OBVIOUS
  <2>1. PICK i \in 1..Len(reassembly) : r = reassembly'[i]
    BY <1>6 DEF ToSet
  <2> QED BY <1>3, <1>7, <2>1
<1>10. dc' \in {"open", "closed"}
  BY <1>1 DEF ChannelInv, ChannelTypes
<1> QED BY <1>1, <1>2, <1>3, <1>6, <1>8, <1>9, <1>10, EntriesGo

\* The entries that are not late; all of them while nothing timed out.
LEMMA YoungEntries ==
    ASSUME ChannelInv
    PROVE  /\ Young \in Seq(Entry) /\ Separate(Young) /\ Len(Young) <= Len(reassembly)
           /\ ToSet(Young) \subseteq ToSet(reassembly)
           /\ dc = "open" /\ ~strained => ToSet(Young) = ToSet(reassembly)
<1> DEFINE S == {r \in ToSet(reassembly) : ~r.late}
<1>1. reassembly \in Seq(Entry) /\ Separate(reassembly) /\ Young = Only(reassembly, S)
  BY DEF ChannelInv, ChannelTypes, InPieces, Young
<1>2. dc = "open" /\ ~strained => ToSet(reassembly) \cap S = ToSet(reassembly)
  BY DEF ChannelInv, NoneLost
<1> HIDE DEF S
<1>3. /\ Only(reassembly, S) \in Seq(Entry) /\ Len(Only(reassembly, S)) <= Len(reassembly)
      /\ ToSet(Only(reassembly, S)) = ToSet(reassembly) \cap S
      /\ Separate(reassembly) => Separate(Only(reassembly, S))
  BY <1>1, OnlyEntries
<1>4. /\ Young \in Seq(Entry) /\ Separate(Young) /\ Len(Young) <= Len(reassembly)
      /\ ToSet(Young) = ToSet(reassembly) \cap S
  BY <1>1, <1>3
<1> QED BY <1>2, <1>4

\* The cleanup timer takes away only what has timed out.
LEMMA CleanupKeeps == ASSUME ChannelAssumption, ChannelInv, CleanupTimer PROVE ChannelInv'
<1>1. /\ reassembly' = Young
      /\ UNCHANGED <<from, to, dc, buffer, sends, msg_counter, arrived, strained>>
  BY DEF CleanupTimer
<1>2. /\ reassembly' \in Seq(Entry) /\ Separate(reassembly') /\ Len(reassembly') <= Len(reassembly)
      /\ ToSet(reassembly') \subseteq ToSet(reassembly)
      /\ dc = "open" /\ ~strained => ToSet(reassembly') = ToSet(reassembly)
  BY <1>1, YoungEntries
<1>3. NoneLost'
  <2>1. OnTheWay' = OnTheWay
    BY <1>1 DEF OnTheWay, Whole
  <2>2. \A m \in Message : Begun(m)' = Begun(m) /\ SentUpTo(m)' = SentUpTo(m)
    BY <1>1 DEF Begun, SentUpTo
  <2>3. dc = "open" /\ ~strained => \A m \in Message : \A i : Somewhere(m, i) => Somewhere(m, i)'
    BY <1>1, <1>2 DEF Somewhere, Chunk, Whole
  <2> QED BY <1>1, <1>2, <2>1, <2>2, <2>3 DEF ChannelInv, NoneLost
<1>4. strained' \in BOOLEAN /\ dc' \in {"open", "closed"}
  BY <1>1 DEF ChannelInv, ChannelTypes
<1>5. \A r \in ToSet(reassembly') : \E q \in ToSet(reassembly) :
        r.id = q.id /\ r.total = q.total /\ r.got = q.got
  BY <1>2
<1> QED BY <1>1, <1>2, <1>3, <1>4, <1>5, EntriesGo

\* The i-th piece of m is taken from the channel.
Takes(m, i) ==
    /\ buffer # <<>> /\ Head(buffer) = Chunk(m, i) /\ Begun(m) /\ i \in 1..SentUpTo(m)
    /\ buffer' = Tail(buffer) /\ UNCHANGED <<from, to, dc, sends, msg_counter, strained>>

\* What the pieces that came of m, the new one among them, make of it.
Gathers(r, m) ==
    /\ r.id = sends[m].id /\ r.total = Length[m] /\ Length[m] # 1
    /\ DOMAIN r.got \subseteq 1..SentUpTo(m) /\ DOMAIN r.got # 1..Length[m]
    /\ \A k \in DOMAIN r.got : r.got[k] = <<m, k>> /\ Chunk(m, k) \notin ToSet(buffer')

\* A piece that is taken is not in the channel again, and its message was not handed on.
LEMMA TakenOnce ==
    ASSUME ChannelAssumption, ChannelInv, NEW m \in Message, NEW i, Takes(m, i)
    PROVE  /\ buffer' \in Seq(Piece) /\ Distinct(buffer')
           /\ Chunk(m, i) \in ToSet(buffer) /\ Whole(m) \notin ToSet(arrived)
           /\ ToSet(buffer') = ToSet(buffer) \ {Chunk(m, i)}
<1> DEFINE t == Tail(buffer)
           c == Chunk(m, i)
<1>1. /\ buffer \in Seq(Piece) /\ buffer # <<>> /\ Head(buffer) = c /\ buffer' = t
      /\ Begun(m) /\ i \in 1..SentUpTo(m) /\ Distinct(buffer)
  BY DEF ChannelInv, ChannelTypes, Underway, Takes
<1>2. /\ t \in Seq(Piece) /\ Len(t) = Len(buffer) - 1 /\ Len(buffer) \in Nat \ {0}
      /\ c \in ToSet(buffer) /\ buffer[1] = c
      /\ \A j \in 1..Len(t) : t[j] = buffer[j + 1] /\ j + 1 \in 1..Len(buffer)
      /\ ToSet(buffer) = ToSet(t) \cup {c}
  BY <1>1, ValuesTail
<1> HIDE DEF t, c
<1>3. /\ 1 \in 1..Len(buffer) /\ DOMAIN t = 1..Len(t)
      /\ \A x \in ToSet(t) : \E j \in 1..Len(t) : t[j] = x
  BY <1>2, Values
<1>4. c \notin ToSet(t)
  <2> SUFFICES ASSUME c \in ToSet(t) PROVE FALSE
    OBVIOUS
  <2>1. PICK j \in 1..Len(t) : t[j] = c
    BY <1>3
  <2>2. buffer[j + 1] = buffer[1] /\ j + 1 \in 1..Len(buffer)
    BY <1>2, <2>1
  <2>3. j + 1 = 1
    BY <1>1, <1>3, <2>2 DEF Distinct
  <2> QED BY <2>1, <2>3
<1>5. Distinct(t)
  <2> SUFFICES ASSUME NEW j \in 1..Len(t), NEW k \in 1..Len(t), t[j] = t[k] PROVE j = k
    BY DEF Distinct
  <2>1. j + 1 = k + 1
    BY <1>1, <1>2 DEF Distinct
  <2> QED BY <2>1
<1>6. Whole(m) \notin ToSet(arrived)
  <2> SUFFICES ASSUME Whole(m) \in ToSet(arrived) PROVE FALSE
    OBVIOUS
  <2>1. sends[m].is = "sent" /\ \A k \in 1..Length[m] : Chunk(m, k) \notin ToSet(buffer)
    BY DEF ChannelInv, HandedOn
  <2>2. i \in 1..Length[m]
    BY <1>1, <2>1 DEF SentUpTo
  <2> QED BY <1>2, <2>1, <2>2 DEF c
<1> QED BY <1>1, <1>2, <1>4, <1>5, <1>6 DEF c

\* What has to hold of the entries, and of what is handed on, when a piece is taken.
LEMMA Receipt ==
    ASSUME ChannelAssumption, ChannelInv, NEW m \in Message, NEW i, Takes(m, i),
           reassembly' \in Seq(Entry), Separate(reassembly'),
           to = "web" => Len(reassembly') <= MaxPending,
           \A r \in ToSet(reassembly') :
             \/ r \in ToSet(reassembly) /\ r.id # sends[m].id
             \/ Gathers(r, m) /\ arrived' = arrived,
           \/ arrived' = arrived
           \/ /\ arrived' = Append(arrived, Whole(m)) /\ sends[m].is = "sent"
              /\ \A k \in 1..Length[m] : Chunk(m, k) \notin ToSet(buffer'),
           dc = "open" /\ ~strained =>
             /\ \A r \in ToSet(reassembly') : ~r.late
             /\ \A r \in ToSet(reassembly) : r.id # sends[m].id => r \in ToSet(reassembly')
             /\ Length[m] <= MaxChunks => \A k \in 1..SentUpTo(m) :
                  \/ Chunk(m, k) \in ToSet(buffer') \/ Whole(m) \in ToSet(arrived')
                  \/ \E r \in ToSet(reassembly') : r.id = sends[m].id /\ k \in DOMAIN r.got
    PROVE  ChannelInv'
<1> USE DEF ChannelInv
<1>0. /\ UNCHANGED <<from, to, dc, sends, msg_counter, strained>>
      /\ Begun(m) /\ i \in 1..SentUpTo(m)
  BY DEF Takes
<1>1. /\ buffer' \in Seq(Piece) /\ Distinct(buffer')
      /\ Whole(m) \notin ToSet(arrived)
      /\ ToSet(buffer') = ToSet(buffer) \ {Chunk(m, i)}
  BY TakenOnce
<1>2. /\ \A n \in Message : Begun(n)' = Begun(n) /\ SentUpTo(n)' = SentUpTo(n)
      /\ \A n \in Message : Whole(n)' = Whole(n) /\ \A k : Chunk(n, k)' = Chunk(n, k)
  BY <1>0 DEF Begun, SentUpTo, Whole, Chunk
<1>3. /\ arrived' \in Seq(Wholes) /\ Distinct(arrived')
      /\ ToSet(arrived) \subseteq ToSet(arrived')
      /\ \A n \in Message \ {m} : Whole(n) \in ToSet(arrived') => Whole(n) \in ToSet(arrived)
  <2>1. arrived \in Seq(Wholes) /\ Distinct(arrived)
    BY DEF ChannelTypes, HandedOn
  <2>2. CASE arrived' = arrived
    BY <2>1, <2>2
  <2>3. CASE arrived' = Append(arrived, Whole(m))
    <3> DEFINE w == Whole(m)
    <3>1. w \in Wholes
      BY DEF Wholes
    <3>2. w \notin ToSet(arrived) /\ arrived' = Append(arrived, w)
      BY <1>1, <2>3
    <3>3. \A n \in Message : Whole(n) = w => n = m
      BY OwnPieces
    <3> HIDE DEF w, ChannelInv
    <3>4. /\ arrived' \in Seq(Wholes) /\ Len(arrived') = Len(arrived) + 1
          /\ ToSet(arrived') = ToSet(arrived) \cup {w}
          /\ \A j \in 1..Len(arrived) : arrived'[j] = arrived[j]
          /\ arrived'[Len(arrived) + 1] = w
      BY <2>1, <3>1, <3>2, ValuesAppend
    <3>5. Len(arrived) \in Nat /\ \A j \in 1..Len(arrived) : arrived[j] \in ToSet(arrived)
      BY <2>1, Values
    <3>6. \A j \in 1..(Len(arrived) + 1) : j \in 1..Len(arrived) \/ j = Len(arrived) + 1
      BY <3>5
    <3>7. Distinct(arrived')
      BY <2>1, <3>2, <3>4, <3>5, <3>6 DEF Distinct
    <3> QED BY <3>3, <3>4, <3>7
  <2> QED BY <2>2, <2>3
<1>4. ChannelTypes'
  <2>1. Wholes' = Wholes
    BY DEF Wholes, Whole
  <2> QED BY <1>0, <1>1, <1>3, <2>1 DEF ChannelTypes
<1>5. Numbered'
  <2>1. {n \in Message : Begun(n)'} = {n \in Message : Begun(n)}
    BY <1>2
  <2> QED BY <1>0, <1>2, <2>1 DEF Numbered
<1>6. Underway'
  <2>1. ASSUME NEW c \in ToSet(buffer')
        PROVE  \E n \in Message : Begun(n)' /\ \E k \in 1..SentUpTo(n)' : c = Chunk(n, k)'
    <3>1. PICK n \in Message : Begun(n) /\ \E k \in 1..SentUpTo(n) : c = Chunk(n, k)
      BY <1>1 DEF Underway
    <3> QED BY <1>2, <3>1
  <2> QED BY <1>1, <2>1 DEF Underway
<1>7. InPieces'
  <2>1. ASSUME NEW r \in ToSet(reassembly') PROVE \E n \in Message : PiecesOf(r, n)'
    <3>1. CASE r \in ToSet(reassembly) /\ r.id # sends[m].id
      <4>1. PICK n \in Message : PiecesOf(r, n)
        BY <3>1 DEF InPieces
      <4>2. n # m
        BY <3>1, <4>1 DEF PiecesOf
      <4>3. Whole(n) \notin ToSet(arrived')
        BY <1>3, <4>1, <4>2 DEF PiecesOf
      <4>4. PiecesOf(r, n)'
        BY <1>0, <1>1, <1>2, <4>1, <4>3 DEF PiecesOf
      <4> QED BY <4>4
    <3>2. CASE Gathers(r, m) /\ arrived' = arrived
      <4>1. PiecesOf(r, m)'
        BY <1>0, <1>1, <1>2, <3>2 DEF PiecesOf, Gathers
      <4> QED BY <4>1
    <3> QED BY <3>1, <3>2
  <2>2. Separate(reassembly)'
    BY DEF Separate
  <2> QED BY <1>0, <2>1, <2>2 DEF InPieces
<1>8. HandedOn'
  <2>1. ASSUME NEW n \in Message, Whole(n)' \in ToSet(arrived')
        PROVE  sends'[n].is = "sent" /\ \A k \in 1..Length[n] : Chunk(n, k)' \notin ToSet(buffer')
    <3>1. CASE Whole(n) \in ToSet(arrived)
      BY <1>0, <1>1, <1>2, <3>1 DEF HandedOn
    <3>2. CASE Whole(n) \notin ToSet(arrived)
      <4>1. n = m /\ arrived' # arrived
        BY <1>2, <1>3, <2>1, <3>2
      <4> QED BY <1>0, <1>2, <4>1
    <3> QED BY <3>1, <3>2
  <2>2. Distinct(arrived)'
    BY <1>3 DEF Distinct
  <2> QED BY <2>1, <2>2 DEF HandedOn
<1>9. NoneLost'
  <2> SUFFICES ASSUME dc = "open", ~strained PROVE
        /\ Cardinality(OnTheWay') <= MaxPending
        /\ \A r \in ToSet(reassembly') : ~r.late
        /\ \A n \in Message : Begun(n) /\ Length[n] <= MaxChunks =>
             \A k \in 1..SentUpTo(n) : Somewhere(n, k)'
    BY <1>0, <1>2 DEF NoneLost
  <2>1. Cardinality(OnTheWay') <= MaxPending
    <3>1. OnTheWay' \subseteq OnTheWay
      BY <1>0, <1>2, <1>3 DEF OnTheWay
    <3>2. IsFiniteSet(OnTheWay)
      <4>1. OnTheWay \subseteq {n \in Message : Begun(n)}
        BY DEF OnTheWay, Begun
      <4> QED BY <4>1, FS_Subset DEF Numbered
    <3>3. Cardinality(OnTheWay') <= Cardinality(OnTheWay) /\ IsFiniteSet(OnTheWay')
      BY <3>1, <3>2, FS_Subset
    <3>4. Cardinality(OnTheWay') \in Nat /\ Cardinality(OnTheWay) \in Nat /\ MaxPending \in Nat
      BY <3>2, <3>3, FS_CardinalityType DEF ChannelAssumption
    <3>5. Cardinality(OnTheWay) <= MaxPending
      BY DEF NoneLost
    <3> HIDE DEF ChannelInv
    <3> QED BY <3>3, <3>4, <3>5
  <2>2. ASSUME NEW n \in Message, Begun(n), Length[n] <= MaxChunks, NEW k \in 1..SentUpTo(n)
        PROVE  Somewhere(n, k)'
    <3>1. CASE n = m
      BY <1>0, <1>2, <2>2, <3>1 DEF Somewhere
    <3>2. CASE n # m
      <4>1. Somewhere(n, k)
        BY <2>2 DEF NoneLost
      <4>2. Chunk(n, k) # Chunk(m, i)
        BY <3>2, OwnPieces
      <4>3. sends[n].id # sends[m].id
        BY <1>0, <2>2, <3>2 DEF Numbered
      <4> QED BY <1>0, <1>1, <1>2, <1>3, <4>1, <4>2, <4>3 DEF Somewhere
    <3> QED BY <3>1, <3>2
  <2> QED BY <2>1, <2>2
<1> QED BY <1>4, <1>5, <1>6, <1>7, <1>8, <1>9

\* While nothing timed out and there was room, the browser drops no entry for the piece
\* that begins another message: that message is on its way too.
LEMMA RoomForOne ==
    ASSUME ChannelAssumption, ChannelInv, NEW m \in Message, NEW i, Takes(m, i),
           dc = "open", ~strained, ~Known(reassembly, sends[m].id)
    PROVE  Len(reassembly) < MaxPending
<1> DEFINE R == reassembly
           W == OnTheWay \ {m}
           f == [j \in 1..Len(R) |-> CHOOSE n \in Message : PiecesOf(R[j], n)]
<1>0. /\ Len(R) \in Nat /\ DOMAIN R = 1..Len(R)
      /\ \A j \in 1..Len(R) : R[j] \in ToSet(R) /\ R[j].id # sends[m].id
  <2>1. R \in Seq(Entry)
    BY DEF ChannelInv, ChannelTypes
  <2> HIDE DEF R
  <2>2. Len(R) \in Nat /\ DOMAIN R = 1..Len(R) /\ \A j \in 1..Len(R) : R[j] \in ToSet(R)
    BY <2>1, Values
  <2> QED BY <2>2 DEF Known, R
<1>1. m \in OnTheWay
  BY TakenOnce DEF OnTheWay, Takes, Begun
<1>2. ASSUME NEW j \in 1..Len(R) PROVE f[j] \in Message /\ PiecesOf(R[j], f[j])
  <2>1. \E n \in Message : PiecesOf(R[j], n)
    BY <1>0 DEF ChannelInv, InPieces
  <2> HIDE DEF R
  <2> QED BY <2>1
<1> HIDE DEF f
<1>3. \A j \in 1..Len(R) : f[j] \in W
  <2> SUFFICES ASSUME NEW j \in 1..Len(R) PROVE f[j] \in W
    OBVIOUS
  <2>1. f[j] \in OnTheWay
    BY <1>2 DEF PiecesOf, OnTheWay, Begun
  <2>2. f[j] # m
    BY <1>0, <1>2 DEF PiecesOf
  <2> QED BY <2>1, <2>2
<1>4. \A j, k \in 1..Len(R) : f[j] = f[k] => j = k
  <2> SUFFICES ASSUME NEW j \in 1..Len(R), NEW k \in 1..Len(R), f[j] = f[k] PROVE j = k
    OBVIOUS
  <2>1. R[j].id = R[k].id
    BY <1>2 DEF PiecesOf
  <2> QED BY <2>1 DEF ChannelInv, InPieces, Separate
<1>5. f \in Injection(1..Len(R), W)
  <2>1. f \in [1..Len(R) -> W]
    BY <1>3 DEF f
  <2> QED BY <1>4, <2>1 DEF Injection, IsInjective
<1>6. IsFiniteSet(OnTheWay) /\ Cardinality(OnTheWay) <= MaxPending
  <2>1. OnTheWay \subseteq {n \in Message : Begun(n)}
    BY DEF OnTheWay, Begun
  <2>2. IsFiniteSet(OnTheWay)
    BY <2>1, FS_Subset DEF ChannelInv, Numbered
  <2> QED BY <2>2 DEF ChannelInv, NoneLost
<1>7. /\ IsFiniteSet(W) /\ Cardinality(W) = Cardinality(OnTheWay) - 1
      /\ Cardinality(OnTheWay) \in Nat
  BY <1>1, <1>6, FS_RemoveElement, FS_CardinalityType
<1> HIDE DEF R, W
<1>8. Cardinality(1..Len(R)) <= Cardinality(W)
  BY <1>5, <1>7, FS_Injection
<1>9. Cardinality(1..Len(R)) = Len(R)
  <2>1. Len(R) \in Nat
    BY <1>0
  <2>2. 1 \in Int /\ Len(R) \in Int
    BY <2>1
  <2>3. Cardinality(1..Len(R)) = IF 1 > Len(R) THEN 0 ELSE Len(R) - 1 + 1
    BY <2>2, FS_Interval
  <2> QED BY <2>1, <2>3
<1>10. MaxPending \in Nat
  BY DEF ChannelAssumption
<1> QED BY <1>0, <1>6, <1>7, <1>8, <1>9, <1>10 DEF R

\* The entries with one for m among them, then with its i-th piece in place, and that entry.
WithEntry(m, i) == StreamOpened(IF to = "cache" THEN Young ELSE reassembly, Chunk(m, i))
WithPiece(m, i) == Filled(WithEntry(m, i), Chunk(m, i))
EntryOf(m, i)   == StreamEntry(WithPiece(m, i), sends[m].id)

\* Those are pieces of m, this one among them, and of the other messages as before.
LEMMA PieceFilledIn ==
    ASSUME ChannelAssumption, ChannelInv, NEW m \in Message, NEW i, Takes(m, i), Length[m] # 1
    PROVE  LET F == WithPiece(m, i)
               e == EntryOf(m, i)
           IN  /\ StreamEntry(WithEntry(m, i), sends[m].id).total = Length[m]
               /\ F \in Seq(Entry) /\ Separate(F) /\ (to = "web" => Len(F) <= MaxPending)
               /\ e \in ToSet(F) /\ e.id = sends[m].id /\ e.total = Length[m]
               /\ DOMAIN e.got \subseteq 1..SentUpTo(m) /\ i \in DOMAIN e.got
               /\ \A k \in DOMAIN e.got :
                    e.got[k] = <<m, k>> /\ Chunk(m, k) \notin ToSet(buffer')
               /\ \A r \in ToSet(F) : r = e \/ (r.id # sends[m].id /\ r \in ToSet(reassembly))
               /\ dc = "open" /\ ~strained =>
                    /\ ~e.late
                    /\ \A r \in ToSet(reassembly) :
                         \/ r.id # sends[m].id /\ r \in ToSet(F)
                         \/ r.id = sends[m].id /\ DOMAIN r.got \subseteq DOMAIN e.got
<1> DEFINE R  == WithEntry(m, i)
           F  == WithPiece(m, i)
           e  == EntryOf(m, i)
           R0 == IF to = "cache" THEN Young ELSE reassembly
           c  == Chunk(m, i)
           o  == StreamEntry(R, c.id)
<1>1. Begun(m) /\ i \in 1..SentUpTo(m) /\ SentUpTo(m) \in Nat
  BY SentUpToType DEF Takes, ChannelInv
<1>2. /\ c \in Piece /\ c.id = sends[m].id /\ c.seq = i /\ c.total = Length[m]
      /\ c.part = <<m, i>>
  <2>1. i \in Nat
    BY <1>1
  <2>2. c \in Piece
    BY <2>1, OwnPieces DEF ChannelInv
  <2> QED BY <2>2 DEF Chunk
<1>3. /\ R0 \in Seq(Entry) /\ Separate(R0) /\ ToSet(R0) \subseteq ToSet(reassembly)
      /\ to = "web" => R0 = reassembly /\ Len(R0) <= MaxPending
      /\ dc = "open" /\ ~strained => ToSet(R0) = ToSet(reassembly)
  <2>1. to = "web" => to # "cache"
    OBVIOUS
  <2>2. reassembly \in Seq(Entry) /\ Separate(reassembly)
    BY DEF ChannelInv, ChannelTypes, InPieces
  <2>3. to = "web" => Len(reassembly) <= MaxPending
    BY DEF ChannelInv, InPieces
  <2>4. CASE to = "cache"
    BY <2>1, <2>4, YoungEntries
  <2>5. CASE to # "cache"
    <3>1. R0 = reassembly
      BY <2>5
    <3> QED BY <2>2, <2>3, <3>1
  <2> QED BY <2>4, <2>5
<1>4. dc = "open" /\ ~strained => Known(R0, c.id) \/ to # "web" \/ Len(R0) < MaxPending
  BY <1>2, <1>3, RoomForOne
<1>5. R = StreamOpened(R0, c) /\ F = Filled(R, c) /\ e = StreamEntry(F, c.id)
  BY <1>2 DEF WithEntry, WithPiece, EntryOf
<1> HIDE DEF c, R0, R, F, e
<1>6. /\ R \in Seq(Entry) /\ Separate(R) /\ Known(R, c.id)
      /\ \A r \in ToSet(R) : r \in ToSet(R0) \/ (r = Fresh(c) /\ ~Known(R0, c.id))
      /\ to = "web" => Len(R) <= MaxPending
      /\ dc = "open" /\ ~strained => ToSet(reassembly) \subseteq ToSet(R)
  BY <1>2, <1>3, <1>4, <1>5, OpenedEntries
<1>7. /\ F \in Seq(Entry) /\ Len(F) = Len(R) /\ Separate(F)
      /\ o \in ToSet(R) /\ o.id = c.id
      /\ e \in ToSet(F) /\ e.id = c.id /\ e.total = o.total /\ e.late = o.late
      /\ DOMAIN e.got = DOMAIN o.got \cup {c.seq}
      /\ \A s \in DOMAIN e.got :
           e.got[s] = IF s \in DOMAIN o.got THEN o.got[s] ELSE c.part
      /\ \A r \in ToSet(F) : r = e \/ (r.id # c.id /\ r \in ToSet(R))
      /\ \A r \in ToSet(R) : r = o \/ (r.id # c.id /\ r \in ToSet(F))
  <2> DEFINE G == Filled(R, c)
             d == StreamEntry(G, c.id)
  <2>1. /\ G \in Seq(Entry) /\ Len(G) = Len(R) /\ Separate(G)
        /\ o \in ToSet(R) /\ o.id = c.id
        /\ d \in ToSet(G) /\ d.id = c.id /\ d.total = o.total /\ d.late = o.late
        /\ DOMAIN d.got = DOMAIN o.got \cup {c.seq}
        /\ \A s \in DOMAIN d.got :
             d.got[s] = IF s \in DOMAIN o.got THEN o.got[s] ELSE c.part
        /\ \A r \in ToSet(G) : r = d \/ (r.id # c.id /\ r \in ToSet(R))
        /\ \A r \in ToSet(R) : r = o \/ (r.id # c.id /\ r \in ToSet(G))
    BY <1>2, <1>6, FilledEntries
  <2>2. G = F /\ d = e
    BY <1>5
  <2> HIDE DEF G, d, o
  <2> QED BY <2>1, <2>2
<1> HIDE DEF o
<1>8. \A r \in ToSet(R) : r.id # c.id => r \in ToSet(reassembly)
  BY <1>3, <1>6 DEF Fresh
<1>9. /\ o.total = Length[m]
      /\ DOMAIN o.got \subseteq 1..SentUpTo(m)
      /\ \A k \in DOMAIN o.got : o.got[k] = <<m, k>> /\ Chunk(m, k) \notin ToSet(buffer)
      /\ dc = "open" /\ ~strained => ~o.late
  <2>1. CASE o = Fresh(c)
    <3>1. DOMAIN o.got = {}
      BY <1>2, <2>1, FreshEntry
    <3>2. o.total = Length[m] /\ ~o.late
      BY <1>2, <2>1 DEF Fresh
    <3> QED BY <3>1, <3>2
  <2>2. CASE o \in ToSet(reassembly)
    <3>1. PICK n \in Message : PiecesOf(o, n)
      BY <2>2 DEF ChannelInv, InPieces
    <3>2. Begun(n) /\ sends[n].id = sends[m].id
      BY <1>2, <1>7, <3>1 DEF PiecesOf
    <3>3. n = m
      BY <1>1, <3>2 DEF ChannelInv, Numbered
    <3>4. dc = "open" /\ ~strained => ~o.late
      BY <2>2 DEF ChannelInv, NoneLost
    <3> QED BY <3>1, <3>3, <3>4 DEF PiecesOf
  <2> QED BY <1>3, <1>6, <1>7, <2>1, <2>2
<1>10. Chunk(m, i) \notin ToSet(buffer') /\ ToSet(buffer') \subseteq ToSet(buffer)
  BY TakenOnce
<1>11. \A k \in DOMAIN e.got : e.got[k] = <<m, k>> /\ Chunk(m, k) \notin ToSet(buffer')
  BY <1>2, <1>7, <1>9, <1>10
<1>12. DOMAIN e.got \subseteq 1..SentUpTo(m) /\ i \in DOMAIN e.got
  BY <1>1, <1>2, <1>7, <1>9
<1>13. \A r \in ToSet(F) : r = e \/ (r.id # sends[m].id /\ r \in ToSet(reassembly))
  BY <1>2, <1>7, <1>8
<1>14. ASSUME dc = "open", ~strained, NEW r \in ToSet(reassembly)
       PROVE  \/ r.id # sends[m].id /\ r \in ToSet(F)
              \/ r.id = sends[m].id /\ DOMAIN r.got \subseteq DOMAIN e.got
  <2>1. r \in ToSet(R)
    BY <1>6, <1>14
  <2> QED BY <1>2, <1>7, <2>1
<1>15. to = "web" => Len(F) <= MaxPending
  BY <1>6, <1>7
<1>16. StreamEntry(R, sends[m].id).total = Length[m]
  BY <1>2, <1>9 DEF o
<1> QED BY <1>2, <1>7, <1>9, <1>11, <1>12, <1>13, <1>14, <1>15, <1>16 DEF R, F, e

\* receive(): a message sent whole, one that is too long, its last piece, or another.
LEMMA ReceiveKeeps == ASSUME ChannelAssumption, ChannelInv, Receive PROVE ChannelInv'
<1> DEFINE b == Head(buffer)
<1>1. b \in ToSet(buffer)
  BY ValuesTail DEF Receive, ChannelInv, ChannelTypes
<1>2. PICK m \in Message : Begun(m) /\ \E i \in 1..SentUpTo(m) : b = Chunk(m, i)
  BY <1>1 DEF ChannelInv, Underway
<1>3. PICK i \in 1..SentUpTo(m) : b = Chunk(m, i)
  BY <1>2
<1>4. Takes(m, i)
  BY <1>2, <1>3 DEF Receive, Takes
<1>5. IF Length[m] = 1 THEN arrived' = Append(arrived, <<<<m, i>>>>) /\ reassembly' = reassembly
      ELSE Reassembles(Chunk(m, i))
  <2>1. IF b.total = 1 THEN arrived' = Append(arrived, <<b.part>>) /\ reassembly' = reassembly
        ELSE Reassembles(b)
    BY DEF Receive
  <2> HIDE DEF b
  <2>2. b.total = Length[m] /\ b.part = <<m, i>>
    BY <1>3 DEF Chunk
  <2> QED BY <1>3, <2>1, <2>2
<1> HIDE DEF b
<1>6. SentUpTo(m) \in Nat /\ SentUpTo(m) <= Length[m] /\ Length[m] \in Nat \ {0}
  BY SentUpToType, OwnPieces DEF ChannelInv
<1>7. SentUpTo(m) = Length[m] => sends[m].is = "sent"
  BY <1>6, SentUpToType DEF ChannelInv
<1>8. /\ Whole(m) \notin ToSet(arrived) /\ Chunk(m, i) \notin ToSet(buffer')
      /\ ToSet(buffer') = ToSet(buffer) \ {Chunk(m, i)}
  BY <1>4, TakenOnce
<1>9. \A r \in ToSet(reassembly) : r.id = sends[m].id => PiecesOf(r, m)
  <2> SUFFICES ASSUME NEW r \in ToSet(reassembly), r.id = sends[m].id PROVE PiecesOf(r, m)
    OBVIOUS
  <2>1. PICK n \in Message : PiecesOf(r, n)
    BY DEF ChannelInv, InPieces
  <2>2. Begun(n) /\ sends[n].id = sends[m].id
    BY <2>1 DEF PiecesOf
  <2>3. n = m
    BY <1>2, <2>2 DEF ChannelInv, Numbered
  <2> QED BY <2>1, <2>3
<1>10. /\ reassembly \in Seq(Entry) /\ Separate(reassembly)
       /\ to = "web" => Len(reassembly) <= MaxPending
       /\ dc = "open" /\ ~strained => \A r \in ToSet(reassembly) : ~r.late
  BY DEF ChannelInv, ChannelTypes, InPieces, NoneLost
<1>11. ASSUME dc = "open", ~strained, Length[m] <= MaxChunks, NEW k \in 1..SentUpTo(m), k # i
       PROVE  \/ Chunk(m, k) \in ToSet(buffer')
              \/ \E r \in ToSet(reassembly) : r.id = sends[m].id /\ k \in DOMAIN r.got
  <2>1. Somewhere(m, k)
    BY <1>2, <1>11 DEF ChannelInv, NoneLost
  <2>2. Chunk(m, k) # Chunk(m, i)
    BY <1>11 DEF Chunk
  <2> QED BY <1>8, <2>1, <2>2 DEF Somewhere
<1>12. CASE Length[m] = 1
  <2>1. reassembly' = reassembly /\ arrived' = Append(arrived, <<<<m, i>>>>)
    BY <1>5, <1>12
  <2>2. i = 1 /\ SentUpTo(m) = 1
    BY <1>3, <1>6, <1>12
  <2>3. Whole(m) = <<<<m, i>>>>
    BY <1>12, <2>2 DEF Whole
  <2>4. sends[m].is = "sent" /\ \A k \in 1..Length[m] : Chunk(m, k) \notin ToSet(buffer')
    BY <1>7, <1>8, <1>12, <2>2
  <2>5. \A r \in ToSet(reassembly) : r.id # sends[m].id
    BY <1>9, <1>12 DEF PiecesOf
  <2>6. Whole(m) \in ToSet(arrived')
    <3>1. arrived \in Seq(Wholes) /\ Whole(m) \in Wholes
      BY DEF ChannelInv, ChannelTypes, Wholes
    <3> DEFINE w == Whole(m)
    <3>2. arrived' = Append(arrived, w)
      BY <2>1, <2>3
    <3> HIDE DEF w
    <3>3. arrived \in Seq(Wholes) /\ w \in Wholes
      BY <3>1 DEF w
    <3>4. w \in ToSet(arrived')
      BY <3>2, <3>3, ValuesAppend
    <3> QED BY <3>4 DEF w
  <2>7. Separate(reassembly')
    BY <1>10, <2>1
  <2> QED BY <1>4, <1>10, <2>1, <2>3, <2>4, <2>5, <2>6, <2>7, Receipt
<1>13. CASE Length[m] # 1
  <2> DEFINE c == Chunk(m, i)
             R == WithEntry(m, i)
             F == WithPiece(m, i)
             e == EntryOf(m, i)
  <2>1. c.id = sends[m].id /\ c.total = Length[m]
    BY DEF Chunk
  <2>2. Reassembles(c)
    BY <1>5, <1>13
  <2>3. IF to = "web" /\ Length[m] > MaxChunks THEN UNCHANGED <<reassembly, arrived>>
        ELSE IF to = "web" /\ StreamEntry(R, sends[m].id).total # Length[m]
             THEN reassembly' = Kept(R, c) /\ arrived' = arrived
        ELSE IF Cardinality(DOMAIN e.got) = e.total
             THEN /\ reassembly' = Kept(F, c)
                  /\ arrived' = Append(arrived, [j \in 1..e.total |-> e.got[j]])
        ELSE reassembly' = F /\ arrived' = arrived
    BY <2>1, <2>2 DEF Reassembles, WithEntry, WithPiece, EntryOf
  <2>4. /\ StreamEntry(R, sends[m].id).total = Length[m]
        /\ F \in Seq(Entry) /\ Separate(F) /\ (to = "web" => Len(F) <= MaxPending)
        /\ e \in ToSet(F) /\ e.id = sends[m].id /\ e.total = Length[m]
        /\ DOMAIN e.got \subseteq 1..SentUpTo(m) /\ i \in DOMAIN e.got
        /\ \A k \in DOMAIN e.got : e.got[k] = <<m, k>> /\ Chunk(m, k) \notin ToSet(buffer')
        /\ \A r \in ToSet(F) : r = e \/ (r.id # sends[m].id /\ r \in ToSet(reassembly))
        /\ dc = "open" /\ ~strained =>
             /\ ~e.late
             /\ \A r \in ToSet(reassembly) :
                  \/ r.id # sends[m].id /\ r \in ToSet(F)
                  \/ r.id = sends[m].id /\ DOMAIN r.got \subseteq DOMAIN e.got
    BY <1>4, <1>13, PieceFilledIn
  <2> HIDE DEF c, R, F, e
  <2>5. CASE to = "web" /\ Length[m] > MaxChunks
    <3>1. reassembly' = reassembly /\ arrived' = arrived
      BY <2>3, <2>5
    <3>2. \A r \in ToSet(reassembly) : r.id # sends[m].id \/ Gathers(r, m)
      BY <1>8, <1>9 DEF PiecesOf, Gathers
    <3>3. ~(Length[m] <= MaxChunks)
      BY <1>6, <2>5 DEF ChannelAssumption
    <3>4. Separate(reassembly')
      BY <1>10, <3>1
    <3> QED BY <1>4, <1>10, <3>1, <3>2, <3>3, <3>4, Receipt
  <2>6. CASE ~(to = "web" /\ Length[m] > MaxChunks) /\ Cardinality(DOMAIN e.got) = Length[m]
    <3> DEFINE w == Whole(m)
    <3>1. DOMAIN e.got = 1..Length[m] /\ SentUpTo(m) = Length[m]
      <4> DEFINE D == DOMAIN e.got
      <4>1. D \subseteq 1..SentUpTo(m) /\ Cardinality(D) = Length[m]
        BY <2>4, <2>6
      <4> HIDE DEF D
      <4>2. D \subseteq 1..Length[m]
        BY <1>6, <4>1
      <4>3. IsFiniteSet(1..Length[m]) /\ Cardinality(1..Length[m]) = Length[m]
        BY <1>6, FS_Interval
      <4>4. D = 1..Length[m]
        BY <4>1, <4>2, <4>3, FS_Subset
      <4>5. Length[m] \in 1..SentUpTo(m)
        BY <1>6, <4>1, <4>4
      <4>6. SentUpTo(m) = Length[m]
        BY <1>6, <4>5
      <4> QED BY <4>4, <4>6 DEF D
    <3>2. reassembly' = Kept(F, c) /\ arrived' = Append(arrived, [j \in 1..e.total |-> e.got[j]])
      BY <2>3, <2>4, <2>6
    <3>3. [j \in 1..e.total |-> e.got[j]] = w
      BY <2>4, <3>1 DEF Whole
    <3>4. arrived' = Append(arrived, w)
      BY <3>2, <3>3
    <3>5. sends[m].is = "sent" /\ \A k \in 1..Length[m] : Chunk(m, k) \notin ToSet(buffer')
      BY <1>7, <2>4, <3>1
    <3>6. w \in ToSet(arrived')
      <4>1. arrived \in Seq(Wholes) /\ w \in Wholes
        BY DEF ChannelInv, ChannelTypes, Wholes
      <4> HIDE DEF w
      <4> QED BY <3>4, <4>1, ValuesAppend
    <3>7. /\ reassembly' \in Seq(Entry) /\ Separate(reassembly') /\ Len(reassembly') <= Len(F)
          /\ ToSet(reassembly') = {r \in ToSet(F) : r.id # sends[m].id}
      <4> DEFINE S == {r \in ToSet(F) : r.id # c.id}
      <4>1. reassembly' = Only(F, S)
        BY <3>2 DEF Kept
      <4>2. ToSet(F) \cap S = {r \in ToSet(F) : r.id # sends[m].id}
        BY <2>1
      <4> HIDE DEF S
      <4>3. /\ Only(F, S) \in Seq(Entry) /\ Len(Only(F, S)) <= Len(F)
            /\ ToSet(Only(F, S)) = ToSet(F) \cap S
            /\ Separate(F) => Separate(Only(F, S))
        BY <2>4, OnlyEntries
      <4>4. Separate(Only(F, S))
        BY <2>4, <4>3
      <4> QED BY <4>1, <4>2, <4>3, <4>4
    <3>8. to = "web" => Len(reassembly') <= MaxPending
      <4>1. Len(F) \in Nat /\ Len(reassembly') \in Nat /\ MaxPending \in Nat
        BY <2>4, <3>7, LenProperties DEF ChannelAssumption
      <4>2. Len(reassembly') <= Len(F) /\ (to = "web" => Len(F) <= MaxPending)
        BY <2>4, <3>7
      <4> QED BY <4>1, <4>2
    <3>9. \A r \in ToSet(reassembly') : r \in ToSet(reassembly) /\ r.id # sends[m].id
      BY <2>4, <3>7
    <3>10. dc = "open" /\ ~strained =>
             /\ \A r \in ToSet(reassembly') : ~r.late
             /\ \A r \in ToSet(reassembly) : r.id # sends[m].id => r \in ToSet(reassembly')
      BY <1>10, <2>4, <3>7, <3>9
    <3> QED BY <1>4, <3>4, <3>5, <3>6, <3>7, <3>8, <3>9, <3>10, Receipt
  <2>7. CASE ~(to = "web" /\ Length[m] > MaxChunks) /\ Cardinality(DOMAIN e.got) # Length[m]
    <3>1. reassembly' = F /\ arrived' = arrived
      BY <2>3, <2>4, <2>7
    <3>2. DOMAIN e.got # 1..Length[m]
      <4>1. Cardinality(1..Length[m]) = Length[m]
        BY <1>6, FS_Interval
      <4> QED BY <2>7, <4>1
    <3>3. Gathers(e, m)
      BY <1>13, <2>4, <3>2 DEF Gathers
    <3>4. dc = "open" /\ ~strained =>
            /\ \A r \in ToSet(F) : ~r.late
            /\ \A r \in ToSet(reassembly) : r.id # sends[m].id => r \in ToSet(F)
            /\ Length[m] <= MaxChunks => \A k \in 1..SentUpTo(m) :
                 \/ Chunk(m, k) \in ToSet(buffer')
                 \/ \E r \in ToSet(F) : r.id = sends[m].id /\ k \in DOMAIN r.got
      <4> SUFFICES ASSUME dc = "open", ~strained PROVE
            /\ \A r \in ToSet(F) : ~r.late
            /\ \A r \in ToSet(reassembly) : r.id # sends[m].id => r \in ToSet(F)
            /\ Length[m] <= MaxChunks => \A k \in 1..SentUpTo(m) :
                 \/ Chunk(m, k) \in ToSet(buffer')
                 \/ \E r \in ToSet(F) : r.id = sends[m].id /\ k \in DOMAIN r.got
        OBVIOUS
      <4>1. \A r \in ToSet(F) : ~r.late
        BY <1>10, <2>4
      <4>2. \A r \in ToSet(reassembly) : r.id # sends[m].id => r \in ToSet(F)
        BY <2>4
      <4>3. ASSUME Length[m] <= MaxChunks, NEW k \in 1..SentUpTo(m)
            PROVE  \/ Chunk(m, k) \in ToSet(buffer')
                   \/ \E r \in ToSet(F) : r.id = sends[m].id /\ k \in DOMAIN r.got
        <5>1. CASE k = i
          BY <2>4, <5>1
        <5>2. CASE k # i
          BY <1>11, <2>4, <4>3, <5>2
        <5> QED BY <5>1, <5>2
      <4> QED BY <4>1, <4>2, <4>3
    <3>5. /\ Separate(reassembly') /\ reassembly' \in Seq(Entry)
          /\ to = "web" => Len(reassembly') <= MaxPending
      BY <2>4, <3>1
    <3>6. \A r \in ToSet(reassembly') :
            \/ r \in ToSet(reassembly) /\ r.id # sends[m].id
            \/ Gathers(r, m) /\ arrived' = arrived
      BY <2>4, <3>1, <3>3
    <3> QED BY <1>4, <3>1, <3>4, <3>5, <3>6, Receipt
  <2> QED BY <2>5, <2>6, <2>7
<1> QED BY <1>12, <1>13

\* Every step of the channel keeps all this.
LEMMA ChannelGoesOn ==
    ASSUME ChannelAssumption, ChannelInv, [ChannelNext]_channel_vars PROVE ChannelInv'
<1>1. CASE \E m \in Message : Send(m) \/ Proceeds(m) \/ Throws(m)
  BY <1>1, SendKeeps, ProceedsKeeps, ThrowsKeeps
<1>2. CASE Close \/ Receive \/ TimesOut \/ CleanupTimer
  BY <1>2, CloseKeeps, ReceiveKeeps, TimesOutKeeps, CleanupKeeps
<1>3. CASE UNCHANGED channel_vars
  <2>1. /\ reassembly' \in Seq(Entry) /\ Separate(reassembly') /\ Len(reassembly') <= Len(reassembly)
        /\ dc' \in {"open", "closed"} /\ strained' \in BOOLEAN
    <3>1. Len(reassembly) \in Nat
      BY LenProperties DEF ChannelInv, ChannelTypes
    <3>2. reassembly' = reassembly
      BY <1>3 DEF channel_vars
    <3>3. Separate(reassembly')
      BY <3>2 DEF ChannelInv, InPieces
    <3> QED BY <1>3, <3>1, <3>2, <3>3 DEF channel_vars, ChannelInv, ChannelTypes
  <2>2. NoneLost'
    <3>1. /\ OnTheWay' = OnTheWay
          /\ \A m \in Message : Begun(m)' = Begun(m) /\ SentUpTo(m)' = SentUpTo(m)
          /\ \A m \in Message : \A i : Somewhere(m, i)' = Somewhere(m, i)
      BY <1>3 DEF channel_vars, OnTheWay, Begun, SentUpTo, Somewhere, Whole, Chunk
    <3> QED BY <1>3, <3>1 DEF channel_vars, ChannelInv, NoneLost
  <2> QED BY <1>3, <2>1, <2>2, EntriesGo DEF channel_vars
<1> QED BY <1>1, <1>2, <1>3 DEF ChannelNext

\* With nothing on its way, the one entry of a message that was sent would be whole.
LEMMA ChannelInvIntact == ASSUME ChannelAssumption, ChannelInv PROVE Intact
<1>1. /\ arrived \in Seq(Wholes) /\ DOMAIN arrived = 1..Len(arrived)
      /\ \A i \in DOMAIN arrived : arrived[i] \in Wholes
  <2>1. arrived \in Seq(Wholes)
    BY DEF ChannelInv, ChannelTypes
  <2> QED BY <2>1, LenProperties, ElementOfSeq
<1>2. \A i \in DOMAIN arrived : arrived[i] \in {Whole(m) : m \in Message}
  BY <1>1 DEF Wholes
<1>3. IsInjective(arrived)
  BY <1>1 DEF ChannelInv, HandedOn, Distinct, IsInjective
<1>4. ASSUME dc = "open", buffer = <<>>, ~strained, NEW m \in Message,
             sends[m].is = "sent", Length[m] <= MaxChunks
      PROVE  Whole(m) \in ToSet(arrived)
  <2> SUFFICES ASSUME Whole(m) \notin ToSet(arrived) PROVE FALSE
    OBVIOUS
  <2>1. ToSet(buffer) = {}
    BY <1>4 DEF ToSet
  <2>2. Begun(m) /\ SentUpTo(m) = Length[m] /\ Length[m] \in Nat \ {0}
    BY <1>4 DEF Begun, SentUpTo, ChannelAssumption
  <2>3. \A i \in 1..Length[m] :
          \E r \in ToSet(reassembly) : r.id = sends[m].id /\ i \in DOMAIN r.got
    BY <1>4, <2>1, <2>2 DEF ChannelInv, NoneLost, Somewhere
  <2>4. PICK r \in ToSet(reassembly) : r.id = sends[m].id
    BY <2>2, <2>3
  <2>5. \A q \in ToSet(reassembly) : q.id = r.id => q = r
    <3>1. \A x \in ToSet(reassembly) : \E j \in 1..Len(reassembly) : reassembly[j] = x
      BY Values DEF ChannelInv, ChannelTypes
    <3> QED BY <3>1 DEF ChannelInv, InPieces, Separate
  <2>6. 1..Length[m] \subseteq DOMAIN r.got
    BY <2>3, <2>4, <2>5
  <2>7. PICK n \in Message : PiecesOf(r, n)
    BY DEF ChannelInv, InPieces
  <2>8. n = m
    BY <2>2, <2>4, <2>7 DEF PiecesOf, ChannelInv, Numbered
  <2> QED BY <2>2, <2>6, <2>7, <2>8 DEF PiecesOf
<1>5. to = "web" => Len(reassembly) <= MaxPending
  BY DEF ChannelInv, InPieces
<1> QED BY <1>2, <1>3, <1>4, <1>5 DEF Intact

\* Whatever sends interleave, entries are dropped and timers fire: ChunkedReceiver.receive
\* (and chunked.rs) hands on whole messages only, each once, none mixed from two; and while
\* nothing timed out and there was room, none that was sent is missing but those the
\* browser takes for too long.
THEOREM MessagesArriveWhole == ASSUME ChannelAssumption PROVE ChannelSpec => []Intact
<1>1. ChannelInit => ChannelInv
  BY ChannelStarts
<1>2. ChannelInv /\ [ChannelNext]_channel_vars => ChannelInv'
  BY ChannelGoesOn
<1>3. ChannelInv => Intact
  BY ChannelInvIntact
<1> QED BY <1>1, <1>2, <1>3, PTL DEF ChannelSpec
=============================================================================
