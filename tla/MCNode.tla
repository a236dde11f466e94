------------------------------- MODULE MCNode -------------------------------
(***************************************************************************)
(* The parts of one node that share no state: its sessions, its encrypted  *)
(* store, its zones, the hints it holds back, the list of guards it        *)
(* trusts, and the board the user has open.  Each behaviour moves one of   *)
(* them, `part`, and leaves the others as they began.                      *)
(***************************************************************************)
EXTENDS NodeSession, LocalVault, Zones, Release, Guards, BoardView

CONSTANTS t1, t2, v1, v2, v3, b1, b2

VARIABLE part

Parts == {"session", "vault", "zones", "release", "guards", "board"}

TwoZones == [t \in {t1, t2} |-> IF t = t1 THEN 2 ELSE 5]
AboutTopic == [v \in {v1, v2, v3} |-> IF v = v3 THEN t2 ELSE t1]
OnOne == [p \in Packet \ Own |-> b1]

Moves(x) ==
  /\ part = x /\ UNCHANGED part
  /\ x # "session" => UNCHANGED session
  /\ x # "vault"   => UNCHANGED vault_vars
  /\ x # "zones"   => UNCHANGED zone_vars
  /\ x # "release" => UNCHANGED release_vars
  /\ x # "guards"  => UNCHANGED guard_vars
  /\ x # "board"   => UNCHANGED vars

PartsInit == /\ part \in Parts
             /\ SessionInit /\ VaultInit /\ ZonesInit
             /\ ReleaseInit /\ GuardsInit /\ Init
             /\ part # "session" => seal = NoPhrase
             /\ part # "vault" => \A x \in DOMAIN slot : slot[x] = Nothing
PartsNext == \/ Moves("session") /\ SessionNext
             \/ Moves("vault") /\ VaultNext
             \/ Moves("zones") /\ ZonesNext
             \/ Moves("release") /\ ReleaseNext
             \/ Moves("guards") /\ GuardsNext
             \/ Moves("board") /\ Next

PartsSpec == PartsInit /\ [][PartsNext]_<<part, session, vault_vars, zone_vars, release_vars,
                                        guard_vars, vars>>
=============================================================================
