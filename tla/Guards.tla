------------------------------- MODULE Guards -------------------------------
(***************************************************************************)
(* The signed list of trusted guards (trust/TrustedGuards.ts, its tool     *)
(* cli/guardMaintainer.ts): maintainers collect signatures on one content, *)
(* the list travels by any way, and who imports it keeps it only when      *)
(* enough maintainers signed exactly what it says.                         *)
(*                                                                         *)
(* A declaration (guard string) is [of, by, at]: the peer it names, the    *)
(* peer whose key signed it.  A signature is [by, over].  `drafts` are     *)
(* the lists that travel; `agreed` remembers what each maintainer really   *)
(* signed; `trusted` is what the importer keeps (the code hands it back:   *)
(* its keeper, who passes its version as minVersion, is not in src/).      *)
(***************************************************************************)
EXTENDS Integers, Sequences, FiniteSets, Lists

CONSTANTS Maintainer,  \* the keys the application carries
          Outsider,    \* other keys
          Threshold,   \* how many of them must sign
          Guard,       \* the peers
          Life,        \* MAX_VALIDITY, in days
          Skew,        \* CLOCK_SKEW, in days
          MaxSigs,     \* MAX_SIGNATURES
          Lag,         \* bound: how far an importer's clock is behind
          Calendar,    \* bound: the last day
          Editions,    \* bound: versions
          Drafts       \* bound: lists that travel

ASSUME GuardsAssumption == IsFiniteSet(Maintainer) /\ Threshold \in 1..Cardinality(Maintainer)

VARIABLES drafts, agreed, trusted, today
guard_vars == <<drafts, agreed, trusted, today>>

NoList == [version |-> 0, guards |-> {}, from |-> 0, until |-> 0]
DeclaredBy(p, at) == [of |-> p, by |-> p, at |-> at]
Declarations == {DeclaredBy(p, at) : p \in Guard, at \in 0..1}
                  \cup {[of |-> p, by |-> q, at |-> 0] : p, q \in Guard}
Parsed(d) == d.of = d.by

WellShaped(c) == c.version >= 1 /\ c.until > c.from /\ c.until - c.from =< Life

\* The signatures of others stay, and m's is added.
OfOthers(m, sigs) == {sigs[i] : i \in {j \in 1..Len(sigs) : sigs[j].by # m}}
Signed(c, m, existing) ==
  [content |-> c, sigs |-> Append(Only(existing, OfOthers(m, existing)), [by |-> m, over |-> c])]

(***************************************************************************)
(* `sign` of the maintainers' tool: every guard string is checked; the     *)
(* times of an existing list are taken over, and what it says must be what *)
(* is signed now.                                                          *)
(***************************************************************************)
SignNew(m, version, guards, revoked, days) ==
  LET c == [version |-> version, guards |-> guards, revoked |-> revoked,
            from |-> today, until |-> today + days]
  IN /\ \A d \in guards : Parsed(d)
     /\ WellShaped(c)
     /\ drafts' = drafts \cup {Signed(c, m, <<>>)}
     /\ agreed' = agreed \cup {[by |-> m, over |-> c]}
     /\ UNCHANGED <<trusted, today>>

SignExisting(m, list) ==
  /\ list \in drafts /\ Len(list.sigs) =< MaxSigs
  /\ \A d \in list.content.guards : Parsed(d)
  /\ WellShaped(list.content)
  /\ drafts' = drafts \cup {Signed(list.content, m, list.sigs)}
  /\ agreed' = agreed \cup {[by |-> m, over |-> list.content]}
  /\ UNCHANGED <<trusted, today>>

\* On its way the text of a list may be changed; no signature can be made up.
Edited(c) == {[c EXCEPT !.version = @ + 1], [c EXCEPT !.until = @ + 1], [c EXCEPT !.revoked = {}]}
               \cup {[c EXCEPT !.guards = @ \cup {d}] : d \in Declarations}
Alter(list) ==
  /\ list \in drafts
  /\ \E c \in Edited(list.content) \cup {list.content} :
     \E sigs \in {list.sigs, list.sigs \o list.sigs} \cup {other.sigs : other \in drafts} :
       drafts' = drafts \cup {[content |-> c, sigs |-> sigs]}
  /\ UNCHANGED <<agreed, trusted, today>>

\* The keys whose signatures count: each once, and only over this content.
ValidSigners(list) ==
  {m \in Maintainer : \E i \in 1..Len(list.sigs) : list.sigs[i] = [by |-> m, over |-> list.content]}
EverySignature(list) == {i \in 1..Len(list.sigs) : list.sigs[i].over = list.content}
EnoughOf(signers) == Cardinality(signers) >= Threshold
EnoughCounted(list) == EnoughOf(EverySignature(list))
EnoughSigned(list) == EnoughOf(ValidSigners(list))

Acceptable(list, now) ==
  LET c == list.content
  IN /\ Len(list.sigs) =< MaxSigs /\ c.version >= 1
     /\ EnoughSigned(list)
     /\ c.version >= trusted.version
     /\ c.until > c.from /\ c.until - c.from =< Life
     /\ c.from =< now + Skew /\ now < c.until
     /\ \A d \in c.guards : Parsed(d)
     /\ \A d, e \in c.guards : d.of = e.of => d = e

Usable(c) == {d.of : d \in c.guards} \ c.revoked

Import(list, now) ==
  /\ list \in drafts /\ Acceptable(list, now)
  /\ trusted' = [version |-> list.content.version, guards |-> Usable(list.content),
                 from |-> list.content.from, until |-> list.content.until]
  /\ UNCHANGED <<drafts, agreed, today>>

DayPasses == /\ today < Calendar /\ today' = today + 1
             /\ UNCHANGED <<drafts, agreed, trusted>>

GuardsInit == drafts = {} /\ agreed = {} /\ trusted = NoList /\ today = 0

GuardsNext ==
  \/ \E m \in Maintainer \cup Outsider, version \in 1..Editions, days \in 1..Life,
        guards \in {{DeclaredBy(p, at)} : p \in Guard, at \in 0..1}, revoked \in {{}} \cup {{p} : p \in Guard} :
       Cardinality(drafts) < Drafts /\ SignNew(m, version, guards, revoked, days)
  \/ \E list \in drafts : Cardinality(drafts) < Drafts
       /\ \E m \in Maintainer \cup Outsider : SignExisting(m, list)
  \/ \E list \in drafts : Cardinality(drafts) < Drafts /\ Alter(list)
  \/ \E list \in drafts, off \in 0..Lag : today >= off /\ Import(list, today - off)
  \/ DayPasses

GuardsSpec == GuardsInit /\ [][GuardsNext]_guard_vars

(***************************************************************************)
(* Whatever way the list came and whoever edited or merged it: the guards  *)
(* in use are those of one content that enough different maintainers       *)
(* signed, word for word, without the revoked ones.                        *)
(* ("リスト自体はどこから取り込んでもよい (署名を検証するので、途中の経路で        *)
(* 改竄されても弾ける)": TrustedGuards.ts:24.)                               *)
(***************************************************************************)
Endorsed ==
  trusted # NoList =>
    \E c \in {a.over : a \in agreed} :
      /\ Cardinality({m \in Maintainer : [by |-> m, over |-> c] \in agreed}) >= Threshold
      /\ trusted = [version |-> c.version, guards |-> {d.of : d \in c.guards} \ c.revoked,
                    from |-> c.from, until |-> c.until]
=============================================================================
