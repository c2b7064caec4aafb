---------------------------- MODULE CatalogProofs ----------------------------
(***************************************************************************)
(* Safety of the catalog, proved for any ids, any number of administrators *)
(* and searches, and any number of operations and failing reads.           *)
(*                                                                         *)
(*   CatalogTypes      types; no id is given out twice                     *)
(*   BindingsFollow    a key's binding can be followed                     *)
(*   WhatIsChecked     what the handlers check holds unless overtaken      *)
(*                                                                         *)
(* What a handler writes it decided earlier. Slots says of each kind of    *)
(* slot what its id and row are; Current that whatever a handler relies on *)
(* is still so, or was overtaken, or never checked (Excused).              *)
(***************************************************************************)
EXTENDS Catalog, FiniteSetTheorems, TLAPS

Steps ==
    {"idle", "saveChain", "unbind", "dropChain", "activate", "insertKey", "writeKey",
     "rebindKey", "upsertProvider", "dropProvider", "upsertProxy", "clearProxy", "dropProxy"}
Ids == Chains \cup Keys \cup Provs \cup Proxies \cup {None}
Rows == ChainRows \cup KeyRows \cup ProvRows \cup {None}

SlotShape == [at: Steps, id: Ids, row: Rows]

(* The id and the row a slot has at the step `at'; ids are those given out. *)
Fits(at, id, row, ids) ==
    /\ at = "saveChain" => id \in Chains \cap ids /\ row \in ChainRows
    /\ at \in {"unbind", "dropChain", "activate"} => id \in Chains
    /\ at \in {"insertKey", "writeKey", "rebindKey"} => id \in Keys /\ row \in KeyRows
    /\ at = "insertKey" => id \in ids
    /\ at = "upsertProvider" => id \in Provs \cap ids /\ row \in ProvRows
    /\ at = "dropProvider" => id \in Provs
    /\ at \in {"upsertProxy", "clearProxy", "dropProxy"} => id \in Proxies
    /\ at = "upsertProxy" => id \in ids

Slots ==
    /\ adm \in [Admins -> SlotShape]
    /\ \A a \in Admins : Fits(adm[a].at, adm[a].id, adm[a].row, born)

(* The ids for which nothing is promised. *)
Excused == waived \cup raced

Current ==
    /\ \A a \in Admins : Outdated(adm[a]) \subseteq Excused
    /\ \A r \in Callers : OutdatedUse(r) \subseteq Excused

OneActive == raced \cap Chains = {} => \E c \in Chains : ActiveChains = {c}
ChainsComplete == \A c \in KnownChains : chains[c].uses \subseteq KnownProvs \cup Excused
ProxiesExist == \A p \in KnownProvs : provs[p].proxy \in KnownProxies \cup {None} \cup raced
AsBound == \A k \in KnownKeys \ raced : keys[k].chain = bound[k]

Integrity == OneActive /\ ChainsComplete /\ ProxiesExist /\ AsBound

(* A search holds the row of a key; its chain is there, or was deleted     *)
(* under it.                                                               *)
Uses ==
    /\ req \in [Callers -> [at: {"idle", "touch", "resolve", "ran", "missing", "noActive"},
                            key: Keys \cup {None}, row: KeyRows \cup {None},
                            asOf: Chains \cup {None}, gone: BOOLEAN]]
    /\ \A r \in Callers :
          /\ req[r].at \in {"touch", "resolve"} =>
                /\ req[r].key \in Keys /\ req[r].row \in KeyRows
                /\ req[r].row.chain \in Bindings \/ req[r].gone
          /\ req[r].at = "missing" => req[r].gone

Inv == TypeOK /\ Slots /\ Uses /\ BindingsExist /\ Integrity /\ Current

-----------------------------------------------------------------------------
(* The seeded installation. *)
LEMMA InvInit == Init => Inv
<1> SUFFICES ASSUME Init PROVE Inv
  OBVIOUS
<1> USE CatalogAssumption DEF Init
<1>1. TypeOK
  <2>1. chains \in [Chains -> ChainRows \cup {Absent}]
    BY DEF ChainRows
  <2>2. keys \in [Keys -> KeyRows \cup {Absent}]
    BY DEF KeyRows
  <2>3. provs \in [Provs -> ProvRows \cup {Absent}]
    BY DEF ProvRows
  <2>4. waived \subseteq Provs /\ raced \subseteq Chains \cup Keys \cup Provs \cup Proxies
    OBVIOUS
  <2>5. proxies \in [Proxies -> {None, Absent}] /\ bound \in [Keys -> Chains \cup {None}]
    OBVIOUS
  <2>6. ops \in 0 .. MaxOps /\ uses \in 0 .. MaxUses /\ faults \in 0 .. MaxFaults
    OBVIOUS
  <2>7. KnownChains \cup KnownKeys \cup KnownProvs \cup KnownProxies \subseteq born
    BY DEF KnownChains, KnownKeys, KnownProvs, KnownProxies
  <2> QED BY <2>1, <2>2, <2>3, <2>4, <2>5, <2>6, <2>7 DEF TypeOK
<1>2. Slots
  BY DEF Slots, SlotShape, Idle, Fits, Steps, Ids, Rows
<1>3. Uses
  BY DEF Uses, NoUse
<1>4. BindingsExist
  BY DEF BindingsExist, KnownKeys, Bindings, KeyRows
<1>5. Integrity /\ Current
  <2>1. ActiveChains = {FirstChain}
    <3> DEFINE first == [active |-> TRUE, uses |-> FirstProvs]
    <3>1. first \in ChainRows /\ first.active
      BY DEF ChainRows
    <3>2. \A c \in Chains : chains[c] = IF c = FirstChain THEN first ELSE Absent
      OBVIOUS
    <3> HIDE DEF first
    <3>3. KnownChains = {FirstChain}
      BY <3>1, <3>2 DEF KnownChains
    <3> QED BY <3>1, <3>2, <3>3 DEF ActiveChains
  <2>2. ChainsComplete
    <3> DEFINE first == [enabled |-> TRUE, proxy |-> None]
    <3>1. first \in ProvRows
      BY DEF ProvRows
    <3>2. \A p \in FirstProvs : provs[p] = first
      OBVIOUS
    <3> HIDE DEF first
    <3>3. FirstProvs \subseteq KnownProvs
      BY <3>1, <3>2 DEF KnownProvs
    <3> DEFINE row == [active |-> TRUE, uses |-> FirstProvs]
    <3>4. row.uses = FirstProvs /\ \A c \in KnownChains : chains[c] = row
      BY DEF KnownChains
    <3> HIDE DEF row
    <3>5. \A c \in KnownChains : chains[c].uses = FirstProvs
      BY <3>4
    <3> QED BY <3>3, <3>5 DEF ChainsComplete
  <2>3. ProxiesExist /\ AsBound
    BY DEF ProxiesExist, AsBound, KnownProvs, KnownKeys, ProvRows, KeyRows
  <2>4. Current
    BY DEF Current, Outdated, OutdatedUse, Idle, NoUse
  <2> QED BY <2>1, <2>2, <2>3, <2>4 DEF Integrity, OneActive
<1> QED BY <1>1, <1>2, <1>3, <1>4, <1>5 DEF Inv
-----------------------------------------------------------------------------
(* Types                                                                   *)

LEMMA Bounds == MaxOps \in Nat /\ MaxUses \in Nat /\ MaxFaults \in Nat
BY CatalogAssumption

(* After a write the writer's slot is at its next step.                    *)
LEMMA WroteSlots ==
    ASSUME Slots, NEW a \in Admins, NEW l \in Steps, Wrote(a, l),
           l = "idle" \/ Fits(l, adm[a].id, adm[a].row, born)
    PROVE  /\ Slots'
           /\ \A x \in Admins : x # a => adm'[x] = adm[x]
           /\ adm'[a] = IF l = "idle" THEN Idle ELSE [adm[a] EXCEPT !.at = l]
<1>1. born' = born
  BY DEF Wrote
<1>2. /\ \A x \in Admins : x # a => adm'[x] = adm[x]
      /\ adm'[a] = IF l = "idle" THEN Idle ELSE [adm[a] EXCEPT !.at = l]
  BY DEF Wrote, Slots
<1>3. adm'[a] \in SlotShape /\ Fits(adm'[a].at, adm'[a].id, adm'[a].row, born)
  <2>1. CASE l = "idle"
    BY <1>2, <2>1 DEF Idle, SlotShape, Steps, Ids, Rows, Fits
  <2>2. CASE l # "idle"
    <3>1. adm'[a] = [at |-> l, id |-> adm[a].id, row |-> adm[a].row]
      BY <1>2, <2>2 DEF Slots, SlotShape
    <3> QED BY <2>2, <3>1 DEF Slots, SlotShape
  <2> QED BY <2>1, <2>2
<1>4. adm' \in [Admins -> SlotShape]
  BY <1>3 DEF Wrote, Slots, SlotShape
<1>5. \A x \in Admins : Fits(adm[x].at, adm[x].id, adm[x].row, born)'
  BY <1>1, <1>2, <1>3 DEF Slots, Fits
<1> QED BY <1>2, <1>4, <1>5 DEF Slots

(* Only ids of the right kind can be outdated.                             *)
LEMMA OutdatedType ==
    ASSUME Slots', Uses', CatalogAssumption
    PROVE  /\ \A a \in Admins : Outdated(adm[a])' \subseteq Chains \cup Keys \cup Provs \cup Proxies
           /\ \A r \in Callers : OutdatedUse(r)' \subseteq Keys
<1>1. ASSUME NEW a \in Admins
      PROVE  Outdated(adm[a])' \subseteq Chains \cup Keys \cup Provs \cup Proxies
  <2>1. adm'[a].at = "saveChain" => adm'[a].id \in Chains /\ adm'[a].row.uses \subseteq Provs
    BY DEF Slots, Fits, ChainRows
  <2>2. adm'[a].at \in {"unbind", "dropChain"} => adm'[a].id \in Chains
    BY DEF Slots, Fits
  <2>3. adm'[a].at = "writeKey" => adm'[a].id \in Keys
    BY DEF Slots, Fits
  <2>4. adm'[a].at = "upsertProvider" => adm'[a].row.proxy \in Proxies \cup {None}
    BY DEF Slots, Fits, ProvRows
  <2>5. /\ adm'[a].at = "dropProvider" => adm'[a].id \in Provs
        /\ adm'[a].at = "dropProxy" => adm'[a].id \in Proxies
    BY DEF Slots, Fits
  <2> QED BY <2>1, <2>2, <2>3, <2>4, <2>5 DEF Outdated, Rebound
<1>2. ASSUME NEW r \in Callers
      PROVE  OutdatedUse(r)' \subseteq Keys
  BY DEF OutdatedUse, Rebound, Uses
<1> QED BY <1>1, <1>2

(* Who does not move with a write is current, or has been overtaken.       *)
LEMMA Bystanders ==
    ASSUME Inv, Races, waived' = waived
    PROVE  /\ \A x \in Admins : adm'[x] = adm[x] => Outdated(adm[x])' \subseteq Excused'
           /\ \A r \in Callers : OutdatedUse(r)' \subseteq Excused'
           /\ raced \subseteq raced' /\ Excused \subseteq Excused'
<1>1. raced' = raced \cup Overtaken
  BY DEF Races
<1>2. \A x \in Admins : adm'[x] = adm[x] => Outdated(adm[x])' \ Outdated(adm[x]) \subseteq Overtaken
  BY DEF Overtaken
<1>3. \A r \in Callers : OutdatedUse(r)' \ OutdatedUse(r) \subseteq Overtaken
  BY DEF Overtaken
<1>4. Excused' = Excused \cup Overtaken
  BY <1>1 DEF Excused
<1> QED BY <1>1, <1>2, <1>3, <1>4 DEF Inv, Current

(* What was overtaken has an id of the tables.                             *)
LEMMA RacedType ==
    ASSUME Inv, Races, Slots', Uses'
    PROVE  raced' \subseteq Chains \cup Keys \cup Provs \cup Proxies
<1> DEFINE Objects == Chains \cup Keys \cup Provs \cup Proxies
<1>1. /\ \A a \in Admins : Outdated(adm[a])' \subseteq Objects
      /\ \A r \in Callers : OutdatedUse(r)' \subseteq Objects
  BY OutdatedType, CatalogAssumption
<1> HIDE DEF Objects
<1>2. Overtaken \subseteq Objects
  BY <1>1 DEF Overtaken
<1>3. raced \subseteq Objects
  BY DEF Inv, TypeOK, Objects
<1> QED BY <1>2, <1>3 DEF Races, Objects

-----------------------------------------------------------------------------
(* Reading: a handler has checked what it will rely on.                    *)

Begins(a) ==
    \E at \in Steps, id \in Ids, row \in Rows :
        /\ Start(a, at, id, row) /\ born \subseteq born'
        /\ faults' \in 0 .. MaxFaults /\ waived \subseteq waived' /\ waived' \subseteq Provs
        /\ Fits(at, id, row, born')
        /\ Outdated([at |-> at, id |-> id, row |-> row]) \subseteq raced \cup waived'

(* The rest of the state does not change when a handler begins.            *)
LEMMA BeginStep ==
    ASSUME Inv, NEW a \in Admins, Begins(a)
    PROVE  Inv'
<1>1. PICK at \in Steps, id \in Ids, row \in Rows :
        /\ Start(a, at, id, row) /\ born \subseteq born'
        /\ faults' \in 0 .. MaxFaults /\ waived \subseteq waived' /\ waived' \subseteq Provs
        /\ Fits(at, id, row, born')
        /\ Outdated([at |-> at, id |-> id, row |-> row]) \subseteq raced \cup waived'
  BY DEF Begins
<1>2. UNCHANGED <<chains, keys, provs, proxies, req, bound, raced, uses>>
  BY <1>1 DEF Start, tables
<1>3. ops' \in 0 .. MaxOps
  BY <1>1, Bounds DEF Start, Inv, TypeOK
<1>4. TypeOK'
  <2>1. (KnownChains \cup KnownKeys \cup KnownProvs \cup KnownProxies \subseteq born)'
    BY <1>1, <1>2 DEF Inv, TypeOK, KnownChains, KnownKeys, KnownProvs, KnownProxies
  <2> QED BY <1>1, <1>2, <1>3, <2>1 DEF Inv, TypeOK
<1> DEFINE slot == [at |-> at, id |-> id, row |-> row]
<1>5. adm' = [adm EXCEPT ![a] = slot]
  BY <1>1 DEF Start
<1>6. slot \in SlotShape /\ slot.at = at /\ slot.id = id /\ slot.row = row
      /\ Outdated(slot) \subseteq raced \cup waived'
  BY <1>1 DEF SlotShape
<1> HIDE DEF slot
<1>7. \A x \in Admins : adm'[x] = IF x = a THEN slot ELSE adm[x]
  BY <1>5 DEF Inv, Slots
<1>8. Slots'
  <2>1. ASSUME NEW x \in Admins
        PROVE  Fits(adm'[x].at, adm'[x].id, adm'[x].row, born')
    <3>1. CASE x = a
      BY <1>1, <1>6, <1>7, <3>1
    <3>2. CASE x # a
      BY <1>1, <1>7, <3>2 DEF Inv, Slots, Fits
    <3> QED BY <3>1, <3>2
  <2> QED BY <1>5, <1>6, <2>1 DEF Inv, Slots
<1>9. Uses'
  BY <1>2 DEF Inv, Uses, Bindings, KnownChains
<1>10. BindingsExist'
  BY <1>2 DEF Inv, BindingsExist, KnownKeys, Bindings, KnownChains
<1>11. Excused \subseteq Excused' /\ Excused' = raced \cup waived'
  BY <1>1, <1>2 DEF Excused
<1>12. Integrity'
  BY <1>2, <1>11 DEF Inv, Integrity, OneActive, ChainsComplete, ProxiesExist, AsBound,
     ActiveChains, KnownChains, KnownKeys, KnownProvs, KnownProxies
<1>13. Current'
  <2>1. ASSUME NEW x \in Admins
        PROVE  Outdated(adm[x])' \subseteq Excused'
    <3>1. PICK s : s = adm'[x]
      OBVIOUS
    <3>2. Outdated(adm[x])' = Outdated(s)
      BY <1>2, <3>1 DEF Outdated, Rebound, ChainsUsing, ActiveChains, KnownChains, KnownKeys,
         KnownProvs, KnownProxies
    <3>3. CASE x = a
      BY <1>6, <1>7, <1>11, <3>1, <3>2, <3>3
    <3>4. CASE x # a
      <4>1. s = adm[x]
        BY <1>7, <3>1, <3>4
      <4>2. Outdated(s) = Outdated(adm[x])
        BY <4>1
      <4> QED BY <1>11, <3>2, <4>2 DEF Inv, Current
    <3> QED BY <3>3, <3>4
  <2>2. ASSUME NEW r \in Callers
        PROVE  OutdatedUse(r)' \subseteq Excused'
    <3>1. OutdatedUse(r)' = OutdatedUse(r)
      BY <1>2 DEF OutdatedUse, Rebound, KnownKeys
    <3> QED BY <1>11, <3>1 DEF Inv, Current
  <2> QED BY <2>1, <2>2 DEF Current
<1> QED BY <1>4, <1>8, <1>9, <1>10, <1>12, <1>13 DEF Inv

(* A row of each table, and what it says.                                  *)
LEMMA ChainRow ==
    ASSUME NEW act \in BOOLEAN, NEW U \in SUBSET Provs
    PROVE  /\ [active |-> act, uses |-> U] \in ChainRows
           /\ [active |-> act, uses |-> U].active = act
           /\ [active |-> act, uses |-> U].uses = U
BY DEF ChainRows

LEMMA KeyRow ==
    ASSUME NEW c \in Chains \cup {None}, NEW rev \in BOOLEAN
    PROVE  /\ [chain |-> c, revoked |-> rev] \in KeyRows
           /\ [chain |-> c, revoked |-> rev].chain = c
BY DEF KeyRows

LEMMA ProvRow ==
    ASSUME NEW e \in BOOLEAN, NEW x \in Proxies \cup {None}
    PROVE  /\ [enabled |-> e, proxy |-> x] \in ProvRows
           /\ [enabled |-> e, proxy |-> x].proxy = x
BY DEF ProvRows

(* A handler that has nothing to warn of begins.                           *)
LEMMA Quietly ==
    ASSUME Inv, NEW a \in Admins, NEW at \in Steps, NEW id \in Ids, NEW row \in Rows,
           Begin(a, at, id, row), Fresh(id) \/ Known, Fits(at, id, row, born'),
           Outdated([at |-> at, id |-> id, row |-> row]) \subseteq raced
    PROVE  Begins(a)
<1>1. born \subseteq born' /\ faults' \in 0 .. MaxFaults
  BY DEF Fresh, Known, Inv, TypeOK
<1>2. waived' = waived /\ waived \subseteq Provs /\ Start(a, at, id, row)
  BY DEF Begin, Inv, TypeOK
<1> QED BY <1>1, <1>2 DEF Begins

(* A handler of chains begins with a draft, of whose unknown providers it  *)
(* has warned, with a copy of a chain, or with a chain it has found and    *)
(* that is not active.                                                     *)
LEMMA ChainReads ==
    ASSUME Inv, NEW a \in Admins, NEW c \in Chains,
           \/ \E U \in SUBSET Provs : CreateChain(a, c, U) \/ EditChain(a, c, U) \/ ImportChain(a, c, U)
           \/ \E src \in Chains : DuplicateChain(a, c, src)
           \/ CheckDelete(a, c) \/ ReadActivate(a, c)
    PROVE  Begins(a)
<1>1. ASSUME NEW act \in BOOLEAN, NEW U \in SUBSET Provs,
             Start(a, "saveChain", c, [active |-> act, uses |-> U]), Fresh(c) \/ Known,
             c \in born', waived \subseteq waived', waived' \subseteq Provs,
             U \subseteq KnownProvs \cup raced \cup waived', act <=> c \in ActiveChains
      PROVE  Begins(a)
  <2> DEFINE row == [active |-> act, uses |-> U]
  <2>1. row \in ChainRows /\ row.active = act /\ row.uses = U
    BY ChainRow
  <2>2. Start(a, "saveChain", c, row)
    BY <1>1
  <2> HIDE DEF row
  <2>3. Fits("saveChain", c, row, born')
    BY <1>1, <2>1 DEF Fits
  <2>4. Outdated([at |-> "saveChain", id |-> c, row |-> row]) \subseteq raced \cup waived'
    BY <1>1, <2>1 DEF Outdated
  <2>5. c \in Ids /\ row \in Rows /\ "saveChain" \in Steps
    BY <2>1 DEF Ids, Rows, Steps
  <2>6. born \subseteq born' /\ faults' \in 0 .. MaxFaults
    BY <1>1 DEF Fresh, Known, Inv, TypeOK
  <2> QED BY <1>1, <2>2, <2>3, <2>4, <2>5, <2>6 DEF Begins
<1>2. KnownProvs \subseteq Provs /\ KnownChains \subseteq born /\ ActiveChains \subseteq KnownChains
      /\ waived \subseteq Provs
  BY DEF Inv, TypeOK, KnownProvs, ActiveChains
<1>3. \A d \in KnownChains : chains[d] \in ChainRows
  BY DEF Inv, TypeOK, KnownChains
<1>4. \A d \in KnownChains : chains[d].active \in BOOLEAN /\ chains[d].uses \subseteq Provs
  BY <1>3 DEF ChainRows
<1>5. ASSUME NEW U \in SUBSET Provs, CreateChain(a, c, U) PROVE Begins(a)
  <2>1. c \notin ActiveChains /\ c \in born' /\ waived' = waived \cup (U \ KnownProvs)
    BY <1>2, <1>5 DEF CreateChain, Fresh, ValidDraft
  <2> QED BY <1>1, <1>2, <1>5, <2>1 DEF CreateChain
<1>6. ASSUME NEW U \in SUBSET Provs, EditChain(a, c, U) PROVE Begins(a)
  <2>1. c \in KnownChains /\ c \in born' /\ waived' = waived \cup (U \ KnownProvs)
    BY <1>2, <1>6 DEF EditChain, Known, ValidDraft
  <2> DEFINE act == chains[c].active
  <2>2. act \in BOOLEAN /\ (act <=> c \in ActiveChains)
    BY <1>4, <2>1 DEF ActiveChains
  <2>3. Start(a, "saveChain", c, [active |-> act, uses |-> U]) /\ Known
    BY <1>6 DEF EditChain
  <2> HIDE DEF act
  <2> QED BY <1>1, <1>2, <2>1, <2>2, <2>3
<1>7. ASSUME NEW U \in SUBSET Provs, ImportChain(a, c, U) PROVE Begins(a)
  BY <1>5, <1>6, <1>7 DEF ImportChain
<1>8. ASSUME NEW src \in Chains, DuplicateChain(a, c, src) PROVE Begins(a)
  <2>1. c \notin ActiveChains /\ c \in born' /\ src \in KnownChains /\ waived' = waived
    BY <1>2, <1>8 DEF DuplicateChain, Fresh, Begin
  <2> DEFINE U == chains[src].uses
  <2>2. U \in SUBSET Provs /\ U \subseteq KnownProvs \cup raced \cup waived
    BY <1>4, <2>1 DEF Inv, Integrity, ChainsComplete, Excused
  <2>3. Start(a, "saveChain", c, [active |-> FALSE, uses |-> U]) /\ Fresh(c)
    BY <1>8 DEF DuplicateChain, Begin
  <2> HIDE DEF U
  <2> QED BY <1>1, <1>2, <2>1, <2>2, <2>3
<1>9. CASE CheckDelete(a, c)
  <2>1. c \in Ids /\ None \in Rows /\ "unbind" \in Steps /\ c \notin ActiveChains
    BY <1>9 DEF Ids, Rows, Steps, CheckDelete, Deletable, ActiveChains
  <2>2. Fits("unbind", c, None, born')
    BY <2>1 DEF Fits
  <2>3. Outdated([at |-> "unbind", id |-> c, row |-> None]) = {}
    BY <2>1 DEF Outdated
  <2> QED BY <1>9, <2>1, <2>2, <2>3, Quietly DEF CheckDelete
<1>10. CASE ReadActivate(a, c)
  <2>1. c \in Ids /\ None \in Rows /\ "activate" \in Steps
    BY DEF Ids, Rows, Steps
  <2>2. Fits("activate", c, None, born')
    BY DEF Fits
  <2>3. Outdated([at |-> "activate", id |-> c, row |-> None]) = {}
    BY DEF Outdated
  <2> QED BY <1>10, <2>1, <2>2, <2>3, Quietly DEF ReadActivate
<1> QED BY <1>5, <1>6, <1>7, <1>8, <1>9, <1>10

(* A handler of keys begins with a binding that exists, or with the one    *)
(* the key has.                                                            *)
LEMMA KeyReads ==
    ASSUME Inv, NEW a \in Admins, NEW k \in Keys,
           \/ \E c \in Chains \cup {None} :
                 MintKey(a, k, c) \/ \E rev \in BOOLEAN : EditKey(a, k, c, rev)
           \/ MintToken(a, k) \/ EditToken(a, k) \/ RevokeKey(a, k)
    PROVE  Begins(a)
<1>1. ASSUME NEW at \in {"insertKey", "writeKey", "rebindKey"}, NEW c \in Chains \cup {None},
             NEW rev \in BOOLEAN, Begin(a, at, k, [chain |-> c, revoked |-> rev]),
             Fresh(k) \/ Known, at = "insertKey" => k \in born',
             at = "writeKey" => c = keys[k].chain
      PROVE  Begins(a)
  <2> DEFINE row == [chain |-> c, revoked |-> rev]
  <2>1. row \in KeyRows /\ row.chain = c
    BY KeyRow
  <2>2. Begin(a, at, k, row)
    BY <1>1
  <2> HIDE DEF row
  <2>3. Fits(at, k, row, born')
    BY <1>1, <2>1 DEF Fits
  <2>4. Outdated([at |-> at, id |-> k, row |-> row]) = {}
    BY <1>1, <2>1 DEF Outdated, Rebound
  <2>5. k \in Ids /\ row \in Rows /\ at \in Steps
    BY <1>1, <2>1 DEF Ids, Rows, Steps
  <2> QED BY <1>1, <2>2, <2>3, <2>4, <2>5, Quietly
<1>2. ASSUME NEW c \in Chains \cup {None}, MintKey(a, k, c) PROVE Begins(a)
  <2>1. k \in born' /\ Fresh(k) /\ Begin(a, "insertKey", k, [chain |-> c, revoked |-> FALSE])
    BY <1>2 DEF MintKey, Fresh
  <2> QED BY <1>1, <2>1
<1>3. ASSUME NEW c \in Chains \cup {None}, NEW r \in BOOLEAN, EditKey(a, k, c, r) PROVE Begins(a)
  <2> DEFINE rev == keys[k].revoked \/ r
             at == IF c = keys[k].chain THEN "writeKey" ELSE "rebindKey"
  <2>1. Known /\ Begin(a, at, k, [chain |-> c, revoked |-> rev])
    BY <1>3 DEF EditKey
  <2>2. rev \in BOOLEAN
    BY Zenon
  <2>3. at \in {"writeKey", "rebindKey"} /\ (at = "writeKey" => c = keys[k].chain)
    OBVIOUS
  <2> HIDE DEF rev, at
  <2> QED BY <1>1, <2>1, <2>2, <2>3
<1>4. k \in KnownKeys => keys[k].chain \in Chains \cup {None}
  BY DEF Inv, TypeOK, KnownKeys, KeyRows
<1>5. CASE MintToken(a, k)
  BY <1>2, <1>5 DEF MintToken
<1>6. CASE EditToken(a, k) \/ RevokeKey(a, k)
  BY <1>3, <1>4, <1>6 DEF EditToken, RevokeKey
<1> QED BY <1>2, <1>3, <1>5, <1>6

(* A handler of providers begins with a proxy that exists or the one the   *)
(* row has, or with a provider no chain uses, as far as it could read.     *)
LEMMA ProviderReads ==
    ASSUME Inv, NEW a \in Admins, NEW p \in Provs,
           \/ \E x \in Proxies \cup {None} :
                 AddProvider(a, p, x) \/ \E e \in BOOLEAN : EditProvider(a, p, e, x)
           \/ \E e \in BOOLEAN : ImportProvider(a, p, e)
           \/ CheckProvider(a, p) \/ CheckProviderFails(a, p)
    PROVE  Begins(a)
<1>1. ASSUME NEW e \in BOOLEAN, NEW x \in Proxies \cup {None},
             Begin(a, "upsertProvider", p, [enabled |-> e, proxy |-> x]),
             Fresh(p) \/ Known, p \in born', x \in KnownProxies \cup {None} \cup raced
      PROVE  Begins(a)
  <2> DEFINE row == [enabled |-> e, proxy |-> x]
  <2>1. row \in ProvRows /\ row.proxy = x
    BY ProvRow
  <2>2. Begin(a, "upsertProvider", p, row)
    BY <1>1
  <2> HIDE DEF row
  <2>3. Fits("upsertProvider", p, row, born')
    BY <1>1, <2>1 DEF Fits
  <2>4. Outdated([at |-> "upsertProvider", id |-> p, row |-> row]) \subseteq raced
    BY <1>1, <2>1 DEF Outdated
  <2>5. p \in Ids /\ row \in Rows /\ "upsertProvider" \in Steps
    BY <2>1 DEF Ids, Rows, Steps
  <2> QED BY <1>1, <2>2, <2>3, <2>4, <2>5, Quietly
<1>2. ASSUME NEW x \in Proxies \cup {None}, AddProvider(a, p, x) PROVE Begins(a)
  <2>1. p \in born' /\ Fresh(p) /\ Begin(a, "upsertProvider", p, [enabled |-> TRUE, proxy |-> x])
    BY <1>2 DEF AddProvider, Fresh
  <2> QED BY <1>1, <1>2, <2>1 DEF AddProvider
<1>3. ASSUME NEW e \in BOOLEAN, NEW x \in Proxies \cup {None}, EditProvider(a, p, e, x)
      PROVE  Begins(a)
  <2>1. p \in KnownProvs /\ Known /\ Begin(a, "upsertProvider", p, [enabled |-> e, proxy |-> x])
    BY <1>3 DEF EditProvider
  <2>2. p \in born'
    BY <2>1 DEF Inv, TypeOK, Known
  <2>3. x \in KnownProxies \cup {None} \cup raced
    BY <1>3, <2>1 DEF EditProvider, Inv, Integrity, ProxiesExist
  <2> QED BY <1>1, <2>1, <2>2, <2>3
<1>4. ASSUME NEW e \in BOOLEAN, ImportProvider(a, p, e) PROVE Begins(a)
  <2>1. p \in KnownProvs => provs[p].proxy \in Proxies \cup {None}
    BY DEF Inv, TypeOK, KnownProvs, ProvRows
  <2> QED BY <1>2, <1>3, <1>4, <2>1 DEF ImportProvider
<1>5. /\ p \in Ids /\ None \in Rows /\ "dropProvider" \in Steps
      /\ Fits("dropProvider", p, None, born')
  BY DEF Ids, Rows, Steps, Fits
<1>6. CASE CheckProvider(a, p)
  <2>1. Outdated([at |-> "dropProvider", id |-> p, row |-> None]) = {}
    BY <1>6 DEF Outdated, CheckProvider
  <2> QED BY <1>5, <1>6, <2>1, Quietly DEF CheckProvider
<1>7. CASE CheckProviderFails(a, p)
  <2>1. Outdated([at |-> "dropProvider", id |-> p, row |-> None]) \subseteq {p}
    BY DEF Outdated
  <2>2. /\ waived' = waived \cup {p} /\ born' = born /\ faults' \in 0 .. MaxFaults
        /\ Start(a, "dropProvider", p, None)
    BY <1>7, Bounds DEF CheckProviderFails, Inv, TypeOK
  <2>3. waived' \subseteq Provs
    BY <2>2 DEF Inv, TypeOK
  <2> QED BY <1>5, <2>1, <2>2, <2>3 DEF Begins
<1> QED BY <1>2, <1>3, <1>4, <1>6, <1>7

(* A handler of proxies relies on nothing it has read.                     *)
LEMMA ProxyReads ==
    ASSUME Inv, NEW a \in Admins, NEW x \in Proxies,
           AddProxy(a, x) \/ EditProxy(a, x) \/ CheckProxy(a, x)
    PROVE  Begins(a)
<1>1. x \in Ids /\ None \in Rows /\ {"upsertProxy", "clearProxy"} \subseteq Steps
  BY DEF Ids, Rows, Steps
<1>2. \A at \in {"upsertProxy", "clearProxy"} : Outdated([at |-> at, id |-> x, row |-> None]) = {}
  BY DEF Outdated
<1>3. CASE AddProxy(a, x)
  <2>1. Fits("upsertProxy", x, None, born')
    BY <1>3 DEF Fits, AddProxy, Fresh
  <2> QED BY <1>1, <1>2, <1>3, <2>1, Quietly DEF AddProxy
<1>4. CASE EditProxy(a, x)
  <2>1. Fits("upsertProxy", x, None, born')
    BY <1>4 DEF Fits, EditProxy, Known, Inv, TypeOK
  <2> QED BY <1>1, <1>2, <1>4, <2>1, Quietly DEF EditProxy
<1>5. CASE CheckProxy(a, x)
  <2>1. Fits("clearProxy", x, None, born')
    BY DEF Fits
  <2> QED BY <1>1, <1>2, <1>5, <2>1, Quietly DEF CheckProxy
<1> QED BY <1>3, <1>4, <1>5

-----------------------------------------------------------------------------
(* Writing                                                                 *)

TablesOK ==
    /\ chains \in [Chains -> ChainRows \cup {Absent}]
    /\ keys \in [Keys -> KeyRows \cup {Absent}]
    /\ provs \in [Provs -> ProvRows \cup {Absent}]
    /\ proxies \in [Proxies -> {None, Absent}]
    /\ bound \in [Keys -> Chains \cup {None}]
    /\ KnownChains \cup KnownKeys \cup KnownProvs \cup KnownProxies \subseteq born

(* A write keeps the invariant if it keeps the tables sound, and if what   *)
(* its handler goes on to rely on is so.                                   *)
LEMMA WriteStep ==
    ASSUME Inv, NEW a \in Admins, NEW l \in Steps, Wrote(a, l),
           l = "idle" \/ Fits(l, adm[a].id, adm[a].row, born),
           TablesOK', Uses', BindingsExist', Integrity',
           UNCHANGED <<ops, uses, faults>>,
           l = "idle" \/ Outdated(adm[a])' \subseteq Excused'
    PROVE  Inv'
<1>1. /\ Slots'
      /\ \A x \in Admins : x # a => adm'[x] = adm[x]
      /\ adm'[a] = IF l = "idle" THEN Idle ELSE [adm[a] EXCEPT !.at = l]
  BY WroteSlots DEF Inv
<1>2. Races /\ waived' = waived
  BY DEF Wrote
<1>3. TypeOK'
  <2>1. raced' \subseteq Chains \cup Keys \cup Provs \cup Proxies
    BY <1>1, <1>2, RacedType
  <2> QED BY <1>2, <2>1 DEF Inv, TypeOK, TablesOK
<1>4. Current'
  <2>1. l = "idle" => Outdated(adm[a])' = {}
    BY <1>1 DEF Outdated, Idle
  <2>2. Outdated(adm[a])' \subseteq Excused'
    BY <2>1
  <2> QED BY <1>1, <1>2, <2>2, Bystanders DEF Current
<1> QED BY <1>1, <1>3, <1>4 DEF Inv

(* What the writer relied on is so, or was overtaken, or not checked; more *)
(* may be overtaken by its write.                                          *)
LEMMA OwnReading ==
    ASSUME Inv, NEW a \in Admins, NEW l, Wrote(a, l)
    PROVE  /\ Integrity /\ Outdated(adm[a]) \subseteq Excused
           /\ raced \subseteq raced' /\ waived' = waived /\ Excused \subseteq Excused'
BY Bystanders DEF Wrote, Inv, Current

(* Only providers go unchecked.                                            *)
LEMMA NotWaived ==
    ASSUME Inv, NEW x \in Chains \cup Keys \cup Proxies, x \in Excused
    PROVE  x \in raced
BY CatalogAssumption DEF Inv, TypeOK, Excused

(* SaveChain: a chain is added or replaced; its active flag is the one the *)
(* row has.                                                                *)
LEMMA SaveChainStep ==
    ASSUME Inv, NEW a \in Admins, SaveChain(a)
    PROVE  Inv'
<1> DEFINE c == adm[a].id
           row == adm[a].row
<1>1. /\ c \in Chains /\ c \in born /\ row \in ChainRows /\ row # Absent
      /\ chains' = [chains EXCEPT ![c] = row]
      /\ Wrote(a, "idle") /\ "idle" \in Steps
      /\ UNCHANGED <<keys, provs, proxies, req, bound, ops, uses, faults, born>>
  BY CatalogAssumption DEF SaveChain, At, Inv, Slots, Fits, Wrote, Steps
<1>2. /\ Integrity /\ row.uses \subseteq KnownProvs \cup Excused
      /\ c \notin Excused => (row.active <=> c \in ActiveChains)
      /\ raced \subseteq raced' /\ Excused \subseteq Excused'
  <2>1. Outdated(adm[a]) =
            {d \in {c} : ~(row.active <=> d \in ActiveChains)} \cup (row.uses \ KnownProvs)
    BY DEF Outdated, SaveChain, At
  <2> QED BY <1>1, <2>1, OwnReading
<1> HIDE DEF c, row
<1>3. /\ \A d \in Chains : chains'[d] = IF d = c THEN row ELSE chains[d]
      /\ KnownChains' = KnownChains \cup {c}
  BY <1>1 DEF Inv, TypeOK, KnownChains
<1>4. TablesOK'
  BY <1>1, <1>3 DEF Inv, TypeOK, TablesOK, KnownKeys, KnownProvs, KnownProxies
<1>5. Uses' /\ BindingsExist'
  <2>1. Bindings \subseteq Bindings'
    BY <1>3 DEF Bindings
  <2> QED BY <1>1, <2>1 DEF Inv, Uses, BindingsExist, KnownKeys
<1>6. Integrity'
  <2>1. OneActive'
    <3> SUFFICES ASSUME raced' \cap Chains = {} PROVE \E d \in Chains : ActiveChains' = {d}
      BY DEF OneActive
    <3>1. c \notin Excused /\ raced \cap Chains = {}
      BY <1>1, <1>2, NotWaived
    <3>2. ActiveChains' = ActiveChains
      BY <1>1, <1>2, <1>3, <3>1 DEF ActiveChains
    <3> QED BY <1>2, <3>1, <3>2 DEF Integrity, OneActive
  <2>2. ChainsComplete'
    BY <1>1, <1>2, <1>3 DEF Integrity, ChainsComplete, KnownProvs
  <2> QED BY <1>1, <1>2, <2>1, <2>2 DEF Integrity, ProxiesExist, AsBound,
             KnownProvs, KnownProxies, KnownKeys
<1> QED BY <1>1, <1>4, <1>5, <1>6, WriteStep

(* The binding of a key to chain c is gone, from its row and from what was *)
(* promised.                                                               *)
LEMMA UnboundKeys ==
    ASSUME Inv, NEW c \in Chains, keys' = Unbound(c), bound' = Released(c), raced \subseteq raced'
    PROVE  /\ keys' \in [Keys -> KeyRows \cup {Absent}] /\ bound' \in [Keys -> Chains \cup {None}]
           /\ KnownKeys' = KnownKeys
           /\ \A k \in KnownKeys : keys'[k].chain = IF keys[k].chain = c THEN None ELSE keys[k].chain
           /\ AsBound => AsBound'
<1>1. ASSUME NEW k \in Keys
      PROVE  /\ keys'[k] \in KeyRows \cup {Absent} /\ (keys'[k] = Absent <=> keys[k] = Absent)
             /\ keys[k] # Absent =>
                  keys'[k].chain = IF keys[k].chain = c THEN None ELSE keys[k].chain
  <2>1. CASE keys[k] # Absent /\ keys[k].chain = c
    <3>1. keys[k].revoked \in BOOLEAN
      BY <2>1 DEF Inv, TypeOK, KeyRows
    <3> DEFINE row == [chain |-> None, revoked |-> keys[k].revoked]
    <3>2. row \in KeyRows /\ row.chain = None
      BY <3>1, KeyRow
    <3>3. keys'[k] = row
      BY <2>1 DEF Unbound
    <3> HIDE DEF row
    <3> QED BY <2>1, <3>2, <3>3, CatalogAssumption
  <2>2. CASE ~(keys[k] # Absent /\ keys[k].chain = c)
    BY <2>2 DEF Unbound, Inv, TypeOK
  <2> QED BY <2>1, <2>2
<1>2. keys' \in [Keys -> KeyRows \cup {Absent}] /\ KnownKeys' = KnownKeys
  BY <1>1 DEF Unbound, KnownKeys
<1>3. bound' \in [Keys -> Chains \cup {None}]
  BY DEF Inv, TypeOK, Released
<1> QED BY <1>1, <1>2, <1>3 DEF KnownKeys, AsBound, Released

(* ClearKeyChainRefs                                                       *)
LEMMA UnbindStep ==
    ASSUME Inv, NEW a \in Admins, Unbind(a)
    PROVE  Inv'
<1> DEFINE c == adm[a].id
<1>1. /\ c \in Chains /\ keys' = Unbound(c) /\ bound' = Released(c)
      /\ Wrote(a, "dropChain") /\ "dropChain" \in Steps
      /\ Fits("dropChain", adm[a].id, adm[a].row, born)
      /\ UNCHANGED <<chains, provs, proxies, req, ops, uses, faults, born>>
  BY DEF Unbind, At, Inv, Slots, Fits, Wrote, Steps
<1>2. /\ Integrity /\ {c} \cap ActiveChains \subseteq Excused
      /\ raced \subseteq raced' /\ Excused \subseteq Excused'
  <2>1. Outdated(adm[a]) = {c} \cap ActiveChains
    BY DEF Outdated, Unbind, At
  <2> QED BY <1>1, <2>1, OwnReading
<1>3. adm'[a] = [adm[a] EXCEPT !.at = "dropChain"]
  BY <1>1, WroteSlots DEF Inv
<1>4. adm'[a].id = c /\ adm'[a].at = "dropChain"
  BY <1>3 DEF Inv, Slots
<1> HIDE DEF c
<1>5. /\ keys' \in [Keys -> KeyRows \cup {Absent}] /\ bound' \in [Keys -> Chains \cup {None}]
      /\ KnownKeys' = KnownKeys
      /\ \A k \in KnownKeys : keys'[k].chain = IF keys[k].chain = c THEN None ELSE keys[k].chain
      /\ AsBound => AsBound'
  BY <1>1, <1>2, UnboundKeys
<1>6. TablesOK'
  BY <1>1, <1>5 DEF Inv, TypeOK, TablesOK, KnownChains, KnownProvs, KnownProxies
<1>7. Bindings' = Bindings
  BY <1>1 DEF Bindings, KnownChains
<1>8. Uses'
  BY <1>1, <1>7 DEF Inv, Uses
<1>9. BindingsExist'
  BY <1>5, <1>7 DEF Inv, BindingsExist, Bindings
<1>10. Integrity' /\ Outdated(adm[a])' \subseteq Excused'
  <2>1. ActiveChains' = ActiveChains
    BY <1>1 DEF ActiveChains, KnownChains
  <2>2. Integrity'
    BY <1>1, <1>2, <1>5, <2>1 DEF Integrity, OneActive, ChainsComplete, ProxiesExist,
       KnownChains, KnownProvs, KnownProxies
  <2>3. Outdated(adm[a])' = {c} \cap ActiveChains'
    BY <1>4 DEF Outdated
  <2> QED BY <1>2, <2>1, <2>2, <2>3
<1> QED BY <1>1, <1>6, <1>8, <1>9, <1>10, WriteStep

(* DeleteChain: searches that hold the chain see that it is gone.          *)
LEMMA DropChainStep ==
    ASSUME Inv, NEW a \in Admins, DropChain(a)
    PROVE  Inv'
<1> DEFINE c == adm[a].id
<1>1. /\ c \in Chains /\ chains' = [chains EXCEPT ![c] = Absent]
      /\ keys' = Unbound(c) /\ bound' = Released(c)
      /\ req' = [r \in Callers |-> IF req[r].row # None /\ req[r].row.chain = c
                                   THEN [req[r] EXCEPT !.gone = TRUE] ELSE req[r]]
      /\ Wrote(a, "idle") /\ "idle" \in Steps
      /\ UNCHANGED <<provs, proxies, ops, uses, faults, born>>
  BY DEF DropChain, DeleteChain, At, Inv, Slots, Fits, Wrote, Steps
<1>2. /\ Integrity /\ {c} \cap ActiveChains \subseteq Excused
      /\ raced \subseteq raced' /\ Excused \subseteq Excused'
  <2>1. Outdated(adm[a]) = {c} \cap ActiveChains
    BY DEF Outdated, DropChain, At
  <2> QED BY <1>1, <2>1, OwnReading
<1> HIDE DEF c
<1>3. /\ keys' \in [Keys -> KeyRows \cup {Absent}] /\ bound' \in [Keys -> Chains \cup {None}]
      /\ KnownKeys' = KnownKeys
      /\ \A k \in KnownKeys : keys'[k].chain = IF keys[k].chain = c THEN None ELSE keys[k].chain
      /\ AsBound => AsBound'
  BY <1>1, <1>2, UnboundKeys
<1>4. /\ KnownChains' = KnownChains \ {c}
      /\ \A d \in KnownChains : d # c => chains'[d] = chains[d]
  BY <1>1 DEF Inv, TypeOK, KnownChains
<1>5. TablesOK'
  BY <1>1, <1>3, <1>4 DEF Inv, TypeOK, TablesOK, KnownProvs, KnownProxies
<1>6. Bindings' = Bindings \ {c}
  BY <1>1, <1>4, CatalogAssumption DEF Bindings
<1>7. Uses'
  <2> DEFINE Shape == [at: {"idle", "touch", "resolve", "ran", "missing", "noActive"},
                       key: Keys \cup {None}, row: KeyRows \cup {None},
                       asOf: Chains \cup {None}, gone: BOOLEAN]
  <2>1. ASSUME NEW r \in Callers
        PROVE  /\ req'[r] \in Shape
               /\ req'[r].at \in {"touch", "resolve"} =>
                     /\ req'[r].key \in Keys /\ req'[r].row \in KeyRows
                     /\ req'[r].row.chain \in Bindings' \/ req'[r].gone
               /\ req'[r].at = "missing" => req'[r].gone
    <3>1. CASE req[r].row # None /\ req[r].row.chain = c
      <4>1. req'[r] = [at |-> req[r].at, key |-> req[r].key, row |-> req[r].row,
                       asOf |-> req[r].asOf, gone |-> TRUE]
        BY <1>1, <3>1 DEF Inv, Uses
      <4> QED BY <4>1 DEF Inv, Uses
    <3>2. CASE ~(req[r].row # None /\ req[r].row.chain = c)
      <4>1. req'[r] = req[r]
        BY <1>1, <3>2
      <4>2. req[r].row \in KeyRows => req[r].row.chain # c
        BY <3>2, CatalogAssumption
      <4> QED BY <1>6, <4>1, <4>2 DEF Inv, Uses
    <3> QED BY <3>1, <3>2
  <2>2. req' \in [Callers -> Shape]
    BY <1>1, <2>1
  <2> QED BY <2>1, <2>2 DEF Uses
<1>8. BindingsExist'
  <2>1. None \in Bindings' /\ \A d \in Bindings : d # c => d \in Bindings'
    BY <1>1, <1>6, CatalogAssumption DEF Bindings
  <2> QED BY <1>3, <2>1 DEF Inv, BindingsExist
<1>9. Integrity'
  <2>1. OneActive'
    <3> SUFFICES ASSUME raced' \cap Chains = {} PROVE \E d \in Chains : ActiveChains' = {d}
      BY DEF OneActive
    <3>1. c \notin ActiveChains /\ raced \cap Chains = {}
      BY <1>1, <1>2, NotWaived
    <3>2. ActiveChains' = ActiveChains
      BY <1>4, <3>1 DEF ActiveChains
    <3> QED BY <1>2, <3>1, <3>2 DEF Integrity, OneActive
  <2>2. ChainsComplete'
    BY <1>1, <1>2, <1>4 DEF Integrity, ChainsComplete, KnownProvs
  <2> QED BY <1>1, <1>2, <1>3, <2>1, <2>2 DEF Integrity, ProxiesExist, KnownProvs, KnownProxies
<1> QED BY <1>1, <1>5, <1>7, <1>8, <1>9, WriteStep

(* ActivateChain: all flags but one are cleared.                           *)
LEMMA ActivateStep ==
    ASSUME Inv, NEW a \in Admins, Activate(a)
    PROVE  Inv'
<1> DEFINE c == adm[a].id
<1>1. /\ c \in Chains
      /\ chains' = IF c \in KnownChains THEN OnlyActive(c) ELSE chains
      /\ Wrote(a, "idle") /\ "idle" \in Steps
      /\ UNCHANGED <<keys, provs, proxies, req, bound, ops, uses, faults, born>>
  BY DEF Activate, At, Inv, Slots, Fits, Wrote, Steps
<1>2. Integrity /\ raced \subseteq raced' /\ Excused \subseteq Excused'
  BY <1>1, OwnReading
<1> HIDE DEF c
<1>3. CASE c \notin KnownChains
  <2>1. UNCHANGED <<chains, keys, provs, proxies, req, bound, born>>
    BY <1>1, <1>3
  <2>2. TablesOK' /\ Uses' /\ BindingsExist'
    BY <2>1 DEF Inv, TypeOK, TablesOK, Uses, BindingsExist, Bindings, KnownChains, KnownKeys,
       KnownProvs, KnownProxies
  <2>3. Integrity'
    BY <1>2, <2>1 DEF Integrity, OneActive, ChainsComplete, ProxiesExist, AsBound, ActiveChains,
       KnownChains, KnownKeys, KnownProvs, KnownProxies
  <2> QED BY <1>1, <2>2, <2>3, WriteStep
<1>4. CASE c \in KnownChains
  <2>1. ASSUME NEW d \in Chains
        PROVE  /\ chains'[d] \in ChainRows \cup {Absent} /\ (chains'[d] = Absent <=> chains[d] = Absent)
               /\ chains[d] # Absent => /\ chains'[d].active <=> d = c
                                        /\ chains'[d].uses = chains[d].uses
    <3>1. CASE chains[d] = Absent
      BY <1>1, <1>4, <3>1 DEF OnlyActive
    <3>2. CASE chains[d] # Absent
      <4> DEFINE act == d = c
                 U == chains[d].uses
                 row == [active |-> act, uses |-> U]
      <4>1. act \in BOOLEAN
        BY Zenon
      <4>2. U \in SUBSET Provs
        BY <3>2 DEF Inv, TypeOK, ChainRows
      <4>3. chains'[d] = row
        BY <1>1, <1>4, <3>2 DEF OnlyActive
      <4>4. row \in ChainRows /\ row.active = act /\ row.uses = U
        <5> HIDE DEF act, U
        <5> QED BY <4>1, <4>2, ChainRow
      <4> HIDE DEF row
      <4> QED BY <3>2, <4>3, <4>4, CatalogAssumption
    <3> QED BY <3>1, <3>2
  <2>2. KnownChains' = KnownChains
    BY <2>1 DEF KnownChains
  <2>3. ActiveChains' = {c}
    BY <1>4, <2>1, <2>2 DEF ActiveChains, KnownChains
  <2>4. chains' \in [Chains -> ChainRows \cup {Absent}]
    BY <1>1, <1>4, <2>1 DEF OnlyActive
  <2>5. TablesOK'
    BY <1>1, <2>2, <2>4 DEF Inv, TypeOK, TablesOK, KnownKeys, KnownProvs, KnownProxies
  <2>6. Uses' /\ BindingsExist'
    BY <1>1, <2>2 DEF Inv, Uses, BindingsExist, Bindings, KnownKeys
  <2>7. Integrity'
    <3>1. OneActive'
      BY <1>1, <2>3 DEF OneActive
    <3>2. ChainsComplete'
      BY <1>1, <1>2, <2>1, <2>2 DEF Integrity, ChainsComplete, KnownChains, KnownProvs
    <3> QED BY <1>1, <1>2, <3>1, <3>2 DEF Integrity, ProxiesExist, AsBound, KnownKeys,
               KnownProvs, KnownProxies
  <2> QED BY <1>1, <2>5, <2>6, <2>7, WriteStep
<1> QED BY <1>3, <1>4

(* CreateAPIKey: the row is refused when its chain has gone.               *)
LEMMA InsertKeyStep ==
    ASSUME Inv, NEW a \in Admins, InsertKey(a)
    PROVE  Inv'
<1> DEFINE k == adm[a].id
           row == adm[a].row
<1>1. /\ k \in Keys /\ k \in born /\ row \in KeyRows /\ row # Absent
      /\ IF References(row.chain)
         THEN keys' = [keys EXCEPT ![k] = row] /\ bound' = [bound EXCEPT ![k] = row.chain]
         ELSE UNCHANGED <<keys, bound>>
      /\ Wrote(a, "idle") /\ "idle" \in Steps
      /\ UNCHANGED <<chains, provs, proxies, req, ops, uses, faults, born>>
  BY CatalogAssumption DEF InsertKey, At, Inv, Slots, Fits, Wrote, Steps
<1>2. Integrity /\ raced \subseteq raced' /\ Excused \subseteq Excused'
  BY <1>1, OwnReading
<1>3. row.chain \in Chains \cup {None}
  BY <1>1 DEF KeyRows
<1> HIDE DEF k, row
<1>4. Bindings' = Bindings /\ KnownChains' = KnownChains
  BY <1>1 DEF Bindings, KnownChains
<1>5. /\ keys' \in [Keys -> KeyRows \cup {Absent}] /\ bound' \in [Keys -> Chains \cup {None}]
      /\ \A j \in Keys : j # k => keys'[j] = keys[j] /\ bound'[j] = bound[j]
      /\ \/ keys'[k] = row /\ row.chain \in Bindings /\ bound'[k] = row.chain
         \/ keys'[k] = keys[k] /\ bound'[k] = bound[k]
  BY <1>1, <1>3 DEF Inv, TypeOK, References
<1>6. KnownKeys' \subseteq KnownKeys \cup {k}
  BY <1>5 DEF KnownKeys
<1>7. TablesOK'
  BY <1>1, <1>4, <1>5, <1>6 DEF Inv, TypeOK, TablesOK, KnownProvs, KnownProxies
<1>8. Uses' /\ BindingsExist'
  BY <1>1, <1>4, <1>5 DEF Inv, Uses, BindingsExist, KnownKeys
<1>9. Integrity'
  <2>1. AsBound'
    BY <1>2, <1>5 DEF Integrity, AsBound, KnownKeys
  <2> QED BY <1>1, <1>2, <1>4, <2>1 DEF Integrity, OneActive, ChainsComplete, ProxiesExist,
             ActiveChains, KnownProvs, KnownProxies
<1> QED BY <1>1, <1>7, <1>8, <1>9, WriteStep

(* The row of a key is replaced, or it stays: its chain exists.            *)
LEMMA KeyReplaced ==
    ASSUME Inv, NEW k \in Keys, NEW row \in KeyRows, keys' = UpdatedKeys(k, row)
    PROVE  /\ keys' \in [Keys -> KeyRows \cup {Absent}] /\ KnownKeys' = KnownKeys
           /\ \A j \in Keys : j # k => keys'[j] = keys[j]
           /\ \/ k \in KnownKeys /\ keys'[k] = row /\ row.chain \in Bindings
              \/ keys'[k] = keys[k] /\ (k \in KnownKeys => row.chain \notin Bindings)
<1>1. row # Absent
  BY CatalogAssumption
<1> QED BY <1>1 DEF Inv, TypeOK, UpdatedKeys, References, KnownKeys

(* UpdateAPIKey                                                            *)
LEMMA WriteKeyStep ==
    ASSUME Inv, NEW a \in Admins, WriteKey(a)
    PROVE  Inv'
<1> DEFINE k == adm[a].id
           row == adm[a].row
           at == adm[a].at
<1>1. /\ k \in Keys /\ row \in KeyRows /\ at \in {"writeKey", "rebindKey"}
      /\ keys' = UpdatedKeys(k, row)
      /\ bound' = IF at = "rebindKey" /\ References(row.chain)
                  THEN [bound EXCEPT ![k] = row.chain] ELSE bound
      /\ Wrote(a, "idle") /\ "idle" \in Steps
      /\ UNCHANGED <<chains, provs, proxies, req, ops, uses, faults, born>>
  BY DEF WriteKey, At, Inv, Slots, Fits, Wrote, Steps
<1>2. /\ Integrity /\ raced \subseteq raced' /\ Excused \subseteq Excused'
      /\ at = "writeKey" => Rebound(k, row) \subseteq Excused
  <2>1. at = "writeKey" => Outdated(adm[a]) = Rebound(k, row)
    BY DEF Outdated
  <2> QED BY <1>1, <2>1, OwnReading
<1>3. row.chain \in Chains \cup {None}
  BY <1>1 DEF KeyRows
<1> HIDE DEF k, row, at
<1>4. Bindings' = Bindings /\ KnownChains' = KnownChains
  BY <1>1 DEF Bindings, KnownChains
<1>5. /\ keys' \in [Keys -> KeyRows \cup {Absent}] /\ KnownKeys' = KnownKeys
      /\ \A j \in Keys : j # k => keys'[j] = keys[j]
      /\ \/ k \in KnownKeys /\ keys'[k] = row /\ row.chain \in Bindings
         \/ keys'[k] = keys[k] /\ (k \in KnownKeys => row.chain \notin Bindings)
  BY <1>1, KeyReplaced
<1>6. /\ bound' \in [Keys -> Chains \cup {None}]
      /\ \A j \in Keys : j # k => bound'[j] = bound[j]
      /\ at = "rebindKey" /\ row.chain \in Bindings => bound'[k] = row.chain
      /\ at = "writeKey" \/ row.chain \notin Bindings => bound'[k] = bound[k]
  BY <1>1, <1>3 DEF Inv, TypeOK, References
<1>7. TablesOK'
  BY <1>1, <1>4, <1>5, <1>6 DEF Inv, TypeOK, TablesOK, KnownProvs, KnownProxies
<1>8. Uses' /\ BindingsExist'
  BY <1>1, <1>4, <1>5 DEF Inv, Uses, BindingsExist, KnownKeys
<1>9. Integrity'
  <2>1. AsBound'
    <3> SUFFICES ASSUME NEW j \in KnownKeys, j \notin raced PROVE keys'[j].chain = bound'[j]
      BY <1>2, <1>5 DEF AsBound
    <3>1. keys[j].chain = bound[j] /\ j \in Keys
      BY <1>2 DEF Integrity, AsBound, KnownKeys
    <3>2. at = "writeKey" /\ j = k => row.chain = keys[j].chain
      BY <1>1, <1>2, NotWaived DEF Rebound
    <3> QED BY <1>1, <1>5, <1>6, <3>1, <3>2
  <2> QED BY <1>1, <1>2, <1>4, <2>1 DEF Integrity, OneActive, ChainsComplete, ProxiesExist,
             ActiveChains, KnownProvs, KnownProxies
<1> QED BY <1>1, <1>7, <1>8, <1>9, WriteStep

-----------------------------------------------------------------------------
(* What a write to the providers or the proxies leaves as it is.           *)
LEMMA OtherTables ==
    ASSUME Inv, UNCHANGED <<chains, keys, req, bound>>, raced \subseteq raced'
    PROVE  /\ Uses' /\ BindingsExist' /\ KnownChains' = KnownChains /\ KnownKeys' = KnownKeys
           /\ OneActive => OneActive'
           /\ AsBound => AsBound'
BY DEF Inv, Uses, BindingsExist, Bindings, KnownChains, KnownKeys, OneActive, AsBound, ActiveChains

(* UpsertProvider                                                          *)
LEMMA UpsertProviderStep ==
    ASSUME Inv, NEW a \in Admins, UpsertProvider(a)
    PROVE  Inv'
<1> DEFINE p == adm[a].id
           row == adm[a].row
<1>1. /\ p \in Provs /\ p \in born /\ row \in ProvRows /\ row # Absent
      /\ provs' = [provs EXCEPT ![p] = row]
      /\ Wrote(a, "idle") /\ "idle" \in Steps
      /\ UNCHANGED <<chains, keys, proxies, req, bound, ops, uses, faults, born>>
  BY CatalogAssumption DEF UpsertProvider, At, Inv, Slots, Fits, Wrote, Steps
<1>2. /\ Integrity /\ row.proxy \in KnownProxies \cup {None} \cup raced
      /\ raced \subseteq raced' /\ Excused \subseteq Excused'
  <2>1. Outdated(adm[a]) = {row.proxy} \ (KnownProxies \cup {None})
    BY DEF Outdated, UpsertProvider, At
  <2>2. row.proxy \in Proxies \cup {None}
    BY <1>1 DEF ProvRows
  <2> QED BY <1>1, <2>1, <2>2, OwnReading, NotWaived
<1> HIDE DEF p, row
<1>3. /\ \A q \in Provs : provs'[q] = IF q = p THEN row ELSE provs[q]
      /\ provs' \in [Provs -> ProvRows \cup {Absent}] /\ KnownProvs' = KnownProvs \cup {p}
  BY <1>1 DEF Inv, TypeOK, KnownProvs
<1>4. /\ Uses' /\ BindingsExist' /\ KnownChains' = KnownChains /\ KnownKeys' = KnownKeys
      /\ (OneActive => OneActive') /\ (AsBound => AsBound')
  BY <1>1, <1>2, OtherTables
<1>5. TablesOK'
  BY <1>1, <1>3, <1>4 DEF Inv, TypeOK, TablesOK, KnownProxies
<1>6. Integrity'
  BY <1>1, <1>2, <1>3, <1>4 DEF Integrity, ChainsComplete, ProxiesExist, KnownProxies
<1> QED BY <1>1, <1>4, <1>5, <1>6, WriteStep

(* DeleteProvider: no chain used it when that was checked.                 *)
LEMMA DropProviderStep ==
    ASSUME Inv, NEW a \in Admins, DropProvider(a)
    PROVE  Inv'
<1> DEFINE p == adm[a].id
<1>1. /\ p \in Provs /\ provs' = [provs EXCEPT ![p] = Absent]
      /\ Wrote(a, "idle") /\ "idle" \in Steps
      /\ UNCHANGED <<chains, keys, proxies, req, bound, ops, uses, faults, born>>
  BY DEF DropProvider, At, Inv, Slots, Fits, Wrote, Steps
<1>2. /\ Integrity /\ (ChainsUsing(p) # {} => p \in Excused)
      /\ raced \subseteq raced' /\ Excused \subseteq Excused'
  <2>1. Outdated(adm[a]) = {q \in {p} : ChainsUsing(q) # {}}
    BY DEF Outdated, DropProvider, At
  <2> QED BY <1>1, <2>1, OwnReading
<1> HIDE DEF p
<1>3. /\ \A q \in Provs : q # p => provs'[q] = provs[q]
      /\ provs' \in [Provs -> ProvRows \cup {Absent}] /\ KnownProvs' = KnownProvs \ {p}
  BY <1>1 DEF Inv, TypeOK, KnownProvs
<1>4. /\ Uses' /\ BindingsExist' /\ KnownChains' = KnownChains /\ KnownKeys' = KnownKeys
      /\ (OneActive => OneActive') /\ (AsBound => AsBound')
  BY <1>1, <1>2, OtherTables
<1>5. TablesOK'
  BY <1>1, <1>3, <1>4 DEF Inv, TypeOK, TablesOK, KnownProxies
<1>6. Integrity'
  <2>1. ChainsComplete'
    BY <1>1, <1>2, <1>3, <1>4 DEF Integrity, ChainsComplete, ChainsUsing
  <2>2. ProxiesExist'
    BY <1>1, <1>2, <1>3 DEF Integrity, ProxiesExist, KnownProvs, KnownProxies
  <2> QED BY <1>2, <1>4, <2>1, <2>2 DEF Integrity
<1> QED BY <1>1, <1>4, <1>5, <1>6, WriteStep

(* UpsertProxy                                                             *)
LEMMA UpsertProxyStep ==
    ASSUME Inv, NEW a \in Admins, UpsertProxy(a)
    PROVE  Inv'
<1> DEFINE x == adm[a].id
<1>1. /\ x \in Proxies /\ x \in born /\ proxies' = [proxies EXCEPT ![x] = None]
      /\ Wrote(a, "idle") /\ "idle" \in Steps
      /\ UNCHANGED <<chains, keys, provs, req, bound, ops, uses, faults, born>>
  BY DEF UpsertProxy, At, Inv, Slots, Fits, Wrote, Steps
<1>2. Integrity /\ raced \subseteq raced' /\ Excused \subseteq Excused'
  BY <1>1, OwnReading
<1> HIDE DEF x
<1>3. proxies' \in [Proxies -> {None, Absent}] /\ KnownProxies' = KnownProxies \cup {x}
  BY <1>1, CatalogAssumption DEF Inv, TypeOK, KnownProxies
<1>4. /\ Uses' /\ BindingsExist' /\ KnownChains' = KnownChains /\ KnownKeys' = KnownKeys
      /\ (OneActive => OneActive') /\ (AsBound => AsBound')
  BY <1>1, <1>2, OtherTables
<1>5. TablesOK'
  BY <1>1, <1>3, <1>4 DEF Inv, TypeOK, TablesOK, KnownProvs
<1>6. Integrity'
  BY <1>1, <1>2, <1>3, <1>4 DEF Integrity, ChainsComplete, ProxiesExist, KnownProvs
<1> QED BY <1>1, <1>4, <1>5, <1>6, WriteStep

(* ClearProxyRefs                                                          *)
LEMMA ClearProxyStep ==
    ASSUME Inv, NEW a \in Admins, ClearProxy(a)
    PROVE  Inv'
<1> DEFINE x == adm[a].id
<1>1. /\ x \in Proxies /\ provs' = WithoutProxy(x)
      /\ Wrote(a, "dropProxy") /\ "dropProxy" \in Steps
      /\ Fits("dropProxy", adm[a].id, adm[a].row, born)
      /\ UNCHANGED <<chains, keys, proxies, req, bound, ops, uses, faults, born>>
  BY DEF ClearProxy, At, Inv, Slots, Fits, Wrote, Steps
<1>2. Integrity /\ raced \subseteq raced' /\ Excused \subseteq Excused'
  BY <1>1, OwnReading
<1>3. adm'[a] = [adm[a] EXCEPT !.at = "dropProxy"]
  BY <1>1, WroteSlots DEF Inv
<1>4. adm'[a].id = x /\ adm'[a].at = "dropProxy"
  BY <1>3 DEF Inv, Slots
<1> HIDE DEF x
<1>5. ASSUME NEW p \in Provs
      PROVE  /\ provs'[p] \in ProvRows \cup {Absent} /\ (provs'[p] = Absent <=> provs[p] = Absent)
             /\ provs[p] # Absent =>
                  provs'[p].proxy = IF provs[p].proxy = x THEN None ELSE provs[p].proxy
  <2>1. CASE provs[p] # Absent /\ provs[p].proxy = x
    <3>1. provs[p].enabled \in BOOLEAN
      BY <2>1 DEF Inv, TypeOK, ProvRows
    <3> DEFINE row == [enabled |-> provs[p].enabled, proxy |-> None]
    <3>2. row \in ProvRows /\ row.proxy = None
      BY <3>1, ProvRow
    <3>3. provs'[p] = row
      BY <1>1, <2>1 DEF WithoutProxy
    <3> HIDE DEF row
    <3> QED BY <2>1, <3>2, <3>3, CatalogAssumption
  <2>2. CASE ~(provs[p] # Absent /\ provs[p].proxy = x)
    BY <1>1, <2>2 DEF WithoutProxy, Inv, TypeOK
  <2> QED BY <2>1, <2>2
<1>6. provs' \in [Provs -> ProvRows \cup {Absent}] /\ KnownProvs' = KnownProvs
  BY <1>1, <1>5 DEF WithoutProxy, KnownProvs
<1>7. /\ Uses' /\ BindingsExist' /\ KnownChains' = KnownChains /\ KnownKeys' = KnownKeys
      /\ (OneActive => OneActive') /\ (AsBound => AsBound')
  BY <1>1, <1>2, OtherTables
<1>8. TablesOK'
  BY <1>1, <1>6, <1>7 DEF Inv, TypeOK, TablesOK, KnownProxies
<1>9. Integrity' /\ Outdated(adm[a])' \subseteq Excused'
  <2>1. ChainsComplete'
    BY <1>1, <1>2, <1>6, <1>7 DEF Integrity, ChainsComplete
  <2>2. ProxiesExist'
    BY <1>1, <1>2, <1>5, <1>6 DEF Integrity, ProxiesExist, KnownProvs, KnownProxies
  <2>3. x # None
    BY <1>1, CatalogAssumption
  <2>4. \A p \in KnownProvs' : provs'[p].proxy # x
    BY <1>5, <1>6, <2>3 DEF KnownProvs
  <2>5. Outdated(adm[a])' = {}
    BY <1>4, <2>4 DEF Outdated
  <2> QED BY <1>2, <1>7, <2>1, <2>2, <2>5 DEF Integrity
<1> QED BY <1>1, <1>7, <1>8, <1>9, WriteStep

(* DeleteProxy                                                             *)
LEMMA DropProxyStep ==
    ASSUME Inv, NEW a \in Admins, DropProxy(a)
    PROVE  Inv'
<1> DEFINE x == adm[a].id
<1>1. /\ x \in Proxies /\ proxies' = [proxies EXCEPT ![x] = Absent]
      /\ Wrote(a, "idle") /\ "idle" \in Steps
      /\ UNCHANGED <<chains, keys, provs, req, bound, ops, uses, faults, born>>
  BY DEF DropProxy, At, Inv, Slots, Fits, Wrote, Steps
<1>2. /\ Integrity /\ (x \in raced \/ \A p \in KnownProvs : provs[p].proxy # x)
      /\ raced \subseteq raced' /\ Excused \subseteq Excused'
  <2>1. Outdated(adm[a]) = {y \in {x} : \E p \in KnownProvs : provs[p].proxy = y}
    BY DEF Outdated, DropProxy, At
  <2> QED BY <1>1, <2>1, OwnReading, NotWaived
<1> HIDE DEF x
<1>3. proxies' \in [Proxies -> {None, Absent}] /\ KnownProxies' = KnownProxies \ {x}
  BY <1>1 DEF Inv, TypeOK, KnownProxies
<1>4. /\ Uses' /\ BindingsExist' /\ KnownChains' = KnownChains /\ KnownKeys' = KnownKeys
      /\ (OneActive => OneActive') /\ (AsBound => AsBound')
  BY <1>1, <1>2, OtherTables
<1>5. TablesOK'
  BY <1>1, <1>3, <1>4 DEF Inv, TypeOK, TablesOK, KnownProvs
<1>6. Integrity'
  BY <1>1, <1>2, <1>3, <1>4 DEF Integrity, ChainsComplete, ProxiesExist, KnownProvs
<1> QED BY <1>1, <1>4, <1>5, <1>6, WriteStep

-----------------------------------------------------------------------------
(* Single statements, and searches                                         *)

(* A statement of its own moves no handler, and keeps the invariant if it  *)
(* keeps the tables sound.                                                 *)
LEMMA StatementStep ==
    ASSUME Inv, Races, UNCHANGED <<adm, born, waived, faults>>,
           TablesOK', Uses', BindingsExist', Integrity',
           ops' \in 0 .. MaxOps, uses' \in 0 .. MaxUses
    PROVE  Inv'
<1>1. Slots'
  BY DEF Inv, Slots
<1>2. TypeOK'
  <2>1. raced' \subseteq Chains \cup Keys \cup Provs \cup Proxies
    BY <1>1, RacedType
  <2> QED BY <2>1 DEF Inv, TypeOK, TablesOK
<1>3. Current'
  BY Bystanders DEF Current
<1> QED BY <1>1, <1>2, <1>3 DEF Inv

(* DeleteAPIKey                                                            *)
LEMMA DeleteKeyStep ==
    ASSUME Inv, NEW a \in Admins, NEW k \in Keys, DeleteKey(a, k)
    PROVE  Inv'
<1>1. /\ Races /\ keys' = [keys EXCEPT ![k] = Absent] /\ ops' \in 0 .. MaxOps
      /\ UNCHANGED <<chains, provs, proxies, req, bound, adm, born, waived, uses, faults>>
  BY Bounds DEF DeleteKey, Stated, Inv, TypeOK
<1>2. /\ keys' \in [Keys -> KeyRows \cup {Absent}] /\ KnownKeys' = KnownKeys \ {k}
      /\ \A j \in KnownKeys' : keys'[j] = keys[j]
  BY <1>1 DEF Inv, TypeOK, KnownKeys
<1>3. KnownChains' = KnownChains /\ KnownProvs' = KnownProvs /\ KnownProxies' = KnownProxies
  BY <1>1 DEF KnownChains, KnownProvs, KnownProxies
<1>4. TablesOK'
  BY <1>1, <1>2, <1>3 DEF Inv, TypeOK, TablesOK
<1>5. Uses' /\ BindingsExist'
  BY <1>1, <1>2, <1>3 DEF Inv, Uses, BindingsExist, Bindings
<1>6. raced \subseteq raced' /\ Excused \subseteq Excused'
  BY <1>1, Bystanders
<1>7. Integrity'
  BY <1>1, <1>2, <1>3, <1>6 DEF Inv, Integrity, OneActive, ChainsComplete, ProxiesExist, AsBound,
     ActiveChains
<1>8. uses' \in 0 .. MaxUses
  BY <1>1 DEF Inv, TypeOK
<1> QED BY <1>1, <1>4, <1>5, <1>6, <1>7, <1>8, StatementStep

(* handlePatchProvider                                                     *)
LEMMA SwitchProviderStep ==
    ASSUME Inv, NEW a \in Admins, NEW p \in Provs, SwitchProvider(a, p)
    PROVE  Inv'
<1> DEFINE row == Switched(p)
<1>1. /\ Races /\ p \in KnownProvs
      /\ provs' = [provs EXCEPT ![p] = row]
      /\ ops' \in 0 .. MaxOps
      /\ UNCHANGED <<chains, keys, proxies, req, bound, adm, born, waived, uses, faults>>
  BY Bounds DEF SwitchProvider, Stated, Inv, TypeOK
<1>2. row \in ProvRows /\ row.proxy = provs[p].proxy
  <2>1. provs[p] \in ProvRows
    BY <1>1 DEF Inv, TypeOK, KnownProvs
  <2> DEFINE e == ~provs[p].enabled
             x == provs[p].proxy
  <2>2. e \in BOOLEAN /\ x \in Proxies \cup {None}
    BY <2>1, Zenon DEF ProvRows
  <2>3. row = [enabled |-> e, proxy |-> x]
    BY DEF Switched
  <2> HIDE DEF e, row
  <2> QED BY <2>2, <2>3, ProvRow
<1> HIDE DEF row
<1>3. /\ provs' \in [Provs -> ProvRows \cup {Absent}] /\ KnownProvs' = KnownProvs
      /\ \A q \in KnownProvs : provs'[q].proxy = provs[q].proxy
  BY <1>1, <1>2, CatalogAssumption DEF Inv, TypeOK, KnownProvs
<1>6. raced \subseteq raced' /\ Excused \subseteq Excused'
  BY <1>1, Bystanders
<1>4. /\ Uses' /\ BindingsExist' /\ KnownChains' = KnownChains /\ KnownKeys' = KnownKeys
      /\ (OneActive => OneActive') /\ (AsBound => AsBound')
  BY <1>1, <1>6, OtherTables
<1>5. TablesOK'
  BY <1>1, <1>3, <1>4 DEF Inv, TypeOK, TablesOK, KnownProxies
<1>7. Integrity'
  BY <1>1, <1>3, <1>4, <1>6 DEF Inv, Integrity, ChainsComplete, ProxiesExist, KnownProxies
<1>8. uses' \in 0 .. MaxUses
  BY <1>1 DEF Inv, TypeOK
<1> QED BY <1>1, <1>4, <1>5, <1>6, <1>7, <1>8, StatementStep

(* What reads only keeps the tables and the slots.                         *)
LEMMA QuietStep ==
    ASSUME Inv, UNCHANGED <<tables, born, adm, history, ops, faults>>,
           uses' \in 0 .. MaxUses, Uses',
           \A r \in Callers : OutdatedUse(r)' \subseteq Excused
    PROVE  Inv'
<1>1. TypeOK'
  BY DEF Inv, TypeOK, tables, history, KnownChains, KnownKeys, KnownProvs, KnownProxies
<1>2. Slots' /\ BindingsExist'
  BY DEF Inv, Slots, BindingsExist, Bindings, tables, KnownChains, KnownKeys
<1>3. Integrity' /\ Excused' = Excused
  BY DEF Inv, Integrity, OneActive, ChainsComplete, ProxiesExist, AsBound, Excused,
     ActiveChains, tables, history, KnownChains, KnownKeys, KnownProvs, KnownProxies
<1>4. \A a \in Admins : Outdated(adm[a])' = Outdated(adm[a])
  BY DEF Outdated, Rebound, ChainsUsing, ActiveChains, tables, KnownChains, KnownKeys,
     KnownProvs, KnownProxies
<1> QED BY <1>1, <1>2, <1>3, <1>4 DEF Inv, Current

LEMMA ReadKeyStep ==
    ASSUME Inv, NEW r \in Callers, NEW k \in Keys, ReadKey(r, k)
    PROVE  Inv'
<1> DEFINE use == [at |-> "touch", key |-> k, row |-> keys[k], asOf |-> bound[k], gone |-> FALSE]
<1>1. /\ req' = [req EXCEPT ![r] = use] /\ k \in KnownKeys /\ uses' \in 0 .. MaxUses
      /\ UNCHANGED <<tables, born, adm, history, ops, faults>>
  BY Bounds DEF ReadKey, Inv, TypeOK
<1>2. keys[k] \in KeyRows /\ keys[k].chain \in Bindings /\ bound[k] \in Chains \cup {None}
  BY <1>1 DEF Inv, TypeOK, KnownKeys, BindingsExist
<1>3. Bindings' = Bindings
  BY <1>1 DEF Bindings, KnownChains, tables
<1>4. Uses'
  BY <1>1, <1>2, <1>3 DEF Inv, Uses
<1>5. ASSUME NEW q \in Callers PROVE OutdatedUse(q)' \subseteq Excused
  <2>1. CASE q = r
    <3>1. req'[r] = use
      BY <1>1 DEF Inv, Uses
    <3> QED BY <1>1, <2>1, <3>1 DEF OutdatedUse, Rebound, KnownKeys, tables
  <2>2. CASE q # r
    <3>1. OutdatedUse(q)' = OutdatedUse(q)
      BY <1>1, <2>2 DEF OutdatedUse, Rebound, KnownKeys, tables, Inv, Uses
    <3> QED BY <3>1 DEF Inv, Current
  <2> QED BY <2>1, <2>2
<1> QED BY <1>1, <1>4, <1>5, QuietStep

(* The time of use is written with the whole row: a key that was edited in *)
(* between gets the old binding back, but only if its chain still exists.  *)
LEMMA TouchKeyStep ==
    ASSUME Inv, NEW r \in Callers, TouchKey(r)
    PROVE  Inv'
<1> DEFINE k == req[r].key
           row == req[r].row
<1>1. /\ k \in Keys /\ row \in KeyRows /\ req[r].at = "touch"
      /\ keys' = UpdatedKeys(k, row)
      /\ req' = [req EXCEPT ![r] = [req[r] EXCEPT !.at = "resolve"]]
      /\ Races /\ Rebound(k, row) \subseteq Excused
      /\ UNCHANGED <<chains, provs, proxies, adm, born, bound, waived, ops, uses, faults>>
  BY DEF TouchKey, OutdatedUse, Inv, Uses, Current
<1>2. Uses'
  <2>1. [req[r] EXCEPT !.at = "resolve"] =
            [at |-> "resolve", key |-> k, row |-> row, asOf |-> req[r].asOf, gone |-> req[r].gone]
    BY DEF Inv, Uses
  <2>2. Bindings' = Bindings
    BY <1>1 DEF Bindings, KnownChains
  <2> QED BY <1>1, <2>1, <2>2 DEF Inv, Uses
<1> HIDE DEF k, row
<1>3. /\ keys' \in [Keys -> KeyRows \cup {Absent}] /\ KnownKeys' = KnownKeys
      /\ \A j \in Keys : j # k => keys'[j] = keys[j]
      /\ \/ k \in KnownKeys /\ keys'[k] = row /\ row.chain \in Bindings
         \/ keys'[k] = keys[k] /\ (k \in KnownKeys => row.chain \notin Bindings)
  BY <1>1, KeyReplaced
<1>4. TablesOK'
  BY <1>1, <1>3 DEF Inv, TypeOK, TablesOK, KnownChains, KnownProvs, KnownProxies
<1>5. BindingsExist'
  BY <1>1, <1>3 DEF Inv, BindingsExist, Bindings, KnownKeys, KnownChains
<1>6. raced \subseteq raced' /\ Excused \subseteq Excused'
  BY <1>1, Bystanders
<1>7. Integrity'
  <2>1. AsBound'
    <3> SUFFICES ASSUME NEW j \in KnownKeys, j \notin raced PROVE keys'[j].chain = bound'[j]
      BY <1>3, <1>6 DEF AsBound
    <3>1. keys[j].chain = bound[j] /\ j \in Keys
      BY DEF Inv, Integrity, AsBound, KnownKeys
    <3>2. j = k => row.chain = keys[j].chain
      BY <1>1, NotWaived DEF Rebound
    <3> QED BY <1>1, <1>3, <3>1, <3>2
  <2> QED BY <1>1, <1>6, <2>1 DEF Inv, Integrity, OneActive, ChainsComplete, ProxiesExist,
             ActiveChains, KnownChains, KnownProvs, KnownProxies
<1>8. ops' \in 0 .. MaxOps /\ uses' \in 0 .. MaxUses
  BY <1>1 DEF Inv, TypeOK
<1> QED BY <1>1, <1>2, <1>4, <1>5, <1>6, <1>7, <1>8, StatementStep

(* resolveChain: a bound chain that is not there was deleted meanwhile.    *)
LEMMA ResolveStep ==
    ASSUME Inv, NEW r \in Callers, Resolve(r)
    PROVE  Inv'
<1> DEFINE l == Resolved(req[r].row.chain)
<1>1. /\ req[r].at = "resolve" /\ req' = [req EXCEPT ![r] = [req[r] EXCEPT !.at = l]]
      /\ UNCHANGED <<tables, born, adm, history, ops, uses, faults>>
  BY DEF Resolve
<1>2. l \in {"ran", "missing", "noActive"} /\ (l = "missing" => req[r].row.chain \notin Bindings)
  BY DEF Resolved, Bindings
<1> HIDE DEF l
<1>3. [req[r] EXCEPT !.at = l] =
          [at |-> l, key |-> req[r].key, row |-> req[r].row, asOf |-> req[r].asOf,
           gone |-> req[r].gone]
  BY DEF Inv, Uses
<1>4. Bindings' = Bindings
  BY <1>1 DEF Bindings, KnownChains, tables
<1>5. Uses'
  BY <1>1, <1>2, <1>3, <1>4 DEF Inv, Uses
<1>6. uses' \in 0 .. MaxUses
  BY <1>1 DEF Inv, TypeOK
<1>7. \A q \in Callers : OutdatedUse(q)' \subseteq OutdatedUse(q)
  <2>1. \A q \in Callers : q # r => req'[q] = req[q]
    BY <1>1
  <2>2. req'[r].at # "touch"
    BY <1>1, <1>2 DEF Inv, Uses
  <2> QED BY <1>1, <2>1, <2>2 DEF OutdatedUse, Rebound, KnownKeys, tables
<1> QED BY <1>1, <1>5, <1>6, <1>7, QuietStep DEF Inv, Current

LEMMA AnsweredStep ==
    ASSUME Inv, NEW r \in Callers, Answered(r)
    PROVE  Inv'
<1>1. /\ req' = [req EXCEPT ![r] = NoUse]
      /\ UNCHANGED <<tables, born, adm, history, ops, uses, faults>>
  BY DEF Answered
<1>2. Bindings' = Bindings
  BY <1>1 DEF Bindings, KnownChains, tables
<1>3. Uses'
  BY <1>1, <1>2 DEF Inv, Uses, NoUse
<1>4. uses' \in 0 .. MaxUses
  BY <1>1 DEF Inv, TypeOK
<1>5. \A q \in Callers : OutdatedUse(q)' \subseteq OutdatedUse(q)
  <2>1. \A q \in Callers : q # r => req'[q] = req[q]
    BY <1>1
  <2>2. req'[r].at # "touch"
    BY <1>1 DEF Inv, Uses, NoUse
  <2> QED BY <1>1, <2>1, <2>2 DEF OutdatedUse, Rebound, KnownKeys, tables
<1> QED BY <1>1, <1>3, <1>4, <1>5, QuietStep DEF Inv, Current

-----------------------------------------------------------------------------
(* Every step of a handler or a search.                                    *)
LEMMA InvStep == Inv /\ [Next]_vars => Inv'
<1> SUFFICES ASSUME Inv, [Next]_vars PROVE Inv'
  OBVIOUS
<1>1. ASSUME NEW a \in Admins, ChainOp(a) PROVE Inv'
  <2>1. CASE SaveChain(a) \/ Unbind(a) \/ DropChain(a) \/ Activate(a)
    BY <2>1, SaveChainStep, UnbindStep, DropChainStep, ActivateStep
  <2>2. CASE ~(SaveChain(a) \/ Unbind(a) \/ DropChain(a) \/ Activate(a))
    <3>1. Begins(a)
      BY <1>1, <2>2, ChainReads DEF ChainOp
    <3> QED BY <3>1, BeginStep
  <2> QED BY <2>1, <2>2
<1>2. ASSUME NEW a \in Admins, KeyOp(a) PROVE Inv'
  <2>1. CASE InsertKey(a) \/ WriteKey(a) \/ \E k \in Keys : DeleteKey(a, k)
    BY <2>1, InsertKeyStep, WriteKeyStep, DeleteKeyStep
  <2>2. CASE ~(InsertKey(a) \/ WriteKey(a) \/ \E k \in Keys : DeleteKey(a, k))
    <3>1. PICK k \in Keys :
             \/ \E c \in Chains \cup {None} :
                   MintKey(a, k, c) \/ \E rev \in BOOLEAN : EditKey(a, k, c, rev)
             \/ MintToken(a, k) \/ EditToken(a, k) \/ RevokeKey(a, k)
      BY <1>2, <2>2, Zenon DEF KeyOp, BulkKey, DropToken
    <3>2. Begins(a)
      BY <3>1, KeyReads
    <3> QED BY <3>2, BeginStep
  <2> QED BY <2>1, <2>2
<1>3. ASSUME NEW a \in Admins, ProviderOp(a) PROVE Inv'
  <2>1. CASE \/ UpsertProvider(a) \/ DropProvider(a)
             \/ \E p \in Provs : SwitchProvider(a, p)
    BY <2>1, UpsertProviderStep, DropProviderStep, SwitchProviderStep
  <2>2. CASE ~(\/ UpsertProvider(a) \/ DropProvider(a)
               \/ \E p \in Provs : SwitchProvider(a, p))
    <3>1. PICK p \in Provs :
             \/ \E x \in Proxies \cup {None} :
                   AddProvider(a, p, x) \/ \E e \in BOOLEAN : EditProvider(a, p, e, x)
             \/ \E e \in BOOLEAN : ImportProvider(a, p, e)
             \/ CheckProvider(a, p) \/ CheckProviderFails(a, p)
      BY <1>3, <2>2, Zenon DEF ProviderOp, BulkProvider
    <3>2. Begins(a)
      BY <3>1, ProviderReads
    <3> QED BY <3>2, BeginStep
  <2> QED BY <2>1, <2>2
<1>4. ASSUME NEW a \in Admins, ProxyOp(a) PROVE Inv'
  <2>1. CASE UpsertProxy(a) \/ ClearProxy(a) \/ DropProxy(a)
    BY <2>1, UpsertProxyStep, ClearProxyStep, DropProxyStep
  <2>2. CASE \E x \in Proxies : AddProxy(a, x) \/ EditProxy(a, x) \/ CheckProxy(a, x)
    BY <2>2, ProxyReads, BeginStep
  <2> QED BY <1>4, <2>1, <2>2 DEF ProxyOp
<1>5. ASSUME NEW r \in Callers, KeyUse(r) PROVE Inv'
  BY <1>5, ReadKeyStep, TouchKeyStep, ResolveStep, AnsweredStep DEF KeyUse
<1>6. CASE UNCHANGED vars
  <2>1. Uses'
    BY <1>6 DEF Inv, Uses, Bindings, vars, tables, KnownChains
  <2>2. uses' \in 0 .. MaxUses
    BY <1>6 DEF Inv, TypeOK, vars
  <2>3. \A r \in Callers : OutdatedUse(r)' = OutdatedUse(r)
    BY <1>6 DEF OutdatedUse, Rebound, KnownKeys, vars, tables
  <2> QED BY <1>6, <2>1, <2>2, <2>3, QuietStep DEF vars, Inv, Current
<1> QED BY <1>1, <1>2, <1>3, <1>4, <1>5, <1>6 DEF Next

LEMMA Invariant == Spec => []Inv
BY InvInit, InvStep, PTL DEF Spec

-----------------------------------------------------------------------------
(* The tables stay well typed, and only ids that were given out have rows. *)
THEOREM CatalogTypes == Spec => []TypeOK
<1>1. Inv => TypeOK
  BY DEF Inv
<1> QED BY <1>1, Invariant, PTL

(* The foreign keys and ON DELETE actions hold what the handlers' lookups  *)
(* let through: no key refers to a missing chain, and a search misses its  *)
(* chain only when it is deleted under it.                                 *)
THEOREM BindingsFollow == Spec => []BindingsHold
<1>1. Inv => BindingsHold
  BY DEF Inv, Uses, BindingsHold, MissingIsRaced
<1> QED BY <1>1, Invariant, PTL

(* What the handlers check one by one adds up, object by object, wherever  *)
(* no reading was overtaken by another's write and nothing was left        *)
(* unchecked: one active chain, complete chains, existing proxies and      *)
(* acknowledged bindings.                                                  *)
THEOREM WhatIsChecked == Spec => []IntegrityKept
<1>1. ASSUME Inv PROVE IntegrityKept
  <2>1. Integrity
    BY <1>1 DEF Inv
  <2>2. raced \cap Chains = {} => Cardinality(ActiveChains) = 1
    BY <2>1, FS_Singleton DEF Integrity, OneActive
  <2> QED BY <2>1, <2>2 DEF Integrity, ChainsComplete, ProxiesExist, AsBound, Excused,
             IntegrityKept
<1> QED BY <1>1, Invariant, PTL
=============================================================================
