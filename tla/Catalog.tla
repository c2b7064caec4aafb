------------------------------- MODULE Catalog -------------------------------
(***************************************************************************)
(* The administered catalog: chains, API keys bound to them, provider       *)
(* instances and proxies (httpd/handlers_chains, _users, _developer, _bulk, *)
(* _providers, _proxies, _config over sqlstore), used by search requests    *)
(* that authenticate with a key.                                            *)
(*                                                                          *)
(* Every handler reads, decides and writes in separate store calls: a slot  *)
(* of an administrator keeps what it has read until its write. A chain row  *)
(* is its active flag and the providers of its blocks, a key row its binding *)
(* and whether it is revoked, a provider row its switch and its proxy.      *)
(***************************************************************************)
EXTENDS Naturals, FiniteSets

CONSTANTS
    Chains, Keys, Provs, Proxies,   \* ids, each given out once (newID)
    FirstChain, FirstKeys, FirstProvs, FirstProxies,    \* what exists at first
    Absent,         \* no such row
    None,           \* the empty reference: no binding, no proxy
    Admins,         \* concurrent requests of administrators
    Callers,        \* concurrent search requests
    MaxOps,         \* bound: operations of administrators
    MaxUses,        \* bound: search requests
    MaxFaults       \* bound: reads that fail

ChainRows == [active: BOOLEAN, uses: SUBSET Provs]
KeyRows == [chain: Chains \cup {None}, revoked: BOOLEAN]
ProvRows == [enabled: BOOLEAN, proxy: Proxies \cup {None}]

ASSUME CatalogAssumption ==
    /\ FirstChain \in Chains /\ FirstKeys \subseteq Keys
    /\ FirstProvs \subseteq Provs /\ FirstProvs # {} /\ FirstProxies \subseteq Proxies
    /\ None \notin Chains \cup Proxies
    /\ Provs \cap (Chains \cup Keys \cup Proxies) = {}
    /\ None # Absent /\ None \notin KeyRows
    /\ Absent \notin ChainRows \cup KeyRows \cup ProvRows
    /\ {MaxOps, MaxUses, MaxFaults} \subseteq Nat

VARIABLES
    chains, keys, provs, proxies,   \* the tables
    born,           \* ids given out so far
    adm,            \* what an administrator's request is about to do
    req,            \* a search request
    bound,          \* history: the binding of a key that was last acknowledged
    waived,         \* history: providers that were not looked for in vain
    raced,          \* history: ids of which a handler's reading was overtaken
    ops, uses, faults

tables == <<chains, keys, provs, proxies>>
history == <<bound, waived, raced>>
vars == <<tables, born, adm, req, history, ops, uses, faults>>

Idle == [at |-> "idle", id |-> None, row |-> None]
NoUse == [at |-> "idle", key |-> None, row |-> None, asOf |-> None, gone |-> FALSE]

KnownChains == {c \in Chains : chains[c] # Absent}
KnownKeys == {k \in Keys : keys[k] # Absent}
KnownProvs == {p \in Provs : provs[p] # Absent}
KnownProxies == {x \in Proxies : proxies[x] # Absent}
ActiveChains == {c \in KnownChains : chains[c].active}

-----------------------------------------------------------------------------
(* chainsUsingProvider *)
ChainsUsing(p) == {c \in KnownChains : p \in chains[c].uses}

(* A key whose binding is no longer the one of a row that was read. *)
Rebound(k, row) == {j \in {k} \cap KnownKeys : keys[j].chain # row.chain}

(* The ids of which a handler relies, for its write, on what is not (or no *)
(* longer) so.                                                             *)
Outdated(s) ==
    CASE s.at = "saveChain" -> {c \in {s.id} : ~(s.row.active <=> c \in ActiveChains)}
                                   \cup (s.row.uses \ KnownProvs)
      [] s.at \in {"unbind", "dropChain"} -> {s.id} \cap ActiveChains
      [] s.at = "writeKey" -> Rebound(s.id, s.row)
      [] s.at = "upsertProvider" -> {s.row.proxy} \ (KnownProxies \cup {None})
      [] s.at = "dropProvider" -> {p \in {s.id} : ChainsUsing(p) # {}}
      [] s.at = "dropProxy" -> {x \in {s.id} : \E p \in KnownProvs : provs[p].proxy = x}
      [] OTHER -> {}

OutdatedUse(r) ==
    IF req[r].at = "touch" THEN Rebound(req[r].key, req[r].row) ELSE {}

(* A step overtakes who is under way and does not move with it.            *)
Overtaken ==
    UNION ({Outdated(adm[a])' \ Outdated(adm[a]) : a \in {x \in Admins : adm'[x] = adm[x]}}
           \cup {OutdatedUse(r)' \ OutdatedUse(r) : r \in Callers})

Races == raced' = raced \cup Overtaken

-----------------------------------------------------------------------------
(* A handler begins by reading: it holds the id and the row it will write. *)
Start(a, at, id, row) ==
    /\ adm[a] = Idle /\ ops < MaxOps
    /\ ops' = ops + 1
    /\ adm' = [adm EXCEPT ![a] = [at |-> at, id |-> id, row |-> row]]
    /\ UNCHANGED <<tables, req, bound, raced, uses>>

Begin(a, at, id, row) == Start(a, at, id, row) /\ UNCHANGED waived

(* The last of a write: the slot goes on at l, or has ended. *)
Wrote(a, l) ==
    /\ adm' = [adm EXCEPT ![a] = IF l = "idle" THEN Idle ELSE [@ EXCEPT !.at = l]]
    /\ Races
    /\ UNCHANGED <<born, waived, ops, uses, faults>>

(* A single statement. *)
Stated(a) ==
    /\ adm[a] = Idle /\ ops < MaxOps
    /\ ops' = ops + 1
    /\ UNCHANGED adm
    /\ Races
    /\ UNCHANGED <<born, waived, uses, faults>>

(* A slip for the checks: an id is not remembered as given out. *)
SlipReusesId(id) == id \notin born /\ UNCHANGED <<born, faults>>

(* newID never gives out an id twice. *)
Fresh(id) == id \notin born /\ born' = born \cup {id} /\ UNCHANGED faults
Known == UNCHANGED <<born, faults>>

At(a, l) == adm[a].at = l

-----------------------------------------------------------------------------
(* Chains *)

(* validateDraft: a valid graph has blocks; a block of a provider that is  *)
(* not known is only warned of.                                            *)
ValidDraft(U) == U # {} /\ waived' = waived \cup (U \ KnownProvs)

(* handleCreateChain *)
CreateChain(a, c, U) ==
    /\ ValidDraft(U) /\ Fresh(c)
    /\ Start(a, "saveChain", c, [active |-> FALSE, uses |-> U])

(* handleUpdateChain: with the flag that was read. *)
EditChain(a, c, U) ==
    /\ c \in KnownChains /\ ValidDraft(U) /\ Known
    /\ Start(a, "saveChain", c, [active |-> chains[c].active, uses |-> U])

(* handleDuplicateChain: the copy is not validated. *)
DuplicateChain(a, c, src) ==
    /\ src \in KnownChains /\ Fresh(c)
    /\ Begin(a, "saveChain", c, [active |-> FALSE, uses |-> chains[src].uses])

(* handleImportConfig: a chain of the bundle replaces the one of its name, *)
(* or is new.                                                              *)
ImportChain(a, c, U) ==
    IF c \in KnownChains THEN EditChain(a, c, U) ELSE CreateChain(a, c, U)

(* SaveChain inserts what it does not find. *)
SaveChain(a) ==
    /\ At(a, "saveChain")
    /\ chains' = [chains EXCEPT ![adm[a].id] = adm[a].row]
    /\ UNCHANGED <<keys, provs, proxies, req, bound>>
    /\ Wrote(a, "idle")

(* A slip for the checks: the active chain may be deleted. *)
SlipDeletable(c) == c \in KnownChains

(* handleDeleteChain *)
Deletable(c) == c \in KnownChains /\ ~chains[c].active

CheckDelete(a, c) ==
    /\ Deletable(c)
    /\ Known
    /\ Begin(a, "unbind", c, None)

(* The keys after the bindings to chain c are gone: ClearKeyChainRefs, and *)
(* the foreign key's ON DELETE SET NULL.                                   *)
Unbound(c) ==
    [k \in Keys |-> IF keys[k] # Absent /\ keys[k].chain = c
                    THEN [chain |-> None, revoked |-> keys[k].revoked] ELSE keys[k]]

(* The bindings that stand once the keys of chain c have lost theirs. *)
Released(c) == [k \in Keys |-> IF bound[k] = c THEN None ELSE bound[k]]

Unbind(a) ==
    /\ At(a, "unbind")
    /\ keys' = Unbound(adm[a].id)
    /\ bound' = Released(adm[a].id)
    /\ UNCHANGED <<chains, provs, proxies, req>>
    /\ Wrote(a, "dropChain")

(* A slip for the checks: the keys keep their reference to the chain. *)
SlipOnlyTheRow(c) == chains' = [chains EXCEPT ![c] = Absent] /\ UNCHANGED keys

(* DeleteChain and the referential actions of the database. *)
DeleteChain(c) ==
    /\ chains' = [chains EXCEPT ![c] = Absent]
    /\ keys' = Unbound(c)

DropChain(a) ==
    /\ At(a, "dropChain")
    /\ DeleteChain(adm[a].id)
    /\ bound' = Released(adm[a].id)
    /\ req' = [r \in Callers |->
                 IF req[r].row # None /\ req[r].row.chain = adm[a].id
                 THEN [req[r] EXCEPT !.gone = TRUE] ELSE req[r]]
    /\ UNCHANGED <<provs, proxies>>
    /\ Wrote(a, "idle")

(* handleActivateChain: of what validates, as every chain that is stored.  *)
ReadActivate(a, c) ==
    /\ c \in KnownChains
    /\ Known
    /\ Begin(a, "activate", c, None)

(* A slip for the checks: the chain that was active stays so. *)
SlipAlsoActive(c) == [chains EXCEPT ![c].active = TRUE]

(* ActivateChain, one transaction. *)
OnlyActive(c) ==
    [d \in Chains |-> IF chains[d] = Absent THEN Absent
                      ELSE [active |-> d = c, uses |-> chains[d].uses]]

(* A chain that has gone meanwhile changes nothing (ErrNotFound). *)
Activate(a) ==
    /\ At(a, "activate")
    /\ chains' = IF adm[a].id \in KnownChains THEN OnlyActive(adm[a].id) ELSE chains
    /\ UNCHANGED <<keys, provs, proxies, req, bound>>
    /\ Wrote(a, "idle")

-----------------------------------------------------------------------------
(* Keys *)

Bindings == KnownChains \cup {None}

(* handleCreateKey *)
MintKey(a, k, c) ==
    /\ c \in Bindings
    /\ Fresh(k)
    /\ Begin(a, "insertKey", k, [chain |-> c, revoked |-> FALSE])

(* handleCreateDeveloperToken *)
MintToken(a, k) == MintKey(a, k, None)

(* handleUpdateKey: the whole row as it was read, with what is edited.      *)
EditKey(a, k, c, rev) ==
    /\ k \in KnownKeys
    /\ c \in Bindings \cup {keys[k].chain}
    /\ Known
    /\ Begin(a, IF c = keys[k].chain THEN "writeKey" ELSE "rebindKey", k,
             [chain |-> c, revoked |-> keys[k].revoked \/ rev])

(* handleUpdateDeveloperToken: name and permissions. *)
EditToken(a, k) == k \in KnownKeys /\ EditKey(a, k, keys[k].chain, FALSE)

(* handleRevokeKey *)
RevokeKey(a, k) == k \in KnownKeys /\ EditKey(a, k, keys[k].chain, TRUE)

(* A slip for the checks: the reference is not checked. *)
SlipAnyReference(c) == TRUE

(* The foreign key: a write that names a missing chain fails. *)
References(c) == c \in Bindings

(* CreateAPIKey: the chain has been looked up before, the database checks  *)
(* again.                                                                  *)
InsertKey(a) ==
    LET k == adm[a].id IN
    /\ At(a, "insertKey")
    /\ IF References(adm[a].row.chain)
       THEN /\ keys' = [keys EXCEPT ![k] = adm[a].row]
            /\ bound' = [bound EXCEPT ![k] = adm[a].row.chain]
       ELSE UNCHANGED <<keys, bound>>
    /\ UNCHANGED <<chains, provs, proxies, req>>
    /\ Wrote(a, "idle")

(* UpdateAPIKey: the row, if there still is one. *)
UpdatedKeys(k, row) ==
    IF keys[k] # Absent /\ References(row.chain)
    THEN [keys EXCEPT ![k] = row] ELSE keys

(* Only an edit of the binding that is stored changes what was promised. *)
WriteKey(a) ==
    LET k == adm[a].id IN
    /\ adm[a].at \in {"writeKey", "rebindKey"}
    /\ keys' = UpdatedKeys(k, adm[a].row)
    /\ bound' = IF At(a, "rebindKey") /\ References(adm[a].row.chain)
                THEN [bound EXCEPT ![k] = adm[a].row.chain] ELSE bound
    /\ UNCHANGED <<chains, provs, proxies, req>>
    /\ Wrote(a, "idle")

(* DeleteAPIKey *)
DeleteKey(a, k) ==
    /\ k \in KnownKeys
    /\ keys' = [keys EXCEPT ![k] = Absent]
    /\ UNCHANGED <<chains, provs, proxies, req, bound>>
    /\ Stated(a)

(* handleBulkKeys, for one of its ids: a revoked key is not revoked again. *)
BulkKey(a, k) ==
    \/ DeleteKey(a, k)
    \/ k \in KnownKeys /\ ~keys[k].revoked /\ RevokeKey(a, k)

(* handleDeleteDeveloperToken: purge, or revoke. *)
DropToken(a, k) == BulkKey(a, k)

-----------------------------------------------------------------------------
(* Providers and proxies *)

(* handleCreateProvider: the proxy it selects exists. *)
AddProvider(a, p, x) ==
    /\ x \in KnownProxies \cup {None}
    /\ Fresh(p)
    /\ Begin(a, "upsertProvider", p, [enabled |-> TRUE, proxy |-> x])

(* handleUpdateProvider: the row as it was read, with what is edited. *)
EditProvider(a, p, e, x) ==
    /\ p \in KnownProvs
    /\ x \in KnownProxies \cup {None, provs[p].proxy}
    /\ Known
    /\ Begin(a, "upsertProvider", p, [enabled |-> e, proxy |-> x])

(* UpsertProvider, which inserts what it does not find. *)
UpsertProvider(a) ==
    /\ At(a, "upsertProvider")
    /\ provs' = [provs EXCEPT ![adm[a].id] = adm[a].row]
    /\ UNCHANGED <<chains, keys, proxies, req, bound>>
    /\ Wrote(a, "idle")

(* An import creates a provider without a proxy, or replaces the row of its *)
(* name.                                                                    *)
ImportProvider(a, p, e) ==
    IF p \in KnownProvs THEN EditProvider(a, p, e, provs[p].proxy)
    ELSE AddProvider(a, p, None)

(* handlePatchProvider: one column, one statement. *)
Switched(p) == [enabled |-> ~provs[p].enabled, proxy |-> provs[p].proxy]

SwitchProvider(a, p) ==
    /\ p \in KnownProvs
    /\ provs' = [provs EXCEPT ![p] = Switched(p)]
    /\ UNCHANGED <<chains, keys, proxies, req, bound>>
    /\ Stated(a)

CheckProvider(a, p) ==
    /\ p \in KnownProvs /\ ChainsUsing(p) = {}
    /\ Known
    /\ Begin(a, "dropProvider", p, None)

(* A list of chains that cannot be read counts as empty. *)
CheckProviderFails(a, p) ==
    /\ p \in KnownProvs /\ faults < MaxFaults
    /\ faults' = faults + 1 /\ waived' = waived \cup {p}
    /\ Start(a, "dropProvider", p, None)
    /\ UNCHANGED born

(* handleBulkProviders, for one of its ids. *)
BulkProvider(a, p) == SwitchProvider(a, p) \/ CheckProvider(a, p)

(* DeleteProvider *)
DropProvider(a) ==
    /\ At(a, "dropProvider")
    /\ provs' = [provs EXCEPT ![adm[a].id] = Absent]
    /\ UNCHANGED <<chains, keys, proxies, req, bound>>
    /\ Wrote(a, "idle")

(* handleCreateProxy and handleUpdateProxy; UpsertProxy inserts what it does *)
(* not find. A row is no more than its presence here.                       *)
AddProxy(a, x) == Fresh(x) /\ Begin(a, "upsertProxy", x, None)
EditProxy(a, x) == x \in KnownProxies /\ Known /\ Begin(a, "upsertProxy", x, None)

UpsertProxy(a) ==
    /\ At(a, "upsertProxy")
    /\ proxies' = [proxies EXCEPT ![adm[a].id] = None]
    /\ UNCHANGED <<chains, keys, provs, req, bound>>
    /\ Wrote(a, "idle")

(* handleDeleteProxy *)
CheckProxy(a, x) == x \in KnownProxies /\ Known /\ Begin(a, "clearProxy", x, None)

(* A slip for the checks: the providers are left alone. *)
SlipKeepsRefs(x) == provs

(* ClearProxyRefs *)
WithoutProxy(x) ==
    [p \in Provs |-> IF provs[p] # Absent /\ provs[p].proxy = x
                     THEN [enabled |-> provs[p].enabled, proxy |-> None] ELSE provs[p]]

ClearProxy(a) ==
    /\ At(a, "clearProxy")
    /\ provs' = WithoutProxy(adm[a].id)
    /\ UNCHANGED <<chains, keys, proxies, req, bound>>
    /\ Wrote(a, "dropProxy")

(* DeleteProxy: nothing in the schema refers to a proxy. *)
DropProxy(a) ==
    /\ At(a, "dropProxy")
    /\ proxies' = [proxies EXCEPT ![adm[a].id] = Absent]
    /\ UNCHANGED <<chains, keys, provs, req, bound>>
    /\ Wrote(a, "idle")

-----------------------------------------------------------------------------
(* A search request with a key *)

(* resolveKey: the row of a key that is not revoked. *)
ReadKey(r, k) ==
    /\ req[r].at = "idle" /\ uses < MaxUses
    /\ k \in KnownKeys /\ ~keys[k].revoked
    /\ uses' = uses + 1
    /\ req' = [req EXCEPT ![r] = [at |-> "touch", key |-> k, row |-> keys[k],
                                  asOf |-> bound[k], gone |-> FALSE]]
    /\ UNCHANGED <<tables, born, adm, history, ops, faults>>

(* ... and, once the secret is verified, the time of use: the whole row    *)
(* again, an error is ignored.                                             *)
TouchKey(r) ==
    /\ req[r].at = "touch"
    /\ keys' = UpdatedKeys(req[r].key, req[r].row)
    /\ req' = [req EXCEPT ![r] = [@ EXCEPT !.at = "resolve"]]
    /\ UNCHANGED <<chains, provs, proxies, born, adm, bound, waived, ops, uses, faults>>
    /\ Races

(* resolveChain: the binding wins, and fails closed. *)
Resolved(c) ==
    IF c # None THEN IF c \in KnownChains THEN "ran" ELSE "missing"
    ELSE IF ActiveChains # {} THEN "ran" ELSE "noActive"

Resolve(r) ==
    /\ req[r].at = "resolve"
    /\ req' = [req EXCEPT ![r] = [@ EXCEPT !.at = Resolved(req[r].row.chain)]]
    /\ UNCHANGED <<tables, born, adm, history, ops, uses, faults>>

(* The answer is written, the slot is free for another request. *)
Answered(r) ==
    /\ req[r].at \in {"ran", "missing", "noActive"}
    /\ req' = [req EXCEPT ![r] = NoUse]
    /\ UNCHANGED <<tables, born, adm, history, ops, uses, faults>>

-----------------------------------------------------------------------------
(* The seed and first steps of an installation: one chain, active. *)
Init ==
    /\ chains = [c \in Chains |-> IF c = FirstChain
                                  THEN [active |-> TRUE, uses |-> FirstProvs] ELSE Absent]
    /\ keys = [k \in Keys |-> IF k \in FirstKeys
                              THEN [chain |-> None, revoked |-> FALSE] ELSE Absent]
    /\ provs = [p \in Provs |-> IF p \in FirstProvs
                                THEN [enabled |-> TRUE, proxy |-> None] ELSE Absent]
    /\ proxies = [x \in Proxies |-> IF x \in FirstProxies THEN None ELSE Absent]
    /\ born = {FirstChain} \cup FirstKeys \cup FirstProvs \cup FirstProxies
    /\ adm = [a \in Admins |-> Idle]
    /\ req = [r \in Callers |-> NoUse]
    /\ bound = [k \in Keys |-> None]
    /\ waived = {} /\ raced = {}
    /\ ops = 0 /\ uses = 0 /\ faults = 0

ChainOp(a) ==
    \/ \E c \in Chains, U \in SUBSET Provs :
         CreateChain(a, c, U) \/ EditChain(a, c, U) \/ ImportChain(a, c, U)
    \/ \E c, src \in Chains : DuplicateChain(a, c, src)
    \/ \E c \in Chains : CheckDelete(a, c) \/ ReadActivate(a, c)
    \/ SaveChain(a) \/ Unbind(a) \/ DropChain(a) \/ Activate(a)

KeyOp(a) ==
    \/ \E k \in Keys, c \in Chains \cup {None} :
         MintKey(a, k, c) \/ \E rev \in BOOLEAN : EditKey(a, k, c, rev)
    \/ \E k \in Keys : \/ MintToken(a, k) \/ EditToken(a, k) \/ RevokeKey(a, k)
                       \/ BulkKey(a, k) \/ DropToken(a, k)
    \/ InsertKey(a) \/ WriteKey(a)

ProviderOp(a) ==
    \/ \E p \in Provs, x \in Proxies \cup {None} :
         AddProvider(a, p, x) \/ \E e \in BOOLEAN : EditProvider(a, p, e, x)
    \/ \E p \in Provs, e \in BOOLEAN : ImportProvider(a, p, e)
    \/ \E p \in Provs : \/ SwitchProvider(a, p) \/ BulkProvider(a, p)
                        \/ CheckProvider(a, p) \/ CheckProviderFails(a, p)
    \/ UpsertProvider(a) \/ DropProvider(a)

ProxyOp(a) ==
    \/ \E x \in Proxies : AddProxy(a, x) \/ EditProxy(a, x) \/ CheckProxy(a, x)
    \/ UpsertProxy(a) \/ ClearProxy(a) \/ DropProxy(a)

KeyUse(r) ==
    \/ \E k \in Keys : ReadKey(r, k)
    \/ TouchKey(r) \/ Resolve(r) \/ Answered(r)

Next ==
    \/ \E a \in Admins : ChainOp(a) \/ KeyOp(a) \/ ProviderOp(a) \/ ProxyOp(a)
    \/ \E r \in Callers : KeyUse(r)

Spec == Init /\ [][Next]_vars

-----------------------------------------------------------------------------
(* Type invariant: the rows and the slots of the catalog. *)
TypeOK ==
    /\ chains \in [Chains -> ChainRows \cup {Absent}]
    /\ keys \in [Keys -> KeyRows \cup {Absent}]
    /\ provs \in [Provs -> ProvRows \cup {Absent}]
    /\ proxies \in [Proxies -> {None, Absent}]
    /\ bound \in [Keys -> Chains \cup {None}]
    /\ waived \subseteq Provs /\ raced \subseteq Chains \cup Keys \cup Provs \cup Proxies
    /\ ops \in 0 .. MaxOps /\ uses \in 0 .. MaxUses /\ faults \in 0 .. MaxFaults
    /\ KnownChains \cup KnownKeys \cup KnownProvs \cup KnownProxies \subseteq born

(* Deleting and binding race freely, and still no key ever refers to a chain *)
(* that is not there: the referential actions of the schema catch what the  *)
(* handlers' separate lookups let through.                                  *)
BindingsExist == \A k \in KnownKeys : keys[k].chain \in Bindings

(* What the handlers check one by one adds up, as far as nobody's reading   *)
(* was overtaken by another's write: exactly one chain is active unless the *)
(* flag of a chain changed under an edit or a deletion of it; a chain's     *)
(* provider is missing only if it was warned of, was deleted while the      *)
(* chains could not be read, or was deleted and taken into a chain at once; *)
(* a provider's proxy likewise; and a key has the binding that was last     *)
(* acknowledged unless that was made under another write of its row.        *)
IntegrityKept ==
    /\ raced \cap Chains = {} => Cardinality(ActiveChains) = 1
    /\ \A c \in KnownChains : chains[c].uses \subseteq KnownProvs \cup waived \cup raced
    /\ \A p \in KnownProvs : provs[p].proxy \in KnownProxies \cup {None} \cup raced
    /\ \A k \in KnownKeys \ raced : keys[k].chain = bound[k]

(* A bound request fails closed only if its chain was deleted while the      *)
(* request was under way (README: if a bound chain disappears, the token     *)
(* falls back to the active chain): no later request pays for a deletion.    *)
MissingIsRaced == \A r \in Callers : req[r].at = "missing" => req[r].gone

(* Whatever races with a deletion, a key's binding can be followed. *)
BindingsHold == BindingsExist /\ MissingIsRaced

(* README, "takes effect from the next request": a request starts with the   *)
(* binding of its key that was last acknowledged.                            *)
BindingTakesEffect ==
    \A r \in Callers : req[r].at = "touch" => req[r].row.chain = req[r].asOf
=============================================================================
