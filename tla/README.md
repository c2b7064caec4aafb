# SerpentSeek: a TLA+ verification of the search engine's core

SerpentSeek is a search aggregator in Go. A request names a query; an
administrator's *chain*, a graph of provider blocks, decides which search and
answer providers are asked, in which order, side by side or as fallbacks of each
other. This directory models the engine that walks such a chain, the drivers
that make the calls, the gates they share between requests, the life of a
request in the store, the live trace it streams, and the administration around
it: quotas, chains, keys, providers, users, sessions and setup. The modules are
checked with TLC on small instances; the safety properties that matter most
are proved with TLAPS for every value of the constants.

Paths below are relative to `src/internal/`.

## 1. The system

| component | state | operations | what is hard |
|---|---|---|---|
| chain plan (`engine/plan.go`, `engine/validate.go`) | immutable plan per request | `BuildPlan`, `Next`, `NextInFullChain`, `NeutralSuccessors`, `ValidateChain` | every walker trusts what the validator accepts: one entry, everything reachable, no cycle |
| full-chain executor (`runFullChain`) | in-degrees, wave, block states, `walkState` (`stepNo`, `dead`), `req.Answer` | start wave, run branch, `wg.Wait`, merge, finalize | branches of a wave run concurrently over a shared budget, dead marks, breaker and answer; joins |
| first-success and legacy walkers (`runFirstSuccess`, `runFullChainLegacy`) | current block, last result, rows | visit, follow policy, edge or order fallback | the three rules interact; no visited set in first-success mode |
| attempt loop (`execNode`, `resolveNode`) | attempts of a block | take step, acquire, call, observe, retry | state read before a call and used after it |
| provider drivers (`providers/`) | token caches, limiters per rate | build, refuse, wait, call, classify | shared token and limiter, re-authentication, several calls per search, what counts as permanent |
| circuit breaker (`engine/cooldown.go`) | `fails`, `until` per provider | `blocked`, `observe`, `active` | outcomes arrive after others have tripped or reset it; lazy expiry |
| concurrency limiter (`engine.go`, `concurrencyLimiter`) | the current semaphore channel | `setLimit`, `acquire`, release | the channel is replaced while slots of the old one are held and awaited |
| event hub (`sse/hub.go`) | buffers, eviction order, subscribers, `seq`, closed | `Subscribe`, unsubscribe, `Publish`, `Close` | sends happen after the unlock; bounded buffers and channels |
| live trace (`httpd/sse.go`) | a handler's replay, position and channel | subscribe, read request, replay, stream, end | replay and channel overlap; lost connections; shutdown |
| request life (`prepare`, `finalize`, `store` requests, steps) | rows, steps | create, save step, update, publish; clear, prune | the request's own, possibly expired, context; crashes; rows deleted under a running request |
| row merger (`engine/dedupe.go`) | merged rows by link | `add`, `rowsUpTo` | the order and the attribution of duplicates |
| search guard (`httpd/guard.go`, `httpd/quotas.go`, `auth/ratelimit.go`) | quota cache, usage counters, windows | look up, check, charge, invalidate, prune | checks and counts in separate store calls, a cache read outside its lock, periods that end |
| chains, keys, providers, proxies (`httpd/handlers_chains.go`, `_users`, `_providers`, `_proxies`, `_developer`, `_bulk`, `_config`) | four tables that refer to each other | create, edit, duplicate, import, activate, revoke, switch, delete | every handler reads, decides and writes in separate store calls |
| setup, users, sessions, passkeys (`httpd/handlers_auth.go`, `_users.go`, `auth/`, `main.go`) | users and what they own, ceremonies, the setup token | setup, sign in, edit, delete, extend, register, restart | a row deleted between the read and the write of a request; a token that must work once |
| settings, logging, webhooks, MCP, updater, metrics, web interface | see `PROJECT.json` | | mostly single store calls or pure I/O |

### How they interact

* A search handler resolves the key (`Catalog`), passes the guard
  (`SearchGuard`), then `Engine.Execute` resolves the chain, creates the request
  row (`RequestLife`), builds the plan and calls one of three walkers.
* A walker runs blocks through `execNode`. Each block asks the breaker once
  (`resolveNode`), and each attempt takes one step of the budget, waits for a
  slot of the limiter, calls the driver and reports the outcome to the breaker.
  The breaker and the limiter belong to the engine, the token caches and rate
  limiters to the process, so all requests share them.
* Each finished block saves its step and publishes it to the hub; `finalize`
  updates the request row, publishes `request_done` and recomputes the day's
  rollup.
* A client that follows a request subscribes to the hub *before* it reads the
  row, writes the replay, then what its channel delivers, until `request_done`.
* Administrators edit chains, keys, providers and quotas while searches run; the
  cleanup job prunes requests, usage and sessions beside them.

### What makes each component correct

* plan: an accepted chain has one entry, no neutral cycle, and all its blocks
  are reachable;
* walk: a block runs once and only after its predecessors; nothing is left out
  while budget is left; the attempts stay within `MAX_ATTEMPTS`; trace indices
  are chronological; the answer and the rows do not depend on scheduling; the
  request always ends;
* drivers: every reply is classified, passing trouble of an upstream is not taken
  for permanent, the calls made are the calls charged, upstream limits hold, and a
  rejected token is not sent again;
* breaker: only a streak of failures opens it, and always for a whole cooldown;
* limiter: every slot is returned to the channel it was taken from;
* hub and trace: no event twice, none missing without one of the documented
  losses, bounded memory, every stream ends;
* request life: a client that is told of the end reads the final row; a row
  that stays "running" has a known cause; what was cleared stays cleared;
* guard: no quota lets through more than its allowance, the requests in flight
  and the calls that failed, where the retention reaches back far enough; a
  changed quota applies within the cache's TTL;
* administration: no key refers to a missing chain, whatever races with its
  deletion; one chain is active, chains and providers refer to what exists, unless a
  named race or an unchecked provider broke that;
* accounts: nothing outlives its user, nothing deleted comes back, a setup token
  works once.

`PROJECT.json` lists every component with its status, and under `hazards` the
places where these can go wrong unnoticed, each with the properties about it.

## 2. Modules

```
ChainPlan  -- a chain as the walkers see it; ValidChain
  |- NodeRun  -- what a block's result means; the shared attempt rules
  |    |- FullChain (with Breaker)  -- runFullChain
  |    |    |- FullChainProofs
  |    |    `- MCFullChain
  |    `- LinearWalk  -- runFirstSuccess and runFullChainLegacy
  |         |- LinearWalkProofs
  |         `- MCLinearWalk
  `- DagWalk  -- abstract: a dependency-ordered walk.  FullChain implements it
Cooldown + SemLimiter -> ProviderGate -> MCProviderGate, GateProofs
Breaker  -- the circuit breaker without a clock.  ProviderGate implements it
DriverTable -> DriverResult -> DriverCalls -> MCDriverCalls, DriverProofs
SseHub -> SseStream -> MCSseStream, RequestProofs
RequestLife -> MCRequestLife, RequestProofs
SearchGuard -> MCSearchGuard, SearchGuardProofs
Catalog -> MCCatalog, CatalogProofs
Accounts -> MCAccounts, AccountsProofs
```

**ChainPlan, NodeRun.** A chain is a record: blocks in plan order, their kind
(start, join, provider), edges with a condition, and per block its provider,
retries, answer mode, sparse-source option and policies. `ResultKinds` are the
results the engine tells apart: an answer, an answer with rows, rows, nothing, a
failure, a permanent failure. `zero` (a success without a link that carries
the kind "ok", as searxng or google_cse report it) matters only where the
engine looks at the kind of a result, which the full-chain walk does not;
`FullChain` leaves it out and `LinearWalk` has it.

**FullChain.** One request in `runFullChain`. `StartWave`, `EndWave` and
`Finish` are the wave loop, its `wg.Wait` and the merge with `finalize`. A
block's goroutine goes through `Resolve`, `TakeStep` or `OutOfBudget`, `Call`
and `Settle`, or `PassLogical` if it is a Start or Join. Each action is one critical
section; `Settle` joins the breaker's report, the extra steps, the dead mark and
the decision to retry, because they touch disjoint state and each is read only
in another action. `Cancel` is the expiry of the request's context, `OtherRequest` what
other requests do to the shared breaker. Rows are abstracted to "some or none"
and the merged result to the set of blocks whose rows are in it; what
deduplication does with them is not modelled.

**DagWalk.** What a full-chain request promises, with neither waves nor counters:
groups of blocks finish, each block once and after everything that precedes it,
and the request ends early only when its budget is gone. `ImplementsDagWalk`
maps `walk <- reachable`, `ran <- done`, `over <- phase = "done"`,
`budget <- HasBudget`.

**LinearWalk.** The two sequential walkers. There is one goroutine per request, so
an attempt is one action; whether a provider is cooling down depends on other
requests and the clock, so any block may be skipped for it. `FallbackExhausted`
is about blocks that lead to provider blocks only: a Join in first-success mode
passes on along neutral edges alone, so behind an edge to a Join a
request may end although another edge of the block was never tried.

**Breaker, Cooldown, SemLimiter, ProviderGate.** `Cooldown` is
`cooldown.go` with its clock: `until` holds deadlines and an expired entry lives
until it is looked up. `Breaker` is the same without the clock, as one request
sees it; `ImplementsBreaker` shows that every behaviour of the timed one is a
behaviour of it, which is what allows `FullChain` to use it. `SemLimiter` keeps
every channel ever made, since a release or a waiter may belong to a retired
one. `ProviderGate` runs branches against both, with resizes and time passing
between any two of their steps.

**DriverTable, DriverResult, DriverCalls.** `Registry` in `DriverTable` has one
record per driver: what an instance must fill in, how the count is sent and
capped, which statuses are permanent and by which rule, which fields of an item
make a row, what a body with an error marker or without the list means, whether
it needs a token and how many calls it makes. `DriverResult` is the classification of a
reply, `HTTPClassify` and each driver's exceptions included; its results are the
ones `NodeRun` takes. `DriverCalls` is the control around it: `Search` (or
the refusal before any call), the token cache under its lock (`LockToken`,
`FetchToken`, `FetchFails`, `ExpireToken`), the process-wide limiter
(`WaitLimit`, `Depart`, `Leave`), `Reject` for Vertex AI's single
re-authentication, and `Reply`, which ends the search or, for PubMed, one of its
stages. `why` records what a search ended with: the driver's or the token
endpoint's refusal, trouble of the token endpoint, a lost or unreadable reply,
a busy upstream, or an answer. Query parameters, field names and row formats are left out.

**SseHub, SseStream.** `Publish` is two halves, as in the code: entering
the event under the lock with a snapshot of the subscribers, then one
`SendOne` per recipient after the unlock. `SseStream` adds the request's goroutines (branches
that save, then publish a step; the wait; the store update, which may be
refused when the context has expired; `request_done`) and one client with its
handler, which may lose its connection and come back with `Last-Event-ID`.
Another request publishes once: enough to evict this one's buffer when
`MaxKeys` is 1. A failing `SaveStep` is left out (the code logs it and
publishes all the same).

**RequestLife.** `Execute` and `Start` store call by store call: create the row,
list providers and proxies, save steps, update, publish. Every call fails when the request's context has
expired (`Expire`), or by a bounded number of faults. Beside them `ClearHistory`,
`Cleanup`, which deletes what is older than the retention to the moment
(`created` and `today` know days, so of the day of the cutoff any part may go),
`Midnight`, `Stop` and `Restart`. The walk is
reduced to the steps it saves and the status it ends with, which the
walker modules determine. `cause` records why a row may differ from what its
client was told.

**SearchGuard.** One user's requests from `quotaCache.get` (the look at the
entry, the read outside the lock, the put) over the rate limit, `checkUserQuota`
and the daily quota of the key, each check and each count a store call of its
own that may fail open. `WriteQuota` and `Invalidate` are the administrator's
two steps; `Cleanup` prunes with whatever retention is set; `Tick` crosses the
ends of days, periods and windows. Rolling hits are keyed by timestamp, a tick and
an `Instant` of it: hits at one instant are one row, and where the window or the
retention begins within a tick the comparison of timestamps as text may take or
leave each hit of that tick (`AtEdge`). `admitted`, `admittedAt` and
`admittedDay` record what the quotas let through, which the properties bound, not
the counters the cleanup may have lost; `cleaned` when it ran. What the rate limiter rejects is left open: any request may be
rejected.

**Catalog.** Chains, keys, providers and proxies as four tables. A handler is a
slot: it reads and validates (`EditChain`, `CheckDelete`, `EditKey`, ...), then
writes what it decided (`SaveChain`, `Unbind` then `DropChain`, `WriteKey`, ...), and
anything may happen in between. The schema's foreign keys and ON DELETE actions
are part of the writes. Searches authenticate with a key, write its whole row
back (`TouchKey`, the time of use) and resolve their chain. A chain may name
providers that do not exist: `ValidateChain` only warns of them, when a draft is
saved and when a chain is activated. `waived` records the providers of which it
warned, or for whose deletion the chains could not be read; `raced` the ids of
which another write made a handler's reading outdated before the handler wrote
(`Outdated`, `Overtaken`).

**Accounts.** `BeginSetup` to `ForgetToken` is `handleSetup` under its lock,
`Restart` what `main.go` does about the setup token. Users, keys, passkeys and
sessions are rows with the cascades of the schema; requests that read a row and
write later (`ReadUser`/`WriteUser`, `ReadSession`/`CheckUser`/`ExtendSession`,
`Login`/`CreateSession`, `FinishCeremony`/`CreatePasskey`) keep what they
read. Ceremonies are in memory and end with the process.

A definition named `Slip...` is a plausible mistake in the definition that
follows it. No action uses it: it documents what the properties are able to
tell apart, and each property of a passing run has one that violates it
(`mutants` in `PROJECT.json`).

## 3. Runs

| run | instance | shows |
|---|---|---|
| `full_chain` | every accepted chain over s, a, b and j, with j a join or a third provider and one coloured edge; providers p and q, 3 attempts, threshold 1, at most 1 extra call; 1.2 million states | `TypeOK`; a join waits (`JoinWaits`); nothing is left behind (`NoBlockLeftBehind`); attempts within the budget and `stepNo` over it by at most one charge per block (`BudgetBound`); the answer is the last one in plan order (`AnswerIsLast`); `RecordSound`: indices chronological, rows merged independently of scheduling, the status backed by what was found |
| `full_chain_live` | chains of three or four edges ending in a join, 4 attempts, breaker off | the request is finalized, and implements `DagWalk` |
| `linear_walk` | three blocks, the last a provider or a Join, with or without Start, every condition on every edge, four policies, both walkers; 1.2 million states | `WalkSound`: sequential budget, no block twice, a usable result ends the request, merged rows are the winners', fallbacks are exhausted before a failure, "ok" is backed; the request ends |
| `sse_stream` | two branches of one step, one evicting neighbour, two connections; buffers and channels of two, one event short of the trace | `Deliveries`: the hub's bounds, no event twice in a connection, an unbroken stream is complete; every stream ends |
| `provider_gate` | two branches of two attempts, one provider, threshold 2, cooldown of 2 ticks of 4, limits 0 to 2, two resizes | slots balance; `CooldownExact`: a streak always starts a whole cooldown and nothing else does; `Breaker` is implemented; a waiter is served |
| `search_guard` | two concurrent requests, four in all, one key, daily quota 1; user quotas calendar, rolling and zero; TTL 1, period 2, window 2, retention 1, three ticks of two instants; one edit, cleanup or fault; 2.9 million states | `QuotasHold`: no quota lets through more than its allowance, the other requests in flight and one for each call that failed, but for what the cleanup has cut; `AppliesWithinTTL` |
| `request_life` | two requests of one step with outcomes ok and fail, one fault, one stop, one clear, three days, retention of one | `RowsAgree`: no orphan steps, `request_done` once and after the row, "running" only with a cause; `ClearedStaysCleared`; `EventuallySettled`: every row that is running is settled, or a cause leaves it for good |
| `catalog` | two chains, two keys, two providers, one proxy, two administrators with three operations, one searcher with two requests, one failing read | `BindingsHold`: no key refers to a missing chain, and a request misses its chain only if it was deleted under it; `IntegrityKept`: object by object, one chain is active, every chain complete, every proxy there and every binding as acknowledged, unless a provider was not looked for or a reading overtaken |
| `driver_calls` | all drivers, each alone with every instance and every reply it can tell apart; GitHub and Vertex AI Search with two searches that meet; timeout 2, three ticks | `TroubleClassified`, `CallsAreCharged`, `UpstreamLimits`, `RetryUsesAnotherToken`; every search ends |
| `accounts` | two users, one session, one ceremony, two concurrent requests, two ticks, two setup tokens, one fault, both ways to set the token; 1.3 million states | `OwnersExist`, `TokenWorksOnce`, `EndedStaysEnded`, setup requests exclude each other |
| `answer_outcome`, `driver_panic` | see below | violated |

Why these bounds are enough to be interesting: four blocks give diamonds, chords, a
coloured edge that must be ignored, and joins behind a path and a direct edge at
once. Three attempts for three providers, one with a retry and each able to
charge one more call, make the budget run out at every point of the walk; p is
shared by two blocks, so a dead mark and the breaker reach a sibling. In
`linear_walk` three blocks are the smallest chain in which policy, edge and
order fallback choose differently. The trace of `sse_stream` has three events, so
both a whole and a trimmed buffer, and a full and a roomy channel occur. In
`provider_gate` a threshold of 2 lets failures of two branches mix, a clock
beyond one period lets an entry expire and trip again, and three
channels cover holding one, waiting on another and current a third. In
`search_guard` two requests pass a check together while others come later,
and three ticks cross a day, a period, a window and a TTL. The rolling allowance
is 2, so that two hits of one instant matter, and the retention is shorter than
the window, so that the cleanup cuts one; it never cuts a period of two days,
which the theorem covers. In `request_life` a request can be made on one day and
pruned on another while it runs, and an older one stays beside it.
In `catalog` three operations are one more than a race of two needs, so what
a race leaves behind is used; the ids are given out once, so a creation can
race with a deletion of what it refers to. `IntegrityKept` excuses what was raced
or waived; each of its excuses is needed, as TLC finds a counterexample when it is
dropped, so the races are among the behaviours. In `driver_calls` two drivers meet
because they are the ones with something to share: GitHub has two instances of
one limiter, Vertex AI Search the token cache that a 401 invalidates; all other
sharing goes through the same code. In `accounts` two users and two requests let a
request act for a user another one deletes, and a restart can come between any
two steps of a setup; two setup tokens let a token be replaced.

Deadlock is not checked in `search_guard`, `request_life`, `catalog`,
`driver_calls` and `accounts`: such an instance has nothing left to do when its requests, ticks or
operations are used up. The others are checked for it.

### Disagreements with what the code says of itself

Two runs check a sentence of the repository and find it violated (`findings` in
`PROJECT.json` quotes the lines).

* `answer_outcome` -- "A generated answer is a valid outcome even when no Row
  was collected": a later block that was skipped or failed makes the status
  "fail", which `finalize` does not redeem.
* `driver_panic` -- "Search performs one upstream call and classifies the
  outcome": You.com's driver asserts the type of `results` unchecked and panics
  on a reply without that object.

Other claims are stated as definitions next to the module they are about. The
code does not keep them, and no run lists them; add the definition to the
cfg to see the behaviour:

* `FullChain!SparseSourcesMixedIn` -- `allow_sparse_sources` lets an answer
  block's sources be mixed into the rows; the parallel executor keeps the answer
  *or* the rows.
* `LinearWalk!EmptyIsEmpty` -- a first-success request whose last call succeeded
  without a link ends "empty" in the tests, whose stub reports the kind "ok"; most
  drivers report the kind "empty", and then it ends "fail".
* `SseStream!ReconnectComplete` -- reconnects "receive the full trace": two
  branches send after the unlock in the other order, and `Last-Event-ID` then
  skips the event the client never saw.
* `SseStream!PublishNeverPanics` -- "Publishing after Close is a no-op and must
  not panic": a publish that took its snapshot before `Close` sends on a
  closed channel.
* `SearchGuard!RetentionCovers` -- "The longest allowed window is 720h, so the usage
  retention window always covers it" (`jobs/cleanup.go:67`): nothing keeps
  `usage_retention_days` from being set below 30,
  and then the job deletes hits that count.
* `RequestLife!ReturnedIsPersisted` -- `Execute` "returns the persisted request":
  an expired context loses the update.
* `SearchGuard!RejectedIsFree` -- `recordQuotaHit` "records one admitted
  request": one that the daily quota rejects has been charged.
* `Catalog!BindingTakesEffect` -- a key's new binding "takes effect from the
  next request": the time of use of a request under way writes the old row back.

More follow from the models without a sentence to refute: an administrator
whose key could not be made remains and blocks a second setup (`SetupFails`);
the last administrator can be deleted or disabled (`RemoveUser`, `WriteUser`);
a connection lost to a token endpoint ends a block for good, one lost to the
provider itself does not (`FetchFails`); a chain activated while it is being
deleted is gone and none is active (`CheckDelete`, `DropChain`); and an edit that
read the active flag before an activation leaves two chains active (`EditChain`,
`SaveChain`).

## 4. Fairness

* `FullChain`, `LinearWalk`: weak fairness of the wave loop and of every
  branch. Goroutines are scheduled, driver calls end with the block's timeout,
  and waits before a retry are capped and end with the context. Nothing makes a
  request be cancelled or another request run.
* `SseStream`: weak fairness of the publishers, of `finalize` and of the
  handler. A connection need not break and the server need not stop.
  `StreamEnds` excludes the cases in which the code gives no guarantee: a full
  channel that dropped an event of the stream, a forgotten `request_done` whose
  outcome the store does not know, and a subscription after `Close`.
* `ProviderGate`: weak fairness of returning from a call (it has a timeout);
  strong fairness of acquiring, because Go's channels serve blocked
  senders in order; none of giving up the wait or of resizes.
* `RequestLife`: weak fairness of a request that has begun and of the restart. No context need expire,
  no history be cleared, no process stop.
* `DriverCalls`: weak fairness of the clock and of what a goroutine does by
  itself. An upstream or a token endpoint owes no answer; only the timeout of
  the HTTP client that asks it is certain (`Runs`).

`SearchGuard`, `Catalog` and `Accounts` state safety only and no fairness.

## 5. Proofs

Constants: `MaxAttempts` is a positive and `MaxExtra` a natural number (`BudgetAssumption`),
`Threshold` is a natural (`ThresholdAssumption`). `ChainsAssumption` says what
`ValidateChain` and the store guarantee before a request runs: in `FullChain`
that chains are well-formed, start with a Start block and name a provider for
every provider block, and `ValidatedAssumption` that they have no neutral cycle;
in `LinearWalk` that they are `ValidChain`, with policies from the vocabulary. For
the gates: the period is at least one tick (`CooldownAssumption`), limits are
naturals (`LimitsAssumption`), a block has at least one attempt
(`AttemptsAssumption`) and branches are finitely many (`CallerAssumption`). For
the drivers `CallsAssumption`: times are naturals, the searches ask instances of
the table's shape, and drivers that meet get replies they can tell apart. For
the guard `GuardAssumption`: finitely many callers, at least one, each with a key,
quotas with a natural allowance, and TTL, period and window of at least one
tick; the retention may be any number, and there is at least one instant. For requests, accounts and the catalog: `LifeAssumption`,
`AccountsAssumption` and `CatalogAssumption`, that requests are finitely many,
that statuses are the three outcomes, that bounds are naturals, that nobody is
not a user, that a missing row is not a row nor the empty reference an id, and
that providers have ids of their own.
For the trace `HubAssumption`, that buffers, keys and channels have room for at
least one, and `StreamAssumption`, that steps and connections are natural
numbers and that the names of goroutines and requests differ.
TLC evaluates them all on the instances.

**FullChainProofs**, about `FullChain`, in four parts.

* `TypeCorrect`: `Spec => []TypeOK`. It is inductive together
  with `ChainFixed` (the chain is one of `Chains`, and `reachable` is its set
  of reachable blocks), split into the walk's, the branches', the shared and
  the breaker's part.
* `Rendezvous`, `InDegrees`, `Completeness`: `JoinWaits`,
  `IndegCounts`, `NoBlockLeftBehind`. None is inductive: a block is launched
  because its *counter* is zero. `WaveInv` ties the counters to the edges
  from unfinished blocks, the running wave to the goroutines that left
  "idle", and a finished request to an exhausted walk. The step that ends a wave needs that the edges into a
  block split into those from the wave and the rest (`EdgeCountSplit`), and that
  no edge enters Start (`StartIsSource`, from acyclicity). `Completeness` also
  needs that a walk with blocks left has a ready one (`NoStall`): otherwise
  the blocks left would all have a predecessor among themselves.
* `Implements`: `Spec => ImplementsDagWalk`. `EndWave` maps
  to `Run`, `Finish` to `End`, a step that spends the last attempt to `Spend`,
  everything else to a stutter; the rendezvous of `WaveInv` gives `Run` its
  guard.
* `LastAnswerWins`: `Spec => []AnswerIsLast`. `AnswerInv` says
  that while the walk goes on the shared answer is that of some block whose
  latest result holds one, and that a block that has finished with an answer is "ok",
  so the merge pass sees exactly the blocks the property speaks of.
* `Recorded`: `Spec => []RecordSound`, from `ChronologicalTrace`
  (`ChronologicalIdx`) and `RowsAndOutcome` (`SearchRowsMerged` and
  `OutcomeBacked`). `IdxInv` says that exactly the provider blocks launched so
  far have an index, all below the next one; a block of a new wave gets its place
  among those of the wave that precede it in the plan, so two blocks differ
  because their positions do (`WaveOrder`), and what precedes a block was
  numbered in an earlier wave. `RecordInv` adds that a block that has not
  returned has reported nothing; with `AnswerInv` every report is the status of the
  block's result when `Finish` reads it (`ReportsAreResults`), and one that is
  "ok" keeps an answer or its rows (`OkKeepsSomething`).
* `BudgetHolds`: `Spec => []BudgetBound`. `BudgetInv` bounds the counter by the
  budget and one extra charge for each provider block that is *out of its call*:
  taking a step needs budget to spare and moves a block into its call, which uses
  its allowance up, and settling gives it back, once (`Allowance`). Each attempt
  is one step taken below the limit, so there are at most `MaxAttempts` of them.

**LinearWalkProofs**, about `LinearWalk`: `LinearTypes` (`TypeOK`) and
`LinearWalkIsSound` (`WalkSound`). The inductive invariant `LinearInv` has a part
per clause. `OnTheWay`: the block the walk is at is ahead, along the chain's
edges, of every block it has visited. An acyclic graph has no block ahead of
itself (`NeverAheadOfItself`), and every rule that chooses the next block chooses
the end of an edge (`NextLeads`, `NeutralLeads`), which gives `NoBlockTwice`
for both walkers although only one of them keeps a visited set. `GoesOn`: what a
running request has won was not meant to end it. `WayOn`: after a block that
lost under default policies and leads on, the walk is at the provider block it
leads to, so it cannot have ended there for want of an edge. `Backed`: what the
status will be, as long as it can still change, follows from the rows, the answer and the
last result. `FallbackExhausted` needs `LeadsOn`: of a block with just some edge out it is
false in chains with Joins, where `WayOn` is lost at `PassLogical`.

**DriverProofs**, about `DriverCalls`: `SearchTypes` (`TypeOK`),
`PermanenceFits` (`TroubleClassified`), `ChargedCalls`
(`CallsAreCharged`), `RetriesWithAnotherToken` (`RetryUsesAnotherToken`) and
`LimitsKept` (`UpstreamLimits`), for every driver of the table. Lemma `Table`
goes through the entries of `Registry` once and shows what the rest needs of
each (`Sane`, `Entry`): caps and stages in range, no token where there are
stages, no passing status listed as permanent, a rule of its own for SerpBase alone. `SearchInv` then says of every
search what its place implies: `Charged` counts its calls against the stage and the
rejected token, `TokensOf` that a rejected token is neither the search's own
nor the cached one. The last is why the retry is safe: tokens are minted in order,
and `Invalidate` drops the cached one whichever it is, at worst a newer one that
another search has fetched meanwhile. `Fitting` is the classification, ending by
ending: a lost or unreadable reply is not permanent with any driver; a busy
upstream is not with any but SerpBase and instances with codes of their own; any
failure of the token endpoint is, whatever its cause (`vertex_search.go:91,98`,
`rest.go:32`).
`Spaced` adds that whoever holds a moment of a limiter holds it an interval
before the limiter is free again.

**SearchGuardProofs**, about `SearchGuard`: `GuardTypes` (`TypeOK`),
`QuotasAreKept` (`QuotasHold`), `ChangeAppliesInTime` (`AppliesWithinTTL`) and
`RetentionThatCovers`. What was let through bounds nothing alone,
because what passed a check is let through later. `QuotaInv` bounds for every
calendar period, rolling window and day what was let through *together with* the
requests on their way: a check that passes finds the counter below the
allowance and adds one of at most all callers; a call that fails adds one
and a fault; a charge moves one from the way to what was let through (`Moves`,
`BoundStep`). `Shown` ties that to the counters: they lack no more than the
charges that failed, unless the cleanup has cut them. A rolling window that
contains the moment of a check lies within the hits that check must have counted,
whichever of the edge it took. `Dated`: an entry or a read that
differs from the row was read before the row's last change. `QuotasHold` claims nothing for a
period or window the cleanup cut; `RetentionThatCovers` says when there is none: with
the retention disabled, or not shorter than the window and at most a day shorter
than the period. The default of 90 days is enough, a setting below 30 is not. A
request whose quota could not be read is under no quota, so neither bound counts
it.

**GateProofs**, about `ProviderGate`: `GateTypes` (`TypeOK`), `SlotsAccounted`
(`SlotsBalanced`), `CooldownsHold` (`CoolsDown`), `NoIdleCooldown`
(`SkippedForAStreak`), `Cooldowns` (`CooldownExact`, both) and
`BreakerRefined` (`ImplementsBreaker`), for every set
of providers, finite set of branches, threshold, period and sequence of
limits. The inductive invariant `Inv` has three parts. `BranchInv`: a branch
past "idle" has a provider, and one that waits or calls has a captured channel.
`SlotInv`: a bounded channel's count is the number of calls that captured it;
the call that returns is one of them, so there is a slot to give back.
`StreakInv`: a provider without an entry has counted exactly its streak, and
one with an entry has a complete streak and a deadline no earlier than a
period after it was completed, because later failures only move the deadline
on. Without that last part a late failure could not be told from one
that shortens the cooldown.

**RequestProofs**, in two parts. About `RequestLife`: `LifeTypes` (`TypeOK`),
`RowsSound` (`RowsAgree`) and `ClearingLasts` (`ClearedStaysCleared`), for every
finite set of requests and any number of steps, faults, stops and clears.
`RowsAgree` is not inductive: that a request returns with a settled row is
decided in `UpdateRequest`, two steps earlier. `Stage` says for every place of a
request what its row, its event and its cause are there; `StageStep` shows that
every action keeps it.

About `SseStream`: `StreamTypes` (`StreamTypeOK`) and `TracesDelivered`
(`Deliveries`), for any branches, steps, other requests, connections and bounds
of the hub. `Deliveries` speaks of the past, what a client has seen; the
inductive `StreamInv` of all the places an event can be on its way to it: the
buffer, the replay the handler was given, its channel, the hands of a goroutine
between the halves of `Publish`.

* The hub: the queue of keys has no key twice because a key joins it only when
  it has no buffer, and what is evicted leaves both (`OrderStep`).
* Once per connection: ids are given out in ascending order under the lock, so
  `OnceInv` and `ChannelInv` can keep those of the replay, the channel, the
  events seen and the events in hand apart. `Connect` is the delicate step: a
  goroutine that took its snapshot before does not have the new connection in it
  (`FlightsInv`), one that takes it later gets an id the replay does not contain.
* `request_done` last: it is published after the branches are over and have sent
  everything (`BranchesFirst`), so it is the last event wherever it is (`DoneInv`),
  and a handler that ends at it leaves nothing unread.
* Completeness: `CoverInv` says that everything published (`OutThere`) is in the
  buffer before the first connection and afterwards has been seen or is in one of
  those places, unless the publisher panicked or `lost` tells how it got lost.

The replay is the buffer's suffix after the last event the client has seen
(`Replay`); the code filters by id, and `NewerAreLast` shows that in a buffer
whose ids ascend there is such a suffix.

**AccountsProofs**: `AccountTypes` (`TypeOK`), `NoOrphanRows` (`OwnersExist`),
`SetupTokenSpent` (`TokenWorksOnce`) and `NothingReturns`
(`EndedStaysEnded`), for any sets of users, sessions, ceremonies and
requests. The inductive invariant adds to them `Holds` (a request that is about
to write a session or a user holds an id, and a setup request a token) and
`TokenInv`: unless the environment sets it or the store failed, a spent token
is neither accepted nor stored, and tokens made later are new.

**CatalogProofs**: `CatalogTypes` (`TypeOK`), `BindingsFollow` (`BindingsHold`)
and `WhatIsChecked` (`IntegrityKept`), for any ids, administrators and
searches. The inductive invariant has six parts: the types; `Slots`, what a
slot at each place holds (an id given out, a row that may be written there);
`Uses`, that a search's chain exists or was deleted under it;
`BindingsExist`; `Integrity`, the property with the one active chain named; and
`Current`, that what a handler relies on still holds or is raced or waived. The
last is what carries the others through a write: a row was checked against the
tables, and whoever changed them since has raced the ids it changed (`Bystanders`).

Every invariant and every action property the passing runs check is stated by a
theorem. Only model-checked are the liveness properties: liveness under fairness
and `ENABLED` are beyond the proof system.

## 6. Not modelled

* The contents of rows, links, snippets and answers; the wire formats of the
  drivers; texts, metrics, webhooks and log lines.
* A change of the breaker's settings at runtime (threshold and period are
  constants of a run); a change of `MAX_CONCURRENCY` is modelled. A change of a
  driver's settings while its searches run.
* `cooldown.active`, the metrics sweep: it does to every key what `blocked` does
  to one.
* `stats_daily`: `finalize` and the cleanup job recompute today's row (the job
  yesterday's too), so pruned and cleared days keep their counts for good. Nothing
  reads the table; the statistics are counted from the requests.
* What the sliding windows of `auth/ratelimit.go` let through: `SearchGuard` lets it
  reject any request.
* PostgreSQL's read committed: the store calls of `Catalog`, `Accounts` and
  `RequestLife` are atomic, as on SQLite.
* Hashing, cookies, CSRF, signatures and the permissions of developer tokens.
* Components `PROJECT.json` lists as `not_modelled`, with the reason: single
  store calls, libraries, I/O.

## 7. What would come next

1. `Settings` with its cache and `McpSessions` with its sessions in memory: small
   shared state behind locks.
2. Algorithms checked against a definition on every small input: the validator's
   traversals against `ValidChain`, row merging (link classes, order,
   attribution), the rate limiter's windows, the backoff.
3. Two transactions of `ActivateChain` at read committed, with the row locks of
   each UPDATE.
