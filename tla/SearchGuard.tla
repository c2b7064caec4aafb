----------------------------- MODULE SearchGuard -----------------------------
(***************************************************************************)
(* The guard in front of /search, /mcp and the playground: the cached per- *)
(* user quota (httpd/quotas.go), the user's own quota and the global daily *)
(* quota (httpd/guard.go) over the counters of the store, with an          *)
(* administrator who changes the quota and the cleanup job that prunes the *)
(* counters.                                                               *)
(*                                                                         *)
(* One user owns every API key; a caller is a slot for one request of that *)
(* user at a time, bound to a key. Time is a bounded clock: a tick stands  *)
(* for whatever unit, of a second or more, makes the windows below small   *)
(* numbers, and holds several instants. Timestamps are compared as text,   *)
(* which drops trailing zeros of the fraction: of two instants of one tick *)
(* either may come first, of two ticks the earlier does.                   *)
(***************************************************************************)
EXTENDS Naturals, FiniteSets

CONSTANTS
    Callers,        \* concurrent requests of the user
    Keys,           \* the user's API keys, the subjects of limiter and daily quota
    KeyOf,          \* the key a caller authenticates with
    Quotas,         \* the quota rows an administrator may store
    NoQuota,        \* no row, or a row that means unlimited
    RateLimit,      \* search_rate_limit_per_minute, 0 disables
    DailyQuota,     \* search_daily_quota, 0 disables
    CacheTTL,       \* quotaCacheTTL
    Period,         \* length of the user's calendar period in days (ticks)
    Window,         \* length of the user's rolling window
    Retention,      \* usage_retention_days, 0 disables
    Instants,       \* the instants of a tick that timestamps tell apart
    MaxTime,        \* bound: the last tick
    MaxRequests,    \* bound: requests that are started
    MaxTrouble      \* bound: writes, failing store calls and cleanups together

ASSUME GuardAssumption ==
    /\ IsFiniteSet(Callers) /\ Callers # {} /\ Instants # {}
    /\ KeyOf \in [Callers -> Keys]
    /\ \A q \in Quotas : /\ q.requests \in Nat
                         /\ q.period \in {"calendar", "rolling"}
    /\ NoQuota \notin Quotas
    /\ {RateLimit, DailyQuota, MaxTime, MaxRequests, MaxTrouble, Retention} \subseteq Nat
    /\ {CacheTTL, Period, Window} \subseteq Nat \ {0}

Times == 0 .. MaxTime

VARIABLES
    now,            \* the clock
    row,            \* the user's row in user_quotas
    changed,        \* history: when the row was last written
    cache,          \* the user's entry of quotaCache, a set of at most one entry
    admin,          \* "idle", or "written": row written, cache not yet invalidated
    periodUsed,     \* usage_daily of the user, by the start of the period
    rolling,        \* usage_rolling of the user: the timestamps of its hits
    dayUsed,        \* usage_daily of a key, by day
    pc,             \* where a caller is
    uq,             \* userQuota, or the row the caller has read and not yet cached
    at,             \* the time.Now() the caller works with
    readAt,         \* history: when the caller read the row
    faults,         \* history: store calls that failed
    started,        \* history: requests started
    writes,         \* history: writes of the administrator
    admitted,       \* history: requests a calendar quota let through, by period
    admittedAt,     \* history: when requests were that a rolling quota let through
    admittedDay,    \* history: requests the daily quota let through, by key and day
    cleaned         \* history: when the counters were pruned

store == <<row, changed, admin, writes>>
counters == <<periodUsed, rolling, dayUsed>>
locals == <<pc, uq, at, readAt>>
Trouble == writes + faults + Cardinality(cleaned)
history == <<admitted, admittedAt, admittedDay, cleaned>>
vars == <<now, store, cache, counters, locals, faults, started, history>>

(* A slip for the checks: a row without allowance is kept. *)
SlipKeepsZero(q) == q

(* A row with requests = 0 is an unlimited user (quotas.go:59). *)
Effective(q) == IF q # NoQuota /\ q.requests > 0 THEN q ELSE NoQuota

(* quotaPeriodKey: the start of the period that contains the moment. *)
PeriodStart(t) == t - (t % Period)

(* The hits of the window that ends at t, and those of the tick in which   *)
(* it begins: of these the comparison as text takes some and leaves some.  *)
InWindow(t) == {h \in rolling : h[1] + Window > t}
AtEdge(t) == {h \in rolling : h[1] + Window = t}

(* CountRollingHits from now - window on, without an upper bound: the      *)
(* counts the query may give.                                              *)
CountRollingHits(t) ==
    Cardinality(InWindow(t)) .. Cardinality(InWindow(t) \cup AtEdge(t))

(* A slip for the checks: the usage is looked up under the day. *)
SlipUsageOfDay(q, t) == IF q.period = "rolling" THEN CountRollingHits(t)
                        ELSE {periodUsed[t]}

(* quotaUsage: the usages a check may read. *)
QuotaUsage(q, t) == IF q.period = "rolling" THEN CountRollingHits(t)
                    ELSE {periodUsed[PeriodStart(t)]}

(* A slip for the checks: the timestamp leaves the fraction out. *)
SlipWholeTick(t, i) == <<t, CHOOSE j \in Instants : TRUE>>

(* now.Format(RFC3339Nano): distinct instants have distinct timestamps. *)
Timestamp(t, i) == <<t, i>>

(* A slip for the checks: an entry is used until it is invalidated. *)
SlipAlwaysFresh(e) == TRUE

Fresh(e) == now - e.fetched < CacheTTL

(* The caller goes on at l with its quota, its clock reading and its read; *)
(* a request that has ended leaves nothing behind.                         *)
Goto(c, l, q, t, r) ==
    /\ pc' = [pc EXCEPT ![c] = l]
    /\ uq' = [uq EXCEPT ![c] = IF l = "idle" THEN NoQuota ELSE q]
    /\ at' = [at EXCEPT ![c] = IF l = "idle" THEN 0 ELSE t]
    /\ readAt' = [readAt EXCEPT ![c] = r]

(* The first check that applies to a request once its quota is known. *)
AfterLookup(q) ==
    IF RateLimit > 0 THEN "limit"
    ELSE IF q # NoQuota THEN "user"
    ELSE IF DailyQuota > 0 THEN "daily" ELSE "idle"
AfterLimit(q) ==
    IF q # NoQuota THEN "user" ELSE IF DailyQuota > 0 THEN "daily" ELSE "idle"
AfterUser == IF DailyQuota > 0 THEN "daily" ELSE "idle"

-----------------------------------------------------------------------------
(* quotaCache.get of the request: the entry under the read lock, the store *)
(* outside of it, put under the write lock.                                *)

Peek(c) ==
    /\ pc[c] = "idle" /\ started < MaxRequests
    /\ started' = started + 1
    /\ \/ \E e \in cache :
            /\ Fresh(e)
            /\ Goto(c, AfterLookup(e.quota), e.quota, now, 0)
       \/ /\ \A e \in cache : ~Fresh(e)
          /\ Goto(c, "read", NoQuota, 0, 0)
    /\ UNCHANGED <<now, store, cache, counters, faults, history>>

(* ErrNotFound and a row without allowance are cached as no quota. *)
ReadRow(c) ==
    /\ pc[c] = "read"
    /\ Goto(c, "put", Effective(row), 0, now)
    /\ UNCHANGED <<now, store, cache, counters, faults, started, history>>

(* Any other error is not cached: the request has no user quota. *)
ReadRowFails(c) ==
    /\ pc[c] = "read" /\ Trouble < MaxTrouble
    /\ faults' = faults + 1
    /\ Goto(c, AfterLookup(NoQuota), NoQuota, now, 0)
    /\ UNCHANGED <<now, store, cache, counters, started, history>>

Put(c) ==
    /\ pc[c] = "put"
    /\ cache' = {[quota |-> uq[c], fetched |-> now, read |-> readAt[c]]}
    /\ Goto(c, AfterLookup(uq[c]), uq[c], now, 0)
    /\ UNCHANGED <<now, store, counters, faults, started, history>>

-----------------------------------------------------------------------------
(* RateLimiter.AllowLimit: what its window holds is left out, so that it   *)
(* may reject any request.                                                 *)

AllowLimit(c) ==
    /\ pc[c] = "limit"
    /\ \E ok \in BOOLEAN : Goto(c, IF ok THEN AfterLimit(uq[c]) ELSE "idle", uq[c], 0, 0)
    /\ UNCHANGED <<now, store, cache, counters, faults, started, history>>

-----------------------------------------------------------------------------
(* checkUserQuota: the usage is read in one call, the hit recorded in      *)
(* another, both at the moment the check began. A failing read lets the    *)
(* request through to the charge, a failing charge to the daily quota.     *)

CheckUser(c) ==
    /\ pc[c] = "user"
    /\ \/ /\ \E n \in QuotaUsage(uq[c], now) :
                Goto(c, IF n < uq[c].requests THEN "charge" ELSE "idle", uq[c], now, 0)
          /\ UNCHANGED faults
       \/ /\ Trouble < MaxTrouble /\ faults' = faults + 1
          /\ Goto(c, "open", uq[c], now, 0)
    /\ UNCHANGED <<now, store, cache, counters, started, history>>

(* recordQuotaHit: one upsert. The hits of a rolling quota are keyed by    *)
(* their timestamp and ON CONFLICT DO NOTHING, so that hits at the same    *)
(* instant i are one row.                                                  *)
RecordQuotaHit(c, i) ==
    IF uq[c].period = "rolling"
    THEN /\ rolling' = rolling \cup {Timestamp(at[c], i)}
         /\ UNCHANGED periodUsed
    ELSE /\ periodUsed' = [periodUsed EXCEPT ![PeriodStart(at[c])] = @ + 1]
         /\ UNCHANGED rolling

(* History: the request of instant i is let through, counted or not. *)
Admit(c, i) ==
    IF uq[c].period = "rolling"
    THEN /\ admittedAt' = admittedAt \cup {<<at[c], i>>}
         /\ UNCHANGED admitted
    ELSE /\ admitted' = [admitted EXCEPT ![PeriodStart(at[c])] = @ + 1]
         /\ UNCHANGED admittedAt

ChargeUser(c) ==
    /\ pc[c] \in {"charge", "open"}
    /\ \E i \in Instants :
          /\ Admit(c, i)
          /\ \/ RecordQuotaHit(c, i) /\ UNCHANGED faults
             \/ /\ Trouble < MaxTrouble /\ faults' = faults + 1
                /\ UNCHANGED <<rolling, periodUsed>>
    /\ Goto(c, AfterUser, uq[c], 0, 0)
    /\ UNCHANGED <<now, store, cache, dayUsed, started, admittedDay, cleaned>>

(* A slip for the checks: the quota may be reached once more. *)
SlipDayAtQuota(k) == dayUsed[k][now] <= DailyQuota

DayHasRoom(k) == dayUsed[k][now] < DailyQuota

(* The global daily quota of the key. *)
CheckDaily(c) ==
    /\ pc[c] = "daily"
    /\ \/ /\ Goto(c, IF DayHasRoom(KeyOf[c]) THEN "count" ELSE "idle",
                  uq[c], now, 0)
          /\ UNCHANGED faults
       \/ /\ Trouble < MaxTrouble /\ faults' = faults + 1
          /\ Goto(c, "countopen", uq[c], now, 0)
    /\ UNCHANGED <<now, store, cache, counters, started, history>>

CountDaily(c) ==
    /\ pc[c] \in {"count", "countopen"}
    /\ \/ /\ dayUsed' = [dayUsed EXCEPT ![KeyOf[c]][at[c]] = @ + 1]
          /\ UNCHANGED faults
       \/ /\ Trouble < MaxTrouble /\ faults' = faults + 1
          /\ UNCHANGED dayUsed
    /\ admittedDay' = [admittedDay EXCEPT ![KeyOf[c]][at[c]] = @ + 1]
    /\ Goto(c, "idle", NoQuota, 0, 0)
    /\ UNCHANGED <<now, store, cache, periodUsed, rolling, started,
                   admitted, admittedAt, cleaned>>

-----------------------------------------------------------------------------
(* handlePutUserQuota and handleDeleteUserQuota: the row, then the cache.  *)

WriteQuota ==
    /\ admin = "idle" /\ Trouble < MaxTrouble
    /\ writes' = writes + 1
    /\ \E q \in Quotas \cup {NoQuota} : row' = q
    /\ changed' = now
    /\ admin' = "written"
    /\ UNCHANGED <<now, cache, counters, locals, faults, started, history>>

Invalidate ==
    /\ admin = "written"
    /\ cache' = {}
    /\ admin' = "idle"
    /\ UNCHANGED <<now, row, changed, writes, counters, locals, faults, started, history>>

(* A slip for the checks: everything before today goes. *)
SlipOutdatedYesterday(t) == t < now

(* DeleteOldUsage compares the date a key starts with. *)
Outdated(t) == t + Retention < now

Pruned(f) == [t \in Times |-> IF Outdated(t) THEN 0 ELSE f[t]]

(* Cleanup: DeleteOldUsage, then DeleteOldRollingHits, both before         *)
(* now - retention, whatever the windows are. Hits of the tick in which    *)
(* the retention begins may go or stay.                                    *)
Cleanup ==
    /\ Retention > 0 /\ Trouble < MaxTrouble
    /\ periodUsed' = Pruned(periodUsed)
    /\ \E gone \in SUBSET {h \in rolling : h[1] + Retention = now} :
          rolling' = {h \in rolling : ~Outdated(h[1])} \ gone
    /\ dayUsed' = [k \in Keys |-> Pruned(dayUsed[k])]
    /\ cleaned' = cleaned \cup {now}
    /\ UNCHANGED <<now, store, cache, locals, faults, started,
                   admitted, admittedAt, admittedDay>>

Tick ==
    /\ now < MaxTime
    /\ now' = now + 1
    /\ UNCHANGED <<store, cache, counters, locals, faults, started, history>>

-----------------------------------------------------------------------------
NoHits == [t \in Times |-> 0]

Init ==
    /\ now = 0
    /\ row \in Quotas \cup {NoQuota}
    /\ changed = 0 /\ admin = "idle" /\ cache = {}
    /\ periodUsed = NoHits /\ rolling = {}
    /\ dayUsed = [k \in Keys |-> NoHits]
    /\ pc = [c \in Callers |-> "idle"]
    /\ uq = [c \in Callers |-> NoQuota]
    /\ at = [c \in Callers |-> 0]
    /\ readAt = [c \in Callers |-> 0]
    /\ faults = 0 /\ started = 0 /\ writes = 0
    /\ admitted = NoHits /\ admittedAt = {} /\ cleaned = {}
    /\ admittedDay = [k \in Keys |-> NoHits]

Step(c) ==
    \/ Peek(c) \/ ReadRow(c) \/ ReadRowFails(c) \/ Put(c)
    \/ AllowLimit(c) \/ CheckUser(c) \/ ChargeUser(c)
    \/ CheckDaily(c) \/ CountDaily(c)

Next ==
    \/ \E c \in Callers : Step(c)
    \/ WriteQuota \/ Invalidate \/ Cleanup \/ Tick

Spec == Init /\ [][Next]_vars

-----------------------------------------------------------------------------
(* Properties *)

Counts == [Times -> Nat]

TypeOK ==
    /\ now \in Times /\ changed \in Times
    /\ row \in Quotas \cup {NoQuota}
    /\ admin \in {"idle", "written"}
    /\ cache \subseteq [quota : Quotas \cup {NoQuota}, fetched : Times, read : Times]
    /\ {periodUsed, admitted} \subseteq Counts
    /\ {dayUsed, admittedDay} \subseteq [Keys -> Counts]
    /\ rolling \subseteq Times \X Instants /\ admittedAt \subseteq Times \X Instants
    /\ cleaned \subseteq Times
    /\ pc \in [Callers -> {"idle", "read", "put", "limit", "user", "charge", "open",
                           "daily", "count", "countopen"}]
    /\ uq \in [Callers -> {q \in Quotas : q.requests > 0} \cup {NoQuota}]
    /\ at \in [Callers -> Times] /\ readAt \in [Callers -> Times]
    /\ faults \in Nat /\ started \in Nat /\ writes \in Nat

Within(n, allowances) ==
    n = 0 \/ \E a \in allowances : n <= a + (Cardinality(Callers) - 1) + faults

Allowances(period) == {q.requests : q \in {q \in Quotas : q.period = period}}

(* The cleanup forgot requests of the period that started at t, or of the  *)
(* window that ends at t, while they still counted: the retention is       *)
(* shorter than the period or the window.                                  *)
From(t) == IF t < Window THEN 0 ELSE (t - Window) + 1

PeriodCut(t) == \E u \in cleaned : t + Retention < u /\ u < t + Period
WindowCut(t) == \E u \in cleaned : From(t) + Retention <= u /\ u <= t

(* The requests a calendar quota lets through in a period: at most the     *)
(* allowance, the other callers, who pass the check together, and one for  *)
(* each store call that failed.                                            *)
QuotaOvershoot ==
    \A t \in Times : PeriodCut(t) \/ Within(admitted[t], Allowances("calendar"))

(* The instants of any rolling window, at which requests were let through; *)
(* those at one instant count once, in the table and here.                 *)
RollingOvershoot ==
    \A t \in Times : WindowCut(t)
        \/ Within(Cardinality({h \in admittedAt : h[1] \in From(t) .. t}),
                  Allowances("rolling"))

(* The requests of a key that the daily quota lets through: today's        *)
(* counter outlives every cleanup.                                         *)
DailyOvershoot ==
    \A k \in Keys, t \in Times : Within(admittedDay[k][t], {DailyQuota})

(* The quotas are checked in one store call and counted in another, by     *)
(* concurrent requests, while counters are pruned: requests that pass the  *)
(* check together are all let through, and so is one for each store call   *)
(* that failed. Nothing else admits more than the largest allowance: not   *)
(* the stale cache, a change of the quota, a boundary of a period, a late  *)
(* charge, the order of the timestamps or the cleanup, as long as the      *)
(* retention reaches back to the start of what is counted.                 *)
QuotasHold == QuotaOvershoot /\ DailyOvershoot /\ RollingOvershoot

(* A change of the quota applies within one TTL without any invalidation:  *)
(* a request that finds an outdated entry comes less than a TTL after the  *)
(* change, or the time the entry's reader spent between read and put       *)
(* later.                                                                  *)
AppliesWithinTTL ==
    [][\A c \in Callers : pc[c] = "idle" /\ pc'[c] \notin {"idle", "read"} =>
          \/ uq'[c] = Effective(row)
          \/ \E e \in cache : now < changed + CacheTTL + (e.fetched - e.read)]_vars

-----------------------------------------------------------------------------
(* What the code says of itself and does not do.                           *)

(* recordQuotaHit "records one admitted request" (quotas.go:151): a        *)
(* request that the daily quota rejects has not been charged to the user.  *)
RejectedIsFree ==
    [][\A c \in Callers :
          pc[c] = "daily" /\ pc'[c] = "idle" => uq[c] = NoQuota]_vars

(* "The longest allowed window is 720h, so the usage retention window       *)
(* always covers it" (cleanup.go:67): no rolling window is ever cut.        *)
RetentionCovers == \A t \in Times : ~WindowCut(t)
=============================================================================
