-------------------------- MODULE SearchGuardProofs --------------------------
(***************************************************************************)
(* Theorems about SearchGuard:                                             *)
(*   GuardTypes           Spec => []TypeOK                                 *)
(*   QuotasAreKept        Spec => []QuotasHold                             *)
(*   RetentionThatCovers  no period and no window is ever cut, when the    *)
(*                        retention is long enough or disabled             *)
(*   ChangeAppliesInTime  Spec => AppliesWithinTTL                         *)
(***************************************************************************)
EXTENDS SearchGuard, FiniteSetTheorems, TLAPS

-----------------------------------------------------------------------------
(* Types                                                                   *)

(* The quotas a request can be under: rows with an allowance, or none. *)
Rows == {q \in Quotas : q.requests > 0} \cup {NoQuota}

Places == {"idle", "read", "put", "limit", "user", "charge", "open",
           "daily", "count", "countopen"}

(* The types with what the cache and the windows hold besides. *)
GuardInv ==
    /\ TypeOK
    /\ IsFiniteSet(rolling) /\ IsFiniteSet(admittedAt)
    /\ \A e \in cache : e.quota \in Rows

(* The calendar period of a moment starts within the clock's range, at or  *)
(* before the moment and less than one period before it.                   *)
LEMMA PeriodStartType ==
    ASSUME NEW t \in Times
    PROVE  /\ PeriodStart(t) \in Times
           /\ PeriodStart(t) <= t
           /\ t < PeriodStart(t) + Period
<1>1. /\ t \in Nat /\ Period \in Nat \ {0}
      /\ MaxTime \in Nat /\ t <= MaxTime
  BY GuardAssumption DEF Times
<1>2. t % Period \in 0 .. (Period - 1)
  BY <1>1
<1>3. t % Period <= t
  <2>1. CASE t < Period
    <3>1. t = Period * (t \div Period) + (t % Period)
      BY <1>1
    <3> QED BY <3>1, <1>1, <1>2, <2>1
  <2>2. CASE Period <= t
    BY <2>2, <1>1, <1>2
  <2> QED BY <1>1, <2>1, <2>2
<1> QED BY <1>1, <1>2, <1>3 DEF PeriodStart, Times

LEMMA EffectiveType ==
    ASSUME NEW q \in Quotas \cup {NoQuota}
    PROVE  Effective(q) \in Rows
BY DEF Effective, Rows

LEMMA RowsAreQuotas == Rows \subseteq Quotas \cup {NoQuota}
BY DEF Rows

(* A caller that moves keeps its types, whatever it moves to. *)
LEMMA GotoTypes ==
    ASSUME TypeOK, NEW c \in Callers, NEW l \in Places, NEW q \in Rows,
           NEW t \in Times, NEW r \in Times, Goto(c, l, q, t, r)
    PROVE  /\ pc' \in [Callers -> Places] /\ uq' \in [Callers -> Rows]
           /\ at' \in [Callers -> Times] /\ readAt' \in [Callers -> Times]
<1>1. 0 \in Times /\ NoQuota \in Rows
  BY GuardAssumption DEF Times, Rows
<1>2. /\ pc \in [Callers -> Places] /\ uq \in [Callers -> Rows]
      /\ at \in [Callers -> Times] /\ readAt \in [Callers -> Times]
  BY DEF TypeOK, Places, Rows
<1> QED BY <1>1, <1>2 DEF Goto

LEMMA AfterTypes ==
    ASSUME NEW q
    PROVE  {AfterLookup(q), AfterLimit(q), AfterUser} \subseteq Places
BY DEF AfterLookup, AfterLimit, AfterUser, Places

(* A caller at a place has one of the quotas, and a moment of the clock. *)
LEMMA LocalTypes ==
    ASSUME TypeOK, NEW c \in Callers
    PROVE  /\ pc[c] \in Places /\ uq[c] \in Rows
           /\ at[c] \in Times /\ readAt[c] \in Times /\ now \in Times
BY DEF TypeOK, Places, Rows

LEMMA InstantType ==
    ASSUME NEW t \in Times, NEW i \in Instants
    PROVE  Timestamp(t, i) = <<t, i>> /\ <<t, i>> \in Times \X Instants
BY DEF Timestamp

LEMMA PrunedType ==
    ASSUME NEW f \in Counts
    PROVE  /\ Pruned(f) \in Counts
           /\ \A t \in Times : Pruned(f)[t] <= f[t]
BY DEF Pruned, Counts

LEMMA GuardInit == Init => GuardInv
<1> SUFFICES ASSUME Init PROVE GuardInv
  OBVIOUS
<1>1. 0 \in Times /\ NoQuota \in {q \in Quotas : q.requests > 0} \cup {NoQuota}
  BY GuardAssumption DEF Times
<1>2. TypeOK
  BY <1>1 DEF Init, TypeOK, NoHits, Counts
<1>3. /\ IsFiniteSet(rolling) /\ IsFiniteSet(admittedAt)
      /\ \A e \in cache : e.quota \in Rows
  BY FS_EmptySet DEF Init
<1> QED BY <1>2, <1>3 DEF GuardInv

(* The moves of a caller that touch neither cache nor counters. *)
LEMMA PlainSteps ==
    ASSUME GuardInv, NEW c \in Callers,
           \/ Peek(c) \/ ReadRow(c) \/ ReadRowFails(c)
           \/ AllowLimit(c) \/ CheckUser(c) \/ CheckDaily(c)
    PROVE  /\ \E l \in Places, q \in Rows, t \in Times, r \in Times : Goto(c, l, q, t, r)
           /\ UNCHANGED <<now, store, cache, counters, history>>
           /\ faults' \in Nat /\ started' \in Nat
<1>1. /\ NoQuota \in Rows /\ Effective(row) \in Rows /\ uq[c] \in Rows
      /\ 0 \in Times /\ now \in Times
      /\ faults \in Nat /\ started \in Nat
      /\ {"read", "put", "charge", "open", "count", "countopen", "idle"} \subseteq Places
  BY EffectiveType, LocalTypes, GuardAssumption DEF GuardInv, TypeOK, Rows, Times, Places
<1>2. CASE Peek(c)
  <2>1. CASE \E e \in cache : Goto(c, AfterLookup(e.quota), e.quota, now, 0)
    BY <2>1, <1>1, <1>2, AfterTypes DEF Peek, GuardInv
  <2>2. CASE Goto(c, "read", NoQuota, 0, 0)
    BY <2>2, <1>1, <1>2 DEF Peek
  <2> QED BY <1>2, <2>1, <2>2 DEF Peek
<1>3. CASE ReadRow(c)
  BY <1>1, <1>3 DEF ReadRow
<1>4. CASE ReadRowFails(c)
  BY <1>1, <1>4, AfterTypes DEF ReadRowFails
<1>5. CASE AllowLimit(c)
  <2>1. PICK ok \in BOOLEAN :
            Goto(c, IF ok THEN AfterLimit(uq[c]) ELSE "idle", uq[c], 0, 0)
    BY <1>5 DEF AllowLimit
  <2>2. (IF ok THEN AfterLimit(uq[c]) ELSE "idle") \in Places
    BY <1>1, AfterTypes
  <2> QED BY <1>1, <1>5, <2>1, <2>2 DEF AllowLimit
<1>6. CASE CheckUser(c)
  <2>1. \A n : (IF n < uq[c].requests THEN "charge" ELSE "idle") \in {"charge", "idle"}
    OBVIOUS
  <2> QED BY <1>1, <1>6, <2>1 DEF CheckUser
<1>7. CASE CheckDaily(c)
  BY <1>1, <1>7 DEF CheckDaily
<1> QED BY <1>2, <1>3, <1>4, <1>5, <1>6, <1>7

LEMMA GuardStep ==
    ASSUME GuardInv, [Next]_vars
    PROVE  GuardInv'
<1> USE DEF GuardInv
<1>1. ASSUME NEW c \in Callers,
             \/ Peek(c) \/ ReadRow(c) \/ ReadRowFails(c)
             \/ AllowLimit(c) \/ CheckUser(c) \/ CheckDaily(c)
      PROVE  GuardInv'
  <2>1. PICK l \in Places, q \in Rows, t \in Times, r \in Times : Goto(c, l, q, t, r)
    BY <1>1, PlainSteps
  <2>2. /\ UNCHANGED <<now, store, cache, counters, history>>
        /\ faults' \in Nat /\ started' \in Nat
    BY <1>1, PlainSteps
  <2> QED BY <2>1, <2>2, GotoTypes DEF TypeOK, Places, Rows, store, counters, history
<1>2. ASSUME NEW c \in Callers, Put(c)
      PROVE  GuardInv'
  <2>1. uq[c] \in Rows /\ readAt[c] \in Times /\ now \in Times /\ 0 \in Times
    BY LocalTypes, GuardAssumption DEF Times
  <2>2. /\ pc' \in [Callers -> Places] /\ uq' \in [Callers -> Rows]
        /\ at' \in [Callers -> Times] /\ readAt' \in [Callers -> Times]
    BY <1>2, <2>1, AfterTypes, GotoTypes DEF Put
  <2>3. /\ cache' \subseteq [quota : Quotas \cup {NoQuota}, fetched : Times, read : Times]
        /\ \A e \in cache' : e.quota \in Rows
    BY <1>2, <2>1, RowsAreQuotas DEF Put
  <2> QED BY <1>2, <2>2, <2>3 DEF Put, TypeOK, Places, Rows, store, counters, history
<1>3. ASSUME NEW c \in Callers, ChargeUser(c)
      PROVE  GuardInv'
  <2>1. uq[c] \in Rows /\ at[c] \in Times /\ now \in Times /\ 0 \in Times
    BY LocalTypes, GuardAssumption DEF Times
  <2>2. /\ pc' \in [Callers -> Places] /\ uq' \in [Callers -> Rows]
        /\ at' \in [Callers -> Times] /\ readAt' \in [Callers -> Times]
    BY <1>3, <2>1, AfterTypes, GotoTypes DEF ChargeUser
  <2>3. PICK i \in Instants :
            /\ Admit(c, i)
            /\ RecordQuotaHit(c, i) \/ UNCHANGED <<rolling, periodUsed>>
    BY <1>3 DEF ChargeUser
  <2>4. Timestamp(at[c], i) = <<at[c], i>> /\ <<at[c], i>> \in Times \X Instants
    BY <2>1, InstantType
  <2>5. rolling' \subseteq Times \X Instants /\ IsFiniteSet(rolling')
    <3>1. rolling' \in {rolling, rolling \cup {<<at[c], i>>}}
      BY <2>3, <2>4 DEF RecordQuotaHit
    <3>2. IsFiniteSet(rolling \cup {<<at[c], i>>})
      BY FS_AddElement
    <3> QED BY <2>4, <3>1, <3>2 DEF TypeOK
  <2>6. admittedAt' \subseteq Times \X Instants /\ IsFiniteSet(admittedAt')
    <3>1. admittedAt' \in {admittedAt, admittedAt \cup {<<at[c], i>>}}
      BY <2>3 DEF Admit
    <3>2. IsFiniteSet(admittedAt \cup {<<at[c], i>>})
      BY FS_AddElement
    <3> QED BY <2>4, <3>1, <3>2 DEF TypeOK
  <2>7. PeriodStart(at[c]) \in Times
    BY <2>1, PeriodStartType
  <2>8. periodUsed' \in Counts
    <3>1. periodUsed' = periodUsed
          \/ periodUsed' = [periodUsed EXCEPT ![PeriodStart(at[c])] = @ + 1]
      BY <2>3 DEF RecordQuotaHit
    <3>2. periodUsed \in [Times -> Nat]
      BY DEF TypeOK, Counts
    <3> QED BY <2>7, <3>1, <3>2 DEF Counts
  <2>9. admitted' \in Counts
    <3>1. admitted' = admitted
          \/ admitted' = [admitted EXCEPT ![PeriodStart(at[c])] = @ + 1]
      BY <2>3 DEF Admit
    <3>2. admitted \in [Times -> Nat]
      BY DEF TypeOK, Counts
    <3> QED BY <2>7, <3>1, <3>2 DEF Counts
  <2>10. faults' \in Nat /\ UNCHANGED <<now, store, cache, dayUsed, started, admittedDay, cleaned>>
    BY <1>3 DEF ChargeUser, TypeOK
  <2> QED BY <2>2, <2>5, <2>6, <2>8, <2>9, <2>10 DEF TypeOK, Places, Rows, store
<1>4. ASSUME NEW c \in Callers, CountDaily(c)
      PROVE  GuardInv'
  <2>1. at[c] \in Times /\ 0 \in Times /\ NoQuota \in Rows /\ KeyOf[c] \in Keys
        /\ "idle" \in Places
    BY LocalTypes, GuardAssumption DEF Times, Rows, Places
  <2>2. /\ pc' \in [Callers -> Places] /\ uq' \in [Callers -> Rows]
        /\ at' \in [Callers -> Times] /\ readAt' \in [Callers -> Times]
    BY <1>4, <2>1, GotoTypes DEF CountDaily
  <2>3. dayUsed' \in [Keys -> Counts]
    <3>1. \/ dayUsed' = [dayUsed EXCEPT ![KeyOf[c]][at[c]] = @ + 1]
          \/ UNCHANGED dayUsed
      BY <1>4 DEF CountDaily
    <3>2. dayUsed \in [Keys -> [Times -> Nat]]
      BY DEF TypeOK, Counts
    <3> QED BY <2>1, <3>1, <3>2 DEF Counts
  <2>4. admittedDay' \in [Keys -> Counts]
    <3>1. admittedDay' = [admittedDay EXCEPT ![KeyOf[c]][at[c]] = @ + 1]
      BY <1>4 DEF CountDaily
    <3> QED BY <2>1, <3>1 DEF TypeOK, Counts
  <2>5. /\ faults' \in Nat
        /\ UNCHANGED <<now, store, cache, periodUsed, rolling, started,
                       admitted, admittedAt, cleaned>>
    BY <1>4 DEF CountDaily, TypeOK
  <2> QED BY <2>2, <2>3, <2>4, <2>5 DEF TypeOK, Places, Rows, store
<1>5. CASE WriteQuota
  BY <1>5 DEF WriteQuota, TypeOK, counters, locals, history
<1>6. CASE Invalidate
  BY <1>6 DEF Invalidate, TypeOK, counters, locals, history
<1>7. CASE Cleanup
  <2>1. periodUsed' \in Counts /\ dayUsed' \in [Keys -> Counts]
    BY <1>7, PrunedType DEF Cleanup, TypeOK
  <2>2. rolling' \in SUBSET rolling
    BY <1>7 DEF Cleanup
  <2>3. IsFiniteSet(rolling')
    BY <2>2, FS_Subset
  <2>4. cleaned' \subseteq Times
    BY <1>7 DEF Cleanup, TypeOK
  <2> QED BY <1>7, <2>1, <2>2, <2>3, <2>4 DEF Cleanup, TypeOK, store, locals
<1>8. CASE Tick
  <2>1. now' \in Times
    BY <1>8, GuardAssumption DEF Tick, TypeOK, Times
  <2> QED BY <1>8, <2>1 DEF Tick, TypeOK, store, counters, locals, history
<1>9. CASE UNCHANGED vars
  BY <1>9 DEF vars, store, counters, locals, history, TypeOK
<1> QED BY <1>1, <1>2, <1>3, <1>4, <1>5, <1>6, <1>7, <1>8, <1>9 DEF Next, Step

LEMMA GuardInvHolds == Spec => []GuardInv
BY GuardInit, GuardStep, PTL DEF Spec

(* The state of the guard is well formed: a quota is cached and applied    *)
(* only in the form getUserQuota gives it, and every counter stays within  *)
(* the clock's range.                                                      *)
THEOREM GuardTypes == Spec => []TypeOK
BY GuardInvHolds, PTL DEF GuardInv

-----------------------------------------------------------------------------
(* A change of the quota                                                   *)

(* A quota in use is a row, and one that has been read before the last     *)
(* change of the row is known by the moment of the reading.                *)
HasQuota == \A c \in Callers : pc[c] \in {"user", "charge", "open"} => uq[c] \in Quotas

CacheDated ==
    \A e \in cache : e.read <= now /\ (e.quota = Effective(row) \/ e.read <= changed)

ReadsDated ==
    \A c \in Callers :
        /\ readAt[c] <= now
        /\ pc[c] = "put" => uq[c] = Effective(row) \/ readAt[c] <= changed

Dated == GuardInv /\ HasQuota /\ CacheDated /\ ReadsDated

(* The other callers stay where they are, with what they have. *)
LEMMA OthersStay ==
    ASSUME NEW c \in Callers, NEW l, NEW q, NEW t, NEW r, Goto(c, l, q, t, r),
           TypeOK, NEW d \in Callers, d # c
    PROVE  pc'[d] = pc[d] /\ uq'[d] = uq[d] /\ at'[d] = at[d] /\ readAt'[d] = readAt[d]
BY DEF Goto, TypeOK

LEMMA Arrives ==
    ASSUME NEW c \in Callers, NEW l, NEW q, NEW t, NEW r, Goto(c, l, q, t, r), TypeOK
    PROVE  /\ pc'[c] = l /\ readAt'[c] = r
           /\ l # "idle" => uq'[c] = q /\ at'[c] = t
BY DEF Goto, TypeOK

LEMMA UserHasQuota ==
    ASSUME NEW q \in Rows, "user" \in {AfterLookup(q), AfterLimit(q)}
    PROVE  q \in Quotas
BY DEF AfterLookup, AfterLimit, Rows

(* Only the places the first checks lead to come after a lookup. *)
LEMMA AfterCases ==
    ASSUME NEW q
    PROVE  /\ AfterLookup(q) \in {"limit", "user", "daily", "idle"}
           /\ AfterLimit(q) \in {"user", "daily", "idle"}
           /\ AfterUser \in {"daily", "idle"}
BY DEF AfterLookup, AfterLimit, AfterUser

(* What a caller's step does to the caller, in the terms of Dated. *)
LEMMA CallerDated ==
    ASSUME Dated, NEW c \in Callers, Step(c)
    PROVE  /\ pc'[c] \in {"user", "charge", "open"} => uq'[c] \in Quotas
           /\ readAt'[c] <= now
           /\ pc'[c] = "put" => uq'[c] = Effective(row) \/ readAt'[c] <= changed
           /\ \A d \in Callers \ {c} :
                  pc'[d] = pc[d] /\ uq'[d] = uq[d] /\ readAt'[d] = readAt[d]
           /\ UNCHANGED <<now, row, changed>>
<1> USE DEF Dated, GuardInv
<1>1. /\ uq[c] \in Rows /\ NoQuota \in Rows /\ 0 <= now /\ now <= now
  BY LocalTypes DEF Rows, TypeOK, Times
<1>2. UNCHANGED <<now, row, changed>>
  BY Zenon DEF Step, Peek, ReadRow, ReadRowFails, Put, AllowLimit, CheckUser, ChargeUser,
               CheckDaily, CountDaily, store
<1>3. PICK l, q, t, r :
          /\ Goto(c, l, q, t, r) /\ r <= now
          /\ l \in {"user", "charge", "open"} => q \in Quotas
          /\ l = "put" => q = Effective(row)
  <2>1. CASE Peek(c)
    <3>1. CASE \E e \in cache : Goto(c, AfterLookup(e.quota), e.quota, now, 0)
      <4>1. PICK e \in cache : Goto(c, AfterLookup(e.quota), e.quota, now, 0)
        BY <3>1
      <4>2. e.quota \in Rows
        OBVIOUS
      <4> QED BY <4>1, <4>2, <1>1, AfterCases, UserHasQuota
    <3>2. CASE Goto(c, "read", NoQuota, 0, 0)
      BY <3>2, <1>1
    <3> QED BY <2>1, <3>1, <3>2 DEF Peek
  <2>2. CASE ReadRow(c)
    BY <2>2, <1>1 DEF ReadRow
  <2>3. CASE ReadRowFails(c)
    BY <2>3, <1>1, AfterCases, UserHasQuota DEF ReadRowFails
  <2>4. CASE Put(c)
    BY <2>4, <1>1, AfterCases, UserHasQuota DEF Put
  <2>5. CASE AllowLimit(c)
    <3>1. PICK ok \in BOOLEAN :
              Goto(c, IF ok THEN AfterLimit(uq[c]) ELSE "idle", uq[c], 0, 0)
      BY <2>5 DEF AllowLimit
    <3>2. (IF ok THEN AfterLimit(uq[c]) ELSE "idle") \in {AfterLimit(uq[c]), "idle"}
      OBVIOUS
    <3> QED BY <3>1, <3>2, <1>1, AfterCases, UserHasQuota
  <2>6. CASE CheckUser(c)
    <3>1. uq[c] \in Quotas
      BY <2>6 DEF CheckUser, HasQuota
    <3>2. \A n : (IF n < uq[c].requests THEN "charge" ELSE "idle") \in {"charge", "idle"}
      OBVIOUS
    <3> QED BY <2>6, <3>1, <3>2, <1>1 DEF CheckUser
  <2>7. CASE ChargeUser(c)
    BY <2>7, <1>1, AfterCases DEF ChargeUser
  <2>8. CASE CheckDaily(c)
    BY <2>8, <1>1 DEF CheckDaily
  <2>9. CASE CountDaily(c)
    BY <2>9, <1>1 DEF CountDaily
  <2> QED BY <2>1, <2>2, <2>3, <2>4, <2>5, <2>6, <2>7, <2>8, <2>9 DEF Step
<1> QED BY <1>2, <1>3, OthersStay, Arrives

LEMMA DatedInit == Init => Dated
<1> SUFFICES ASSUME Init PROVE Dated
  OBVIOUS
<1>1. GuardInv
  BY GuardInit
<1>2. HasQuota /\ CacheDated /\ ReadsDated
  BY DEF Init, HasQuota, CacheDated, ReadsDated
<1> QED BY <1>1, <1>2 DEF Dated

LEMMA DatedStep ==
    ASSUME Dated, [Next]_vars
    PROVE  Dated'
<1> USE DEF Dated
<1>1. GuardInv'
  BY GuardStep
<1>2. now \in Times /\ changed \in Times /\ changed <= MaxTime
  BY DEF GuardInv, TypeOK, Times
<1>3. ASSUME NEW c \in Callers, Step(c)
      PROVE  HasQuota' /\ CacheDated' /\ ReadsDated'
  <2>1. UNCHANGED <<now, row, changed>>
    BY <1>3, CallerDated
  <2>2. HasQuota' /\ ReadsDated'
    BY <1>3, <2>1, CallerDated DEF HasQuota, ReadsDated, Effective
  <2>3. CASE Put(c)
    <3>1. cache' = {[quota |-> uq[c], fetched |-> now, read |-> readAt[c]]}
      BY <2>3 DEF Put
    <3>2. /\ readAt[c] <= now
          /\ uq[c] = Effective(row) \/ readAt[c] <= changed
      BY <2>3 DEF Put, ReadsDated
    <3> QED BY <2>1, <2>2, <3>1, <3>2 DEF CacheDated, Effective
  <2>4. CASE ~ Put(c)
    <3>1. UNCHANGED cache
      BY Zenon, <1>3, <2>4 DEF Step, Peek, ReadRow, ReadRowFails, AllowLimit, CheckUser,
                         ChargeUser, CheckDaily, CountDaily
    <3> QED BY <2>1, <2>2, <3>1 DEF CacheDated, Effective
  <2> QED BY <2>3, <2>4
<1>4. CASE WriteQuota
  <2>1. /\ changed' = now /\ UNCHANGED <<now, cache, pc, uq, readAt>>
    BY <1>4 DEF WriteQuota, locals
  <2> QED BY <1>1, <2>1 DEF HasQuota, CacheDated, ReadsDated
<1>5. CASE Invalidate
  <2>1. cache' = {} /\ UNCHANGED <<now, row, changed, pc, uq, readAt>>
    BY <1>5 DEF Invalidate, locals
  <2> QED BY <1>1, <2>1 DEF HasQuota, CacheDated, ReadsDated, Effective
<1>6. CASE Cleanup \/ UNCHANGED vars
  <2>1. UNCHANGED <<now, row, changed, cache, pc, uq, readAt>>
    BY <1>6 DEF Cleanup, vars, store, locals
  <2> QED BY <1>1, <2>1 DEF HasQuota, CacheDated, ReadsDated, Effective
<1>7. CASE Tick
  <2>1. now' = now + 1 /\ UNCHANGED <<row, changed, cache, pc, uq, readAt>>
    BY <1>7 DEF Tick, store, locals
  <2>2. /\ \A e \in cache : e.read \in Nat
        /\ \A c \in Callers : readAt[c] \in Nat
        /\ now \in Nat
    BY DEF GuardInv, TypeOK, Times
  <2> QED BY <1>1, <2>1, <2>2 DEF HasQuota, CacheDated, ReadsDated, Effective
<1> QED BY <1>1, <1>3, <1>4, <1>5, <1>6, <1>7 DEF Next

LEMMA DatedHolds == Spec => []Dated
BY DatedInit, DatedStep, PTL DEF Spec

(* A change of the quota applies within one TTL of the cache, and the time *)
(* a reader took from the row to the cache, whether or not the entry is    *)
(* put after the invalidation: a row that is outdated in the cache was     *)
(* read before the change.                                                 *)
THEOREM ChangeAppliesInTime == Spec => AppliesWithinTTL
<1> DEFINE InTime ==
        \A c \in Callers : pc[c] = "idle" /\ pc'[c] \notin {"idle", "read"} =>
            \/ uq'[c] = Effective(row)
            \/ \E e \in cache : now < changed + CacheTTL + (e.fetched - e.read)
<1>1. ASSUME Dated, [Next]_vars
      PROVE  [InTime]_vars
  <2> USE <1>1 DEF Dated
  <2> SUFFICES ASSUME NEW c \in Callers, pc[c] = "idle", pc'[c] \notin {"idle", "read"}
               PROVE  \/ uq'[c] = Effective(row)
                      \/ \E e \in cache : now < changed + CacheTTL + (e.fetched - e.read)
    OBVIOUS
  <2>1. Peek(c)
    <3>1. ASSUME NEW d \in Callers, Step(d)
          PROVE  Peek(c)
      <4>1. d = c
        BY <3>1, CallerDated
      <4> QED BY <3>1, <4>1 DEF Step, ReadRow, ReadRowFails, Put, AllowLimit, CheckUser,
                                 ChargeUser, CheckDaily, CountDaily
    <3>2. ASSUME WriteQuota \/ Invalidate \/ Cleanup \/ Tick \/ UNCHANGED vars
          PROVE  FALSE
      <4>1. UNCHANGED pc
        BY <3>2 DEF WriteQuota, Invalidate, Cleanup, Tick, vars, locals
      <4> QED BY <4>1
    <3> QED BY <3>1, <3>2 DEF Next
  <2>2. PICK e \in cache : Fresh(e) /\ Goto(c, AfterLookup(e.quota), e.quota, now, 0)
    <3>1. CASE Goto(c, "read", NoQuota, 0, 0)
      BY <3>1, Arrives DEF GuardInv
    <3> QED BY <2>1, <3>1 DEF Peek
  <2>3. uq'[c] = e.quota
    BY <2>2, Arrives DEF GuardInv
  <2>4. /\ now \in Nat /\ changed \in Nat /\ CacheTTL \in Nat
        /\ e.fetched \in Nat /\ e.read \in Nat
    BY GuardAssumption DEF GuardInv, TypeOK, Times
  <2>5. CASE e.quota = Effective(row)
    BY <2>3, <2>5
  <2>6. CASE e.read <= changed
    <3>1. now < changed + CacheTTL + (e.fetched - e.read)
      BY <2>2, <2>4, <2>6 DEF Fresh
    <3> QED BY <3>1
  <2> QED BY <2>5, <2>6 DEF CacheDated
<1> QED BY <1>1, DatedHolds, PTL DEF Spec, AppliesWithinTTL

-----------------------------------------------------------------------------
(* The quotas                                                              *)

(* The requests that have passed a check and are not let through yet, by   *)
(* the counter they will add to.                                           *)
Passed(c) == pc[c] \in {"charge", "open"}
Rolls(c) == uq[c].period = "rolling"

PeriodCallers(t) ==
    {c \in Callers : Passed(c) /\ ~ Rolls(c) /\ PeriodStart(at[c]) = t}
WindowCallers(t) ==
    {c \in Callers : Passed(c) /\ Rolls(c) /\ at[c] \in From(t) .. t}
DayCallers(k, t) ==
    {c \in Callers : pc[c] \in {"count", "countopen"} /\ KeyOf[c] = k /\ at[c] = t}

AdmittedIn(t) == {h \in admittedAt : h[1] \in From(t) .. t}

ByCalendar == Allowances("calendar")
ByWindow == Allowances("rolling")

(* The quotas bound what is let through and what is on its way together.   *)
PeriodBound ==
    \A t \in Times : PeriodCut(t)
        \/ Within(admitted[t] + Cardinality(PeriodCallers(t)), ByCalendar)
WindowBound ==
    \A t \in Times : WindowCut(t)
        \/ Within(Cardinality(AdmittedIn(t)) + Cardinality(WindowCallers(t)), ByWindow)
DayBound ==
    \A k \in Keys, t \in Times :
        Within(admittedDay[k][t] + Cardinality(DayCallers(k, t)), {DailyQuota})

(* The counters show what has been let through since the retention began,  *)
(* except for one request for each store call that failed.                 *)
PeriodShown ==
    \A t \in Times :
        (\A u \in cleaned : u <= t + Retention) => admitted[t] <= periodUsed[t] + faults
DayShown ==
    \A k \in Keys, t \in Times :
        (\A u \in cleaned : u <= t + Retention) => admittedDay[k][t] <= dayUsed[k][t] + faults

Missing(f) == {h \in admittedAt : h[1] >= f} \ rolling

WindowShown ==
    \A f \in Times :
        (\A u \in cleaned : u < f + Retention) => Cardinality(Missing(f)) <= faults

CleanedBefore == /\ \A u \in cleaned : u <= now
                 /\ Retention = 0 => cleaned = {}

Shown == PeriodShown /\ DayShown /\ WindowShown /\ CleanedBefore

QuotaInv == GuardInv /\ HasQuota /\ Shown /\ PeriodBound /\ WindowBound /\ DayBound

(* Sets of callers. *)
LEMMA CallersCount ==
    ASSUME NEW S \in SUBSET Callers
    PROVE  /\ IsFiniteSet(S) /\ Cardinality(S) \in Nat
           /\ Cardinality(S) <= Cardinality(Callers)
<1>1. IsFiniteSet(S) /\ Cardinality(S) <= Cardinality(Callers)
  BY GuardAssumption, FS_Subset
<1> QED BY <1>1, FS_CardinalityType

LEMMA Fewer ==
    ASSUME NEW S, IsFiniteSet(S), NEW T \in SUBSET S
    PROVE  /\ Cardinality(T) \in Nat /\ Cardinality(S) \in Nat
           /\ Cardinality(T) <= Cardinality(S)
<1>1. IsFiniteSet(T) /\ Cardinality(T) <= Cardinality(S)
  BY FS_Subset
<1> QED BY <1>1, FS_CardinalityType

LEMMA OneMore ==
    ASSUME NEW S, IsFiniteSet(S), NEW x, NEW T \in SUBSET (S \cup {x})
    PROVE  /\ Cardinality(T) \in Nat /\ Cardinality(S) \in Nat
           /\ Cardinality(T) <= Cardinality(S) + 1
<1>1. Cardinality(S) \in Nat
  BY FS_CardinalityType
<1>2. IsFiniteSet(S \cup {x})
  BY FS_AddElement
<1>3. Cardinality(S \cup {x}) <= Cardinality(S) + 1
  <2>1. Cardinality(S \cup {x}) = IF x \in S THEN Cardinality(S) ELSE Cardinality(S) + 1
    BY FS_AddElement
  <2>2. Cardinality(S) <= Cardinality(S) + 1 /\ Cardinality(S) + 1 <= Cardinality(S) + 1
    BY <1>1
  <2> QED BY <2>1, <2>2
<1>4. Cardinality(T) \in Nat /\ Cardinality(T) <= Cardinality(S \cup {x})
  BY <1>2, Fewer
<1>5. Cardinality(S \cup {x}) \in Nat
  BY <1>2, FS_CardinalityType
<1> QED BY <1>1, <1>3, <1>4, <1>5

LEMMA OneLess ==
    ASSUME NEW S, IsFiniteSet(S), NEW x \in S, NEW T \in SUBSET (S \ {x})
    PROVE  /\ Cardinality(T) \in Nat /\ Cardinality(S) \in Nat
           /\ Cardinality(T) + 1 <= Cardinality(S)
<1>1. Cardinality(S) \in Nat
  BY FS_CardinalityType
<1>2. IsFiniteSet(S \ {x})
  BY FS_RemoveElement
<1>3. Cardinality(S \ {x}) = Cardinality(S) - 1
  BY FS_RemoveElement
<1>4. Cardinality(T) \in Nat /\ Cardinality(T) <= Cardinality(S \ {x})
  BY <1>2, Fewer
<1> QED BY <1>1, <1>3, <1>4

LEMMA AllowancesAreNat ==
    /\ ByCalendar \in SUBSET Nat /\ ByWindow \in SUBSET Nat
    /\ {DailyQuota} \in SUBSET Nat
BY GuardAssumption DEF Allowances, ByCalendar, ByWindow

(* What a step may do to the requests u let through by a quota and to the  *)
(* requests S on their way: nothing is added; one request passes because   *)
(* the read of the counter fails; requests pass a check of the counter, no *)
(* more than there are callers, when it shows all of u but for the failed  *)
(* calls; a request that has passed is let through.                        *)
Moves(A, c, u, v, S, T) ==
    \/ T \subseteq S /\ v <= u /\ faults <= faults'
    \/ T \subseteq S \cup {c} /\ v <= u /\ faults' = faults + 1 /\ A # {}
    \/ \E a \in A : v < a + faults /\ faults <= faults'
    \/ c \in S /\ T \subseteq S \ {c} /\ v <= u + 1 /\ faults <= faults'

LEMMA BoundStep ==
    ASSUME NEW A \in SUBSET Nat, NEW c, NEW u \in Nat, NEW v \in Nat,
           NEW S \in SUBSET Callers, NEW T \in SUBSET Callers,
           Within(u + Cardinality(S), A), faults \in Nat, faults' \in Nat,
           Moves(A, c, u, v, S, T)
    PROVE  Within(v + Cardinality(T), A)'
<1>1. /\ Cardinality(S) \in Nat /\ Cardinality(T) \in Nat
      /\ Cardinality(Callers) \in Nat /\ Cardinality(T) <= Cardinality(Callers)
  BY CallersCount, GuardAssumption, FS_CardinalityType
<1>2. Cardinality(Callers) # 0
  BY GuardAssumption, FS_EmptySet
<1>3. IsFiniteSet(S)
  BY CallersCount
<1> DEFINE over == Cardinality(Callers) - 1 + faults
           over1 == Cardinality(Callers) - 1 + faults'
<1>4. /\ over \in Nat /\ over1 \in Nat
      /\ faults <= faults' => over <= over1
      /\ faults' = faults + 1 => over1 = over + 1
      /\ Cardinality(T) <= over1 + 1
  BY <1>1, <1>2
<1>5. \A a \in Nat : /\ a + (Cardinality(Callers) - 1) + faults = a + over
                      /\ a + (Cardinality(Callers) - 1) + faults' = a + over1
  BY <1>1, <1>2
<1>6. u + Cardinality(S) = 0 \/ \E a \in A : u + Cardinality(S) <= a + over
  BY <1>5 DEF Within
<1>7. SUFFICES v + Cardinality(T) = 0 \/ \E a \in A : v + Cardinality(T) <= a + over1
  <2>1. ASSUME v + Cardinality(T) = 0 \/ \E a \in A : v + Cardinality(T) <= a + over1
        PROVE  v + Cardinality(T) = 0
               \/ \E a \in A : v + Cardinality(T) <= a + (Cardinality(Callers) - 1) + faults'
    BY <2>1, <1>5
  <2> QED BY <2>1 DEF Within
<1> HIDE DEF over, over1
<1>8. CASE T \subseteq S /\ v <= u /\ faults <= faults'
  <2>1. Cardinality(T) <= Cardinality(S)
    BY <1>3, <1>8, Fewer
  <2>2. /\ v + Cardinality(T) <= u + Cardinality(S)
        /\ v + Cardinality(T) \in Nat /\ u + Cardinality(S) \in Nat
    BY <1>1, <1>8, <2>1
  <2>3. CASE u + Cardinality(S) = 0
    BY <2>2, <2>3
  <2>4. CASE \E a \in A : u + Cardinality(S) <= a + over
    <3>1. PICK a \in A : a \in Nat /\ u + Cardinality(S) <= a + over
      BY <2>4
    <3>2. v + Cardinality(T) <= a + over1
      BY <1>4, <1>8, <2>2, <3>1
    <3> QED BY <3>2
  <2> QED BY <1>6, <2>3, <2>4
<1>9. CASE T \subseteq S \cup {c} /\ v <= u /\ faults' = faults + 1 /\ A # {}
  <2>1. Cardinality(T) <= Cardinality(S) + 1
    BY <1>3, <1>9, OneMore
  <2>2. CASE u + Cardinality(S) = 0
    <3>1. PICK a \in A : a \in Nat
      BY <1>9
    <3>2. v + Cardinality(T) <= 1 /\ 1 <= a + over1
      BY <1>1, <1>4, <1>9, <2>1, <2>2, <3>1
    <3>3. v + Cardinality(T) <= a + over1
      BY <1>1, <1>4, <3>1, <3>2
    <3> QED BY <3>3
  <2>3. CASE \E a \in A : u + Cardinality(S) <= a + over
    <3>1. PICK a \in A : u + Cardinality(S) <= a + over
      BY <2>3
    <3>2. a \in Nat
      OBVIOUS
    <3>3. v + Cardinality(T) <= a + over1
      BY <1>1, <1>4, <1>9, <2>1, <3>1, <3>2
    <3> QED BY <3>3
  <2> QED BY <1>6, <2>2, <2>3
<1>10. CASE \E a \in A : v < a + faults /\ faults <= faults'
  <2>1. PICK a \in A : v < a + faults /\ faults <= faults' /\ a \in Nat
    BY <1>10
  <2>2. Cardinality(T) + faults' <= over1 + 1
    BY <1>1, <1>2 DEF over1
  <2>3. v + Cardinality(T) <= a + over1
    BY <1>1, <1>4, <2>1, <2>2
  <2> QED BY <2>3
<1>11. CASE c \in S /\ T \subseteq S \ {c} /\ v <= u + 1 /\ faults <= faults'
  <2>1. Cardinality(T) + 1 <= Cardinality(S)
    BY <1>3, <1>11, OneLess
  <2> QED BY <1>1, <1>4, <1>6, <1>11, <2>1
<1> QED BY <1>8, <1>9, <1>10, <1>11 DEF Moves

LEMMA CountersAreNat ==
    ASSUME GuardInv
    PROVE  /\ \A t \in Times : periodUsed[t] \in Nat /\ admitted[t] \in Nat
           /\ \A k \in Keys, t \in Times : dayUsed[k][t] \in Nat /\ admittedDay[k][t] \in Nat
           /\ faults \in Nat /\ now \in Times /\ now \in Nat /\ Retention \in Nat
           /\ \A u \in cleaned : u \in Nat
<1>1. /\ periodUsed \in [Times -> Nat] /\ admitted \in [Times -> Nat]
      /\ dayUsed \in [Keys -> [Times -> Nat]] /\ admittedDay \in [Keys -> [Times -> Nat]]
      /\ faults \in Nat /\ now \in Times /\ cleaned \subseteq Times
  BY DEF GuardInv, TypeOK, Counts
<1>2. now \in Nat /\ Retention \in Nat /\ \A u \in cleaned : u \in Nat
  BY <1>1, GuardAssumption DEF Times
<1>3. /\ \A t \in Times : periodUsed[t] \in Nat /\ admitted[t] \in Nat
      /\ \A k \in Keys, t \in Times : dayUsed[k][t] \in Nat /\ admittedDay[k][t] \in Nat
  BY <1>1
<1> QED BY <1>1, <1>2, <1>3

(* The instants let through in a window, and the ones not in the table,    *)
(* are finitely many.                                                      *)
LEMMA InstantsCount ==
    ASSUME GuardInv, NEW t
    PROVE  /\ IsFiniteSet(AdmittedIn(t)) /\ Cardinality(AdmittedIn(t)) \in Nat
           /\ IsFiniteSet(Missing(t)) /\ Cardinality(Missing(t)) \in Nat
<1>1. /\ IsFiniteSet(admittedAt)
      /\ AdmittedIn(t) \in SUBSET admittedAt /\ Missing(t) \in SUBSET admittedAt
  BY DEF GuardInv, AdmittedIn, Missing
<1>2. IsFiniteSet(AdmittedIn(t)) /\ IsFiniteSet(Missing(t))
  BY <1>1, FS_Subset
<1> QED BY <1>2, FS_CardinalityType

(* The same for each of the three counters. *)
LEMMA PeriodStep ==
    ASSUME QuotaInv, GuardInv', cleaned \subseteq cleaned', NEW c, NEW t \in Times,
           ~ PeriodCut(t) => Moves(ByCalendar, c, admitted[t], admitted'[t],
                                   PeriodCallers(t), PeriodCallers(t)')
    PROVE  (PeriodCut(t)
            \/ Within(admitted[t] + Cardinality(PeriodCallers(t)), ByCalendar))'
<1>1. CASE PeriodCut(t)
  BY <1>1 DEF PeriodCut
<1>2. CASE ~ PeriodCut(t)
  <2>1. PICK S \in SUBSET Callers : S = PeriodCallers(t)
    BY DEF PeriodCallers
  <2>2. PICK T \in SUBSET Callers : T = PeriodCallers(t)'
    BY DEF PeriodCallers
  <2>3. /\ faults \in Nat /\ faults' \in Nat
    BY DEF QuotaInv, GuardInv, TypeOK
  <2>4. PICK u \in Nat : u = admitted[t]
    BY CountersAreNat DEF QuotaInv
  <2>5. PICK v \in Nat : v = admitted'[t]
    BY DEF GuardInv, TypeOK, Counts
  <2>6. Within(u + Cardinality(S), ByCalendar)
    BY <1>2, <2>1, <2>4 DEF QuotaInv, PeriodBound
  <2>7. Moves(ByCalendar, c, u, v, S, T)
    BY <1>2, <2>1, <2>2, <2>4, <2>5
  <2>8. Within(v + Cardinality(T), ByCalendar)'
    BY <2>3, <2>6, <2>7, BoundStep, AllowancesAreNat
  <2> QED BY <2>2, <2>5, <2>8
<1> QED BY <1>1, <1>2

LEMMA WindowStep ==
    ASSUME QuotaInv, GuardInv', cleaned \subseteq cleaned', NEW c, NEW t \in Times,
           ~ WindowCut(t) => Moves(ByWindow, c, Cardinality(AdmittedIn(t)),
                                   Cardinality(AdmittedIn(t)'),
                                   WindowCallers(t), WindowCallers(t)')
    PROVE  (WindowCut(t)
            \/ Within(Cardinality(AdmittedIn(t)) + Cardinality(WindowCallers(t)), ByWindow))'
<1>1. CASE WindowCut(t)
  BY <1>1 DEF WindowCut
<1>2. CASE ~ WindowCut(t)
  <2>1. PICK S \in SUBSET Callers : S = WindowCallers(t)
    BY DEF WindowCallers
  <2>2. PICK T \in SUBSET Callers : T = WindowCallers(t)'
    BY DEF WindowCallers
  <2>3. /\ faults \in Nat /\ faults' \in Nat
    BY DEF QuotaInv, GuardInv, TypeOK
  <2>4. PICK u \in Nat : u = Cardinality(AdmittedIn(t))
    BY InstantsCount DEF QuotaInv
  <2>5. PICK v \in Nat : v = Cardinality(AdmittedIn(t)')
    <3>1. IsFiniteSet(admittedAt') /\ AdmittedIn(t)' \in SUBSET admittedAt'
      BY DEF GuardInv, AdmittedIn
    <3> QED BY <3>1, Fewer
  <2>6. Within(u + Cardinality(S), ByWindow)
    BY <1>2, <2>1, <2>4 DEF QuotaInv, WindowBound
  <2>7. Moves(ByWindow, c, u, v, S, T)
    BY <1>2, <2>1, <2>2, <2>4, <2>5
  <2>8. Within(v + Cardinality(T), ByWindow)'
    BY <2>3, <2>6, <2>7, BoundStep, AllowancesAreNat
  <2> QED BY <2>2, <2>5, <2>8
<1> QED BY <1>1, <1>2

LEMMA DayStep ==
    ASSUME QuotaInv, GuardInv', NEW c, NEW k \in Keys, NEW t \in Times,
           Moves({DailyQuota}, c, admittedDay[k][t], admittedDay'[k][t],
                 DayCallers(k, t), DayCallers(k, t)')
    PROVE  Within(admittedDay[k][t] + Cardinality(DayCallers(k, t)), {DailyQuota})'
<1>1. PICK S \in SUBSET Callers : S = DayCallers(k, t)
  BY DEF DayCallers
<1>2. PICK T \in SUBSET Callers : T = DayCallers(k, t)'
  BY DEF DayCallers
<1>3. /\ faults \in Nat /\ faults' \in Nat
  BY DEF QuotaInv, GuardInv, TypeOK
<1>4. PICK u \in Nat : u = admittedDay[k][t]
  BY CountersAreNat DEF QuotaInv
<1>5. PICK v \in Nat : v = admittedDay'[k][t]
  BY DEF GuardInv, TypeOK, Counts
<1>6. Within(u + Cardinality(S), {DailyQuota})
  BY <1>1, <1>4 DEF QuotaInv, DayBound
<1>7. Moves({DailyQuota}, c, u, v, S, T)
  BY <1>1, <1>2, <1>4, <1>5
<1>8. Within(v + Cardinality(T), {DailyQuota})'
  BY <1>3, <1>6, <1>7, BoundStep, AllowancesAreNat
<1> QED BY <1>2, <1>5, <1>8

(* A step that lets nobody through and nobody pass keeps the bounds. *)
LEMMA PeriodKept ==
    ASSUME QuotaInv, GuardInv', faults <= faults', cleaned \subseteq cleaned',
           UNCHANGED admitted,
           \A t \in Times : PeriodCallers(t)' \subseteq PeriodCallers(t)
    PROVE  PeriodBound'
<1> SUFFICES ASSUME NEW t \in Times
             PROVE  (PeriodCut(t)
                     \/ Within(admitted[t] + Cardinality(PeriodCallers(t)), ByCalendar))'
  BY DEF PeriodBound
<1>1. admitted'[t] <= admitted[t]
  BY CountersAreNat DEF QuotaInv
<1>2. Moves(ByCalendar, 0, admitted[t], admitted'[t], PeriodCallers(t), PeriodCallers(t)')
  BY <1>1 DEF Moves
<1> QED BY <1>2, PeriodStep

LEMMA WindowKept ==
    ASSUME QuotaInv, GuardInv', faults <= faults', cleaned \subseteq cleaned',
           UNCHANGED admittedAt,
           \A t \in Times : WindowCallers(t)' \subseteq WindowCallers(t)
    PROVE  WindowBound'
<1> SUFFICES ASSUME NEW t \in Times
             PROVE  (WindowCut(t)
                     \/ Within(Cardinality(AdmittedIn(t)) + Cardinality(WindowCallers(t)),
                               ByWindow))'
  BY DEF WindowBound
<1>1. Cardinality(AdmittedIn(t)') <= Cardinality(AdmittedIn(t))
  <2>1. AdmittedIn(t)' = AdmittedIn(t) /\ Cardinality(AdmittedIn(t)) \in Nat
    BY InstantsCount DEF AdmittedIn, QuotaInv
  <2> QED BY <2>1
<1>2. Moves(ByWindow, 0, Cardinality(AdmittedIn(t)), Cardinality(AdmittedIn(t)'),
            WindowCallers(t), WindowCallers(t)')
  BY <1>1 DEF Moves
<1> QED BY <1>2, WindowStep

LEMMA DayKept ==
    ASSUME QuotaInv, GuardInv', faults <= faults', UNCHANGED admittedDay,
           \A k \in Keys, t \in Times : DayCallers(k, t)' \subseteq DayCallers(k, t)
    PROVE  DayBound'
<1> SUFFICES ASSUME NEW k \in Keys, NEW t \in Times
             PROVE  Within(admittedDay[k][t] + Cardinality(DayCallers(k, t)), {DailyQuota})'
  BY DEF DayBound
<1>1. admittedDay'[k][t] <= admittedDay[k][t]
  BY CountersAreNat DEF QuotaInv
<1>2. Moves({DailyQuota}, 0, admittedDay[k][t], admittedDay'[k][t],
            DayCallers(k, t), DayCallers(k, t)')
  BY <1>1 DEF Moves
<1> QED BY <1>2, DayStep

(* A step that changes neither the counters nor what has been let through  *)
(* keeps the one showing the other.                                        *)
LEMMA ShownKept ==
    ASSUME QuotaInv, UNCHANGED counters, UNCHANGED history,
           now <= now', now' \in Nat, faults <= faults', faults' \in Nat
    PROVE  Shown'
<1>1. PeriodShown'
  <2>1. ASSUME NEW t \in Times, \A u \in cleaned : u <= t + Retention
        PROVE  admitted[t] <= periodUsed[t] + faults'
    BY <2>1, CountersAreNat DEF QuotaInv, Shown, PeriodShown
  <2> QED BY <2>1 DEF PeriodShown, counters, history
<1>2. DayShown'
  <2>1. ASSUME NEW k \in Keys, NEW t \in Times, \A u \in cleaned : u <= t + Retention
        PROVE  admittedDay[k][t] <= dayUsed[k][t] + faults'
    BY <2>1, CountersAreNat DEF QuotaInv, Shown, DayShown
  <2> QED BY <2>1 DEF DayShown, counters, history
<1>3. WindowShown'
  <2>1. \A f : Missing(f)' = Missing(f)
    BY DEF Missing, counters, history
  <2>2. ASSUME NEW f \in Times, \A u \in cleaned : u < f + Retention
        PROVE  Cardinality(Missing(f)) <= faults'
    BY <2>2, CountersAreNat, InstantsCount DEF QuotaInv, Shown, WindowShown
  <2> QED BY <2>1, <2>2 DEF WindowShown, history
<1>4. CleanedBefore'
  BY CountersAreNat DEF QuotaInv, Shown, CleanedBefore, history
<1> QED BY <1>1, <1>2, <1>3, <1>4 DEF Shown

LEMMA Elsewhere ==
    ASSUME QuotaInv, NEW c \in Callers, NEW l, NEW q, NEW m, NEW r, Goto(c, l, q, m, r)
    PROVE  /\ \A t : /\ PeriodCallers(t)' \subseteq PeriodCallers(t) \cup {c}
                    /\ WindowCallers(t)' \subseteq WindowCallers(t) \cup {c}
           /\ \A k, t : DayCallers(k, t)' \subseteq DayCallers(k, t) \cup {c}
           /\ l \notin {"charge", "open"} =>
                  \A t : /\ PeriodCallers(t)' \subseteq PeriodCallers(t) \ {c}
                        /\ WindowCallers(t)' \subseteq WindowCallers(t) \ {c}
           /\ l \notin {"count", "countopen"} =>
                  \A k, t : DayCallers(k, t)' \subseteq DayCallers(k, t) \ {c}
<1>1. \A d \in Callers \ {c} : pc'[d] = pc[d] /\ uq'[d] = uq[d] /\ at'[d] = at[d]
  BY OthersStay DEF QuotaInv, GuardInv
<1>2. pc'[c] = l
  BY Arrives DEF QuotaInv, GuardInv
<1>3. ASSUME NEW t
      PROVE  /\ PeriodCallers(t)' \subseteq PeriodCallers(t) \cup {c}
             /\ WindowCallers(t)' \subseteq WindowCallers(t) \cup {c}
             /\ l \notin {"charge", "open"} =>
                   /\ PeriodCallers(t)' \subseteq PeriodCallers(t) \ {c}
                   /\ WindowCallers(t)' \subseteq WindowCallers(t) \ {c}
  BY <1>1, <1>2 DEF PeriodCallers, WindowCallers, Passed, Rolls
<1>4. ASSUME NEW k, NEW t
      PROVE  /\ DayCallers(k, t)' \subseteq DayCallers(k, t) \cup {c}
             /\ l \notin {"count", "countopen"} =>
                   DayCallers(k, t)' \subseteq DayCallers(k, t) \ {c}
  BY <1>1, <1>2 DEF DayCallers
<1> QED BY <1>3, <1>4

LEMMA QuietStep ==
    ASSUME QuotaInv, GuardInv', NEW c \in Callers,
           Peek(c) \/ ReadRow(c) \/ ReadRowFails(c) \/ Put(c) \/ AllowLimit(c)
    PROVE  PeriodBound' /\ WindowBound' /\ DayBound' /\ Shown'
<1>1. /\ UNCHANGED counters /\ UNCHANGED history /\ UNCHANGED now
      /\ faults <= faults' /\ faults' \in Nat
  BY CountersAreNat DEF Peek, ReadRow, ReadRowFails, Put, AllowLimit, QuotaInv
<1>2. PICK l, q, m, r : Goto(c, l, q, m, r) /\ l \notin {"charge", "open", "count", "countopen"}
  <2>1. CASE AllowLimit(c)
    <3>1. PICK ok \in BOOLEAN :
              Goto(c, IF ok THEN AfterLimit(uq[c]) ELSE "idle", uq[c], 0, 0)
      BY <2>1 DEF AllowLimit
    <3>2. (IF ok THEN AfterLimit(uq[c]) ELSE "idle") \in {AfterLimit(uq[c]), "idle"}
      OBVIOUS
    <3> QED BY <3>1, <3>2, AfterCases
  <2>2. CASE Peek(c)
    BY <2>2, AfterCases DEF Peek
  <2>3. CASE ReadRow(c) \/ ReadRowFails(c) \/ Put(c)
    BY <2>3, AfterCases DEF ReadRow, ReadRowFails, Put
  <2> QED BY <2>1, <2>2, <2>3
<1>3. /\ \A t \in Times : /\ PeriodCallers(t)' \subseteq PeriodCallers(t)
                          /\ WindowCallers(t)' \subseteq WindowCallers(t)
      /\ \A k \in Keys, t \in Times : DayCallers(k, t)' \subseteq DayCallers(k, t)
  BY <1>2, Elsewhere
<1>4. /\ UNCHANGED <<admitted, admittedAt, admittedDay>> /\ cleaned \subseteq cleaned'
      /\ now <= now' /\ now' \in Nat
  BY <1>1, CountersAreNat DEF history, QuotaInv
<1> QED BY <1>1, <1>3, <1>4, PeriodKept, WindowKept, DayKept, ShownKept

(* A check of the user's quota that finds room has seen all requests let   *)
(* through in the period, or the window, that are not cut off by the       *)
(* cleanup, except for the failed calls.                                   *)
LEMMA PeriodRoom ==
    ASSUME QuotaInv, NEW t \in Times, t = PeriodStart(now), ~ PeriodCut(t),
           NEW a \in Nat, periodUsed[t] < a
    PROVE  admitted[t] < a + faults
<1>1. /\ t \in Nat /\ now < t + Period /\ now \in Nat /\ Period \in Nat /\ Retention \in Nat
      /\ admitted[t] \in Nat /\ periodUsed[t] \in Nat /\ faults \in Nat
  BY PeriodStartType, CountersAreNat, GuardAssumption DEF QuotaInv, Times
<1>2. \A u \in cleaned : u \in Nat /\ u <= now
  BY CountersAreNat DEF QuotaInv, Shown, CleanedBefore
<1>3. \A u \in cleaned : u <= t + Retention
  BY <1>1, <1>2 DEF PeriodCut
<1>4. admitted[t] <= periodUsed[t] + faults
  BY <1>3 DEF QuotaInv, Shown, PeriodShown
<1> QED BY <1>1, <1>4

LEMMA FromType ==
    ASSUME NEW t \in Times
    PROVE  From(t) \in Times /\ From(t) \in Nat /\ From(t) <= t
BY GuardAssumption DEF From, Times

LEMMA WindowRoom ==
    ASSUME QuotaInv, NEW t \in Times, now \in From(t) .. t, ~ WindowCut(t),
           NEW a \in Nat, NEW n \in CountRollingHits(now), n < a
    PROVE  Cardinality(AdmittedIn(t)) < a + faults
<1>1. /\ now \in Nat /\ t \in Nat /\ Window \in Nat \ {0} /\ Retention \in Nat /\ faults \in Nat
      /\ From(t) \in Times /\ From(t) \in Nat /\ now <= t
  BY CountersAreNat, GuardAssumption, FromType DEF QuotaInv, Times
<1>2. Cardinality(Missing(From(t))) <= faults
  <2>1. \A u \in cleaned : u \in Nat /\ u <= t
    BY <1>1, CountersAreNat DEF QuotaInv, Shown, CleanedBefore
  <2>2. \A u \in cleaned : u < From(t) + Retention
    BY <1>1, <2>1 DEF WindowCut
  <2> QED BY <1>1, <2>2 DEF QuotaInv, Shown, WindowShown
<1>3. /\ IsFiniteSet(InWindow(now)) /\ Cardinality(InWindow(now)) \in Nat
      /\ Cardinality(InWindow(now)) <= n /\ n \in Int
  <2>1. IsFiniteSet(rolling) /\ InWindow(now) \in SUBSET rolling
           /\ (InWindow(now) \cup AtEdge(now)) \in SUBSET rolling
    BY DEF QuotaInv, GuardInv, InWindow, AtEdge
  <2>2. /\ IsFiniteSet(InWindow(now)) /\ Cardinality(InWindow(now)) \in Nat
        /\ Cardinality(InWindow(now) \cup AtEdge(now)) \in Nat
    BY <2>1, Fewer, FS_Subset
  <2> QED BY <2>2 DEF CountRollingHits
<1>4. AdmittedIn(t) \in SUBSET (InWindow(now) \cup Missing(From(t)))
  <2>1. ASSUME NEW h \in AdmittedIn(t), h \in rolling
        PROVE  h \in InWindow(now)
    <3>1. h[1] \in Nat /\ h[1] >= From(t)
      <4>1. admittedAt \subseteq Times \X Instants
        BY DEF QuotaInv, GuardInv, TypeOK
      <4> QED BY <4>1, <1>1 DEF AdmittedIn, Times
    <3>2. h[1] + Window > now
      BY <1>1, <3>1 DEF From
    <3> QED BY <2>1, <3>2 DEF InWindow
  <2>2. ASSUME NEW h \in AdmittedIn(t), h \notin rolling
        PROVE  h \in Missing(From(t))
    BY <1>1, <2>2 DEF AdmittedIn, Missing
  <2> QED BY <2>1, <2>2
<1>5. IsFiniteSet(Missing(From(t))) /\ Cardinality(Missing(From(t))) \in Nat
  BY InstantsCount DEF QuotaInv
<1>6. Cardinality(AdmittedIn(t)) <= Cardinality(InWindow(now)) + Cardinality(Missing(From(t)))
  <2> DEFINE I == InWindow(now)
             M == Missing(From(t))
  <2>1. /\ IsFiniteSet(I \cup M) /\ Cardinality(I \cap M) \in Nat
        /\ Cardinality(I \cup M) = Cardinality(I) + Cardinality(M) - Cardinality(I \cap M)
    <3>1. IsFiniteSet(I) /\ IsFiniteSet(M) /\ (I \cap M) \in SUBSET I
      BY <1>3, <1>5
    <3> HIDE DEF I, M
    <3>2. Cardinality(I \cap M) \in Nat
      BY <3>1, Fewer
    <3> QED BY <3>1, <3>2, FS_Union
  <2>2. Cardinality(AdmittedIn(t)) <= Cardinality(I \cup M)
    BY <1>4, <2>1, Fewer
  <2> QED BY <1>3, <1>5, <2>1, <2>2, InstantsCount DEF QuotaInv
<1>7. Cardinality(AdmittedIn(t)) \in Nat
  BY InstantsCount DEF QuotaInv
<1> QED BY <1>1, <1>2, <1>3, <1>5, <1>6, <1>7

LEMMA DayRoom ==
    ASSUME QuotaInv, NEW k \in Keys, dayUsed[k][now] < DailyQuota
    PROVE  admittedDay[k][now] < DailyQuota + faults
<1>1. /\ now \in Times /\ now \in Nat /\ Retention \in Nat /\ DailyQuota \in Nat
      /\ admittedDay[k][now] \in Nat /\ dayUsed[k][now] \in Nat /\ faults \in Nat
  BY CountersAreNat, GuardAssumption DEF QuotaInv
<1>2. \A u \in cleaned : u \in Nat /\ u <= now
  BY CountersAreNat DEF QuotaInv, Shown, CleanedBefore
<1>3. \A u \in cleaned : u <= now + Retention
  BY <1>1, <1>2
<1>4. admittedDay[k][now] <= dayUsed[k][now] + faults
  BY <1>1, <1>3 DEF QuotaInv, Shown, DayShown
<1> QED BY <1>1, <1>4

(* A caller that passes the user's quota, or that a failing read lets pass. *)
LEMMA CheckUserStep ==
    ASSUME QuotaInv, GuardInv', NEW c \in Callers, CheckUser(c)
    PROVE  PeriodBound' /\ WindowBound' /\ DayBound' /\ Shown'
<1> DEFINE Room == \E n \in QuotaUsage(uq[c], now) : n < uq[c].requests
           Open == faults' = faults + 1
<1>1. PICK l : /\ Goto(c, l, uq[c], now, 0)
               /\ l \in {"charge", "open", "idle"}
               /\ l = "charge" => Room
               /\ l = "open" => Open
               /\ l # "open" => UNCHANGED faults
  <2>1. CASE /\ \E n \in QuotaUsage(uq[c], now) :
                    Goto(c, IF n < uq[c].requests THEN "charge" ELSE "idle", uq[c], now, 0)
             /\ UNCHANGED faults
    <3>1. PICK n \in QuotaUsage(uq[c], now) :
              Goto(c, IF n < uq[c].requests THEN "charge" ELSE "idle", uq[c], now, 0)
      BY <2>1
    <3>2. CASE n < uq[c].requests
      BY <2>1, <3>1, <3>2
    <3>3. CASE ~ (n < uq[c].requests)
      BY <2>1, <3>1, <3>3
    <3> QED BY <3>2, <3>3
  <2>2. CASE Goto(c, "open", uq[c], now, 0) /\ faults' = faults + 1
    BY <2>2
  <2> QED BY <2>1, <2>2 DEF CheckUser
<1>2. /\ uq[c] \in Quotas /\ uq[c].requests \in Nat
      /\ now \in Times /\ now \in Nat /\ UNCHANGED counters /\ UNCHANGED history
      /\ UNCHANGED now /\ faults \in Nat
  BY GuardAssumption DEF CheckUser, QuotaInv, HasQuota, GuardInv, TypeOK, Times
<1>3. uq[c].requests \in (IF Rolls(c) THEN ByWindow ELSE ByCalendar)
  BY <1>2, GuardAssumption DEF Rolls, ByWindow, ByCalendar, Allowances
<1>4. /\ faults <= faults' /\ faults' \in Nat
      /\ cleaned \subseteq cleaned' /\ UNCHANGED <<admitted, admittedAt, admittedDay>>
  BY <1>1, <1>2 DEF history
<1>5. /\ pc'[c] = l
      /\ l # "idle" => uq'[c] = uq[c] /\ at'[c] = now
  BY <1>1, Arrives DEF QuotaInv, GuardInv
<1> HIDE DEF Room, Open
<1>6. ASSUME NEW t \in Times, ~ PeriodCut(t)
      PROVE  Moves(ByCalendar, c, admitted[t], admitted'[t],
                   PeriodCallers(t), PeriodCallers(t)')
  <2>1. /\ PeriodCallers(t)' \subseteq PeriodCallers(t) \cup {c}
        /\ admitted'[t] = admitted[t] /\ admitted[t] \in Nat
    BY <1>1, <1>4, Elsewhere, CountersAreNat DEF QuotaInv
  <2>2. CASE c \notin PeriodCallers(t)'
    BY <1>4, <2>1, <2>2 DEF Moves
  <2>3. CASE c \in PeriodCallers(t)' /\ l = "charge"
    <3>1. ~ Rolls(c) /\ uq[c].period # "rolling" /\ t = PeriodStart(now)
      BY <1>5, <2>3 DEF PeriodCallers, Rolls
    <3>2. periodUsed[t] < uq[c].requests
      BY <1>1, <2>3, <3>1 DEF QuotaUsage, Room
    <3>3. admitted[t] < uq[c].requests + faults
      BY <1>2, <1>6, <3>1, <3>2, PeriodRoom
    <3> QED BY <1>3, <1>4, <2>1, <3>1, <3>3 DEF Moves
  <2>4. CASE c \in PeriodCallers(t)' /\ l = "open"
    <3>1. ~ Rolls(c)
      BY <1>5, <2>4 DEF PeriodCallers, Rolls
    <3> QED BY <1>1, <1>2, <1>3, <2>1, <2>4, <3>1 DEF Moves, Open
  <2>5. CASE c \in PeriodCallers(t)' /\ l = "idle"
    BY <1>5, <2>5 DEF PeriodCallers, Passed
  <2> QED BY <1>1, <2>2, <2>3, <2>4, <2>5
<1>7. PeriodBound'
  BY <1>4, <1>6, PeriodStep DEF PeriodBound
<1>8. ASSUME NEW t \in Times, ~ WindowCut(t)
      PROVE  Moves(ByWindow, c, Cardinality(AdmittedIn(t)), Cardinality(AdmittedIn(t)'),
                   WindowCallers(t), WindowCallers(t)')
  <2>1. /\ WindowCallers(t)' \subseteq WindowCallers(t) \cup {c}
        /\ AdmittedIn(t)' = AdmittedIn(t) /\ Cardinality(AdmittedIn(t)) \in Nat
    BY <1>1, <1>4, Elsewhere, InstantsCount DEF AdmittedIn, QuotaInv
  <2>2. CASE c \notin WindowCallers(t)'
    BY <1>4, <2>1, <2>2 DEF Moves
  <2>3. CASE c \in WindowCallers(t)' /\ l = "charge"
    <3>1. Rolls(c) /\ uq[c].period = "rolling" /\ now \in From(t) .. t
      BY <1>5, <2>3 DEF WindowCallers, Rolls
    <3>2. PICK n \in CountRollingHits(now) : n < uq[c].requests
      BY <1>1, <2>3, <3>1 DEF QuotaUsage, Room
    <3>3. Cardinality(AdmittedIn(t)) < uq[c].requests + faults
      BY <1>2, <1>8, <3>1, <3>2, WindowRoom
    <3> QED BY <1>3, <1>4, <2>1, <3>1, <3>3 DEF Moves
  <2>4. CASE c \in WindowCallers(t)' /\ l = "open"
    <3>1. Rolls(c)
      BY <1>5, <2>4 DEF WindowCallers, Rolls
    <3>2. Cardinality(AdmittedIn(t)') <= Cardinality(AdmittedIn(t))
      BY <2>1
    <3> QED BY <1>1, <1>3, <2>1, <2>4, <3>1, <3>2 DEF Moves, Open
  <2>5. CASE c \in WindowCallers(t)' /\ l = "idle"
    BY <1>5, <2>5 DEF WindowCallers, Passed
  <2> QED BY <1>1, <2>2, <2>3, <2>4, <2>5
<1>9. WindowBound'
  BY <1>4, <1>8, WindowStep DEF WindowBound
<1>10. DayBound'
  <2>1. \A k \in Keys, t \in Times : DayCallers(k, t)' \subseteq DayCallers(k, t)
    BY <1>1, Elsewhere
  <2> QED BY <1>4, <2>1, DayKept
<1>11. Shown'
  <2>1. now <= now' /\ now' \in Nat
    BY <1>2
  <2> QED BY <1>2, <1>4, <2>1, ShownKept
<1> QED BY <1>7, <1>9, <1>10, <1>11

(* A request on its way that is let through, counted or not. *)
LEMMA ChargedShown ==
    ASSUME QuotaInv, GuardInv', NEW c \in Callers, ChargeUser(c)
    PROVE  Shown'
<1>1. PICK i \in Instants :
          /\ Admit(c, i)
          /\ \/ RecordQuotaHit(c, i) /\ UNCHANGED faults
             \/ faults' = faults + 1 /\ UNCHANGED <<rolling, periodUsed>>
  BY DEF ChargeUser
<1>2. /\ at[c] \in Times /\ PeriodStart(at[c]) \in Times
      /\ faults \in Nat /\ faults <= faults' /\ faults' \in Nat
      /\ UNCHANGED <<now, dayUsed, admittedDay, cleaned>>
      /\ periodUsed \in [Times -> Nat] /\ admitted \in [Times -> Nat]
      /\ Timestamp(at[c], i) = <<at[c], i>>
  <2>1. at[c] \in Times
    BY LocalTypes DEF QuotaInv, GuardInv
  <2>2. PeriodStart(at[c]) \in Times /\ Timestamp(at[c], i) = <<at[c], i>>
    BY <2>1, PeriodStartType, InstantType
  <2>3. faults \in Nat /\ faults <= faults' /\ faults' \in Nat
    BY <1>1, CountersAreNat DEF QuotaInv
  <2>4. periodUsed \in [Times -> Nat] /\ admitted \in [Times -> Nat]
    BY DEF QuotaInv, GuardInv, TypeOK, Counts
  <2>5. UNCHANGED <<now, dayUsed, admittedDay, cleaned>>
    BY DEF ChargeUser
  <2> QED BY <2>1, <2>2, <2>3, <2>4, <2>5
<1>3. PeriodShown'
  <2> SUFFICES ASSUME NEW t \in Times, \A u \in cleaned : u <= t + Retention
               PROVE  admitted'[t] <= periodUsed'[t] + faults'
    BY <1>2 DEF PeriodShown
  <2>1. /\ admitted[t] \in Nat /\ periodUsed[t] \in Nat
        /\ admitted[t] <= periodUsed[t] + faults
    BY CountersAreNat DEF QuotaInv, Shown, PeriodShown
  <2>2. CASE Rolls(c)
    <3>1. UNCHANGED <<admitted, periodUsed>>
      BY <1>1, <2>2 DEF Admit, RecordQuotaHit, Rolls
    <3> QED BY <1>2, <2>1, <3>1
  <2>3. CASE ~ Rolls(c)
    <3>1. admitted' = [admitted EXCEPT ![PeriodStart(at[c])] = @ + 1]
      BY <1>1, <2>3 DEF Admit, Rolls
    <3>2. CASE RecordQuotaHit(c, i) /\ UNCHANGED faults
      <4>1. periodUsed' = [periodUsed EXCEPT ![PeriodStart(at[c])] = @ + 1]
        BY <2>3, <3>2 DEF RecordQuotaHit, Rolls
      <4> QED BY <1>2, <2>1, <3>1, <3>2, <4>1
    <3>3. CASE faults' = faults + 1 /\ UNCHANGED <<rolling, periodUsed>>
      BY <1>2, <2>1, <3>1, <3>3
    <3> QED BY <1>1, <3>2, <3>3
  <2> QED BY <2>2, <2>3
<1>4. WindowShown'
  <2> SUFFICES ASSUME NEW f \in Times, \A u \in cleaned : u < f + Retention
               PROVE  Cardinality(Missing(f)') <= faults'
    BY <1>2 DEF WindowShown
  <2>1. /\ IsFiniteSet(Missing(f)) /\ Cardinality(Missing(f)) \in Nat
        /\ Cardinality(Missing(f)) <= faults
    BY InstantsCount DEF QuotaInv, Shown, WindowShown
  <2>2. CASE ~ Rolls(c) \/ (RecordQuotaHit(c, i) /\ UNCHANGED faults)
    <3>1. Missing(f)' \in SUBSET Missing(f)
      <4>1. CASE ~ Rolls(c)
        <5>1. UNCHANGED <<rolling, admittedAt>>
          BY <1>1, <4>1 DEF Admit, RecordQuotaHit, Rolls
        <5> QED BY <5>1 DEF Missing
      <4>2. CASE Rolls(c) /\ RecordQuotaHit(c, i)
        <5>1. /\ admittedAt' = admittedAt \cup {<<at[c], i>>}
              /\ rolling' = rolling \cup {<<at[c], i>>}
          BY <1>1, <1>2, <4>2 DEF Admit, RecordQuotaHit, Rolls
        <5> QED BY <5>1 DEF Missing
      <4> QED BY <2>2, <4>1, <4>2
    <3>2. Cardinality(Missing(f)') \in Nat /\ Cardinality(Missing(f)') <= Cardinality(Missing(f))
      BY <2>1, <3>1, Fewer
    <3> QED BY <1>2, <2>1, <3>2
  <2>3. CASE Rolls(c) /\ faults' = faults + 1 /\ UNCHANGED <<rolling, periodUsed>>
    <3>1. admittedAt' = admittedAt \cup {<<at[c], i>>}
      BY <1>1, <2>3 DEF Admit, Rolls
    <3>2. Missing(f)' \in SUBSET (Missing(f) \cup {<<at[c], i>>})
      BY <2>3, <3>1 DEF Missing
    <3>3. Cardinality(Missing(f)') \in Nat /\ Cardinality(Missing(f)') <= Cardinality(Missing(f)) + 1
      BY <2>1, <3>2, OneMore
    <3> QED BY <1>2, <2>1, <2>3, <3>3
  <2> QED BY <1>1, <2>2, <2>3
<1>5. DayShown'
  <2> SUFFICES ASSUME NEW k \in Keys, NEW t \in Times, \A u \in cleaned : u <= t + Retention
               PROVE  admittedDay[k][t] <= dayUsed[k][t] + faults'
    BY <1>2 DEF DayShown
  <2>1. /\ admittedDay[k][t] \in Nat /\ dayUsed[k][t] \in Nat
        /\ admittedDay[k][t] <= dayUsed[k][t] + faults
    BY CountersAreNat DEF QuotaInv, Shown, DayShown
  <2> QED BY <1>2, <2>1
<1>6. CleanedBefore'
  BY <1>2 DEF QuotaInv, Shown, CleanedBefore
<1> QED BY <1>3, <1>4, <1>5, <1>6 DEF Shown

LEMMA ChargeUserStep ==
    ASSUME QuotaInv, GuardInv', NEW c \in Callers, ChargeUser(c)
    PROVE  PeriodBound' /\ WindowBound' /\ DayBound' /\ Shown'
<1>1. PICK l : Goto(c, l, uq[c], 0, 0) /\ l \in {"daily", "idle"}
  BY AfterCases DEF ChargeUser
<1>2. PICK i \in Instants : Admit(c, i)
  BY DEF ChargeUser
<1>3. /\ pc[c] \in {"charge", "open"} /\ at[c] \in Times /\ at[c] \in Nat
      /\ faults \in Nat /\ faults <= faults'
      /\ UNCHANGED <<admittedDay, cleaned>>
  BY CountersAreNat, LocalTypes DEF ChargeUser, QuotaInv, GuardInv, Times
<1>4. cleaned \subseteq cleaned'
  BY <1>3
<1>5. \A t : /\ PeriodCallers(t)' \subseteq PeriodCallers(t) \ {c}
            /\ WindowCallers(t)' \subseteq WindowCallers(t) \ {c}
  BY <1>1, Elsewhere
<1>6. DayBound'
  <2>1. \A k \in Keys, t \in Times : DayCallers(k, t)' \subseteq DayCallers(k, t)
    BY <1>1, Elsewhere
  <2> QED BY <1>3, <2>1, DayKept
<1>7. CASE ~ Rolls(c)
  <2>1. /\ admitted' = [admitted EXCEPT ![PeriodStart(at[c])] = @ + 1]
        /\ UNCHANGED admittedAt
    BY <1>2, <1>7 DEF Admit, Rolls
  <2>2. ASSUME NEW t \in Times
        PROVE  Moves(ByCalendar, c, admitted[t], admitted'[t],
                     PeriodCallers(t), PeriodCallers(t)')
    <3>1. admitted \in [Times -> Nat] /\ admitted[t] \in Nat
      BY DEF QuotaInv, GuardInv, TypeOK, Counts
    <3>2. CASE t = PeriodStart(at[c])
      <4>1. c \in PeriodCallers(t)
        BY <1>3, <1>7, <3>2 DEF PeriodCallers, Passed
      <4>2. admitted'[t] <= admitted[t] + 1
        BY <2>1, <3>1, <3>2
      <4> QED BY <1>3, <1>5, <4>1, <4>2 DEF Moves
    <3>3. CASE t # PeriodStart(at[c])
      <4>1. admitted'[t] <= admitted[t]
        BY <2>1, <3>1, <3>3
      <4> QED BY <1>3, <1>5, <4>1 DEF Moves
    <3> QED BY <3>2, <3>3
  <2>3. PeriodBound'
    BY <1>4, <2>2, PeriodStep DEF PeriodBound
  <2>4. WindowBound'
    BY <1>3, <1>4, <1>5, <2>1, WindowKept
  <2> QED BY <1>6, <2>3, <2>4, ChargedShown
<1>8. CASE Rolls(c)
  <2>1. /\ admittedAt' = admittedAt \cup {<<at[c], i>>}
        /\ UNCHANGED admitted
    BY <1>2, <1>8 DEF Admit, Rolls
  <2>2. ASSUME NEW t \in Times
        PROVE  Moves(ByWindow, c, Cardinality(AdmittedIn(t)), Cardinality(AdmittedIn(t)'),
                     WindowCallers(t), WindowCallers(t)')
    <3>1. IsFiniteSet(AdmittedIn(t)) /\ Cardinality(AdmittedIn(t)) \in Nat
      BY InstantsCount DEF QuotaInv
    <3>2. CASE at[c] \in From(t) .. t
      <4>1. c \in WindowCallers(t)
        BY <1>3, <1>8, <3>2 DEF WindowCallers, Passed
      <4>2. AdmittedIn(t)' \in SUBSET (AdmittedIn(t) \cup {<<at[c], i>>})
        BY <2>1 DEF AdmittedIn
      <4>3. Cardinality(AdmittedIn(t)') <= Cardinality(AdmittedIn(t)) + 1
        BY <3>1, <4>2, OneMore
      <4> QED BY <1>3, <1>5, <4>1, <4>3 DEF Moves
    <3>3. CASE at[c] \notin From(t) .. t
      <4>1. AdmittedIn(t)' = AdmittedIn(t)
        BY <2>1, <3>3 DEF AdmittedIn
      <4>2. Cardinality(AdmittedIn(t)') <= Cardinality(AdmittedIn(t))
        BY <3>1, <4>1
      <4> QED BY <1>3, <1>5, <4>2 DEF Moves
    <3> QED BY <3>2, <3>3
  <2>3. WindowBound'
    BY <1>4, <2>2, WindowStep DEF WindowBound
  <2>4. PeriodBound'
    BY <1>3, <1>4, <1>5, <2>1, PeriodKept
  <2> QED BY <1>6, <2>3, <2>4, ChargedShown
<1> QED BY <1>7, <1>8

(* The daily quota of the key, checked and counted. *)
LEMMA CheckDailyStep ==
    ASSUME QuotaInv, GuardInv', NEW c \in Callers, CheckDaily(c)
    PROVE  PeriodBound' /\ WindowBound' /\ DayBound' /\ Shown'
<1> DEFINE Room == DayHasRoom(KeyOf[c])
           Open == faults' = faults + 1
<1>1. PICK l : /\ Goto(c, l, uq[c], now, 0)
               /\ l \in {"count", "countopen", "idle"}
               /\ l = "count" => Room
               /\ l = "countopen" => Open
               /\ l # "countopen" => UNCHANGED faults
  <2>1. CASE /\ Goto(c, IF DayHasRoom(KeyOf[c]) THEN "count" ELSE "idle", uq[c], now, 0)
             /\ UNCHANGED faults
    <3>1. CASE DayHasRoom(KeyOf[c])
      BY <2>1, <3>1
    <3>2. CASE ~ DayHasRoom(KeyOf[c])
      BY <2>1, <3>2
    <3> QED BY <3>1, <3>2
  <2>2. CASE Goto(c, "countopen", uq[c], now, 0) /\ faults' = faults + 1
    BY <2>2
  <2> QED BY <2>1, <2>2 DEF CheckDaily
<1>2. /\ UNCHANGED counters /\ UNCHANGED history /\ UNCHANGED now
      /\ faults \in Nat /\ now \in Nat /\ KeyOf[c] \in Keys
  BY GuardAssumption, CountersAreNat DEF CheckDaily, QuotaInv
<1>3. /\ faults <= faults' /\ faults' \in Nat
      /\ cleaned \subseteq cleaned' /\ UNCHANGED <<admitted, admittedAt, admittedDay>>
  BY <1>1, <1>2 DEF history
<1>4. /\ pc'[c] = l
      /\ l # "idle" => at'[c] = now
  BY <1>1, Arrives DEF QuotaInv, GuardInv
<1> HIDE DEF Room, Open
<1>5. \A t \in Times : /\ PeriodCallers(t)' \subseteq PeriodCallers(t)
                      /\ WindowCallers(t)' \subseteq WindowCallers(t)
  <2>1. l \notin {"charge", "open"}
    BY <1>1
  <2> QED BY <1>1, <2>1, Elsewhere
<1>6. PeriodBound' /\ WindowBound'
  BY <1>3, <1>5, PeriodKept, WindowKept
<1>7. ASSUME NEW k \in Keys, NEW t \in Times
      PROVE  Moves({DailyQuota}, c, admittedDay[k][t], admittedDay'[k][t],
                   DayCallers(k, t), DayCallers(k, t)')
  <2>1. /\ DayCallers(k, t)' \subseteq DayCallers(k, t) \cup {c}
        /\ admittedDay'[k][t] = admittedDay[k][t] /\ admittedDay[k][t] \in Nat
    BY <1>1, <1>3, Elsewhere, CountersAreNat DEF QuotaInv
  <2>2. CASE c \notin DayCallers(k, t)'
    BY <1>3, <2>1, <2>2 DEF Moves
  <2>3. CASE c \in DayCallers(k, t)' /\ l = "count"
    <3>1. KeyOf[c] = k /\ t = now
      BY <1>4, <2>3 DEF DayCallers
    <3>2. dayUsed[k][now] < DailyQuota
      BY <1>1, <2>3, <3>1 DEF Room, DayHasRoom
    <3>3. admittedDay[k][t] < DailyQuota + faults
      BY <3>1, <3>2, DayRoom
    <3> QED BY <1>3, <2>1, <3>3 DEF Moves
  <2>4. CASE l = "countopen"
    BY <1>1, <1>2, <2>1, <2>4 DEF Moves, Open
  <2>5. CASE c \in DayCallers(k, t)' /\ l = "idle"
    BY <1>4, <2>5 DEF DayCallers
  <2> QED BY <1>1, <2>2, <2>3, <2>4, <2>5
<1>8. DayBound'
  BY <1>7, DayStep DEF DayBound
<1>9. Shown'
  <2>1. now <= now' /\ now' \in Nat
    BY <1>2
  <2> QED BY <1>2, <1>3, <2>1, ShownKept
<1> QED BY <1>6, <1>8, <1>9

LEMMA CountDailyStep ==
    ASSUME QuotaInv, GuardInv', NEW c \in Callers, CountDaily(c)
    PROVE  PeriodBound' /\ WindowBound' /\ DayBound' /\ Shown'
<1>1. Goto(c, "idle", NoQuota, 0, 0)
  BY DEF CountDaily
<1>2. /\ pc[c] \in {"count", "countopen"} /\ KeyOf[c] \in Keys /\ at[c] \in Times
      /\ UNCHANGED <<now, periodUsed, rolling, admitted, admittedAt, cleaned>>
      /\ admittedDay' = [admittedDay EXCEPT ![KeyOf[c]][at[c]] = @ + 1]
  BY LocalTypes, GuardAssumption DEF CountDaily, QuotaInv, GuardInv
<1>3. /\ \/ dayUsed' = [dayUsed EXCEPT ![KeyOf[c]][at[c]] = @ + 1] /\ UNCHANGED faults
         \/ UNCHANGED dayUsed /\ faults' = faults + 1
      /\ faults \in Nat /\ faults <= faults' /\ faults' \in Nat
  BY CountersAreNat DEF CountDaily, QuotaInv
<1>4. /\ admittedDay \in [Keys -> [Times -> Nat]]
      /\ dayUsed \in [Keys -> [Times -> Nat]]
  BY DEF QuotaInv, GuardInv, TypeOK, Counts
<1>5. cleaned \subseteq cleaned'
      /\ \A t \in Times : /\ PeriodCallers(t)' \subseteq PeriodCallers(t)
                          /\ WindowCallers(t)' \subseteq WindowCallers(t)
  BY <1>1, <1>2, Elsewhere
<1>6. PeriodBound' /\ WindowBound'
  BY <1>2, <1>3, <1>5, PeriodKept, WindowKept
<1>7. ASSUME NEW k \in Keys, NEW t \in Times
      PROVE  Moves({DailyQuota}, c, admittedDay[k][t], admittedDay'[k][t],
                   DayCallers(k, t), DayCallers(k, t)')
  <2>1. DayCallers(k, t)' \subseteq DayCallers(k, t) \ {c}
    BY <1>1, Elsewhere
  <2>2. CASE k = KeyOf[c] /\ t = at[c]
    <3>1. c \in DayCallers(k, t)
      BY <1>2, <2>2 DEF DayCallers
    <3>2. admittedDay'[k][t] <= admittedDay[k][t] + 1
      BY <1>2, <1>4, <2>2
    <3> QED BY <1>3, <2>1, <3>1, <3>2 DEF Moves
  <2>3. CASE ~ (k = KeyOf[c] /\ t = at[c])
    <3>1. admittedDay'[k][t] <= admittedDay[k][t]
      BY <1>2, <1>4, <2>3
    <3> QED BY <1>3, <2>1, <3>1 DEF Moves
  <2> QED BY <2>2, <2>3
<1>8. DayBound'
  BY <1>7, DayStep DEF DayBound
<1>9. Shown'
  <2>1. DayShown'
    <3> SUFFICES ASSUME NEW k \in Keys, NEW t \in Times, \A u \in cleaned : u <= t + Retention
                 PROVE  admittedDay'[k][t] <= dayUsed'[k][t] + faults'
      BY <1>2 DEF DayShown
    <3>1. /\ admittedDay[k][t] \in Nat /\ dayUsed[k][t] \in Nat
          /\ admittedDay[k][t] <= dayUsed[k][t] + faults
      BY CountersAreNat DEF QuotaInv, Shown, DayShown
    <3>2. CASE dayUsed' = [dayUsed EXCEPT ![KeyOf[c]][at[c]] = @ + 1] /\ UNCHANGED faults
      BY <1>2, <1>3, <1>4, <3>1, <3>2
    <3>3. CASE UNCHANGED dayUsed /\ faults' = faults + 1
      BY <1>2, <1>3, <1>4, <3>1, <3>3
    <3> QED BY <1>3, <3>2, <3>3
  <2>2. PeriodShown'
    <3>1. ASSUME NEW t \in Times, \A u \in cleaned : u <= t + Retention
          PROVE  admitted[t] <= periodUsed[t] + faults'
      BY <1>3, <3>1, CountersAreNat DEF QuotaInv, Shown, PeriodShown
    <3> QED BY <1>2, <3>1 DEF PeriodShown
  <2>3. WindowShown'
    <3>1. \A f : Missing(f)' = Missing(f)
      BY <1>2 DEF Missing
    <3>2. ASSUME NEW f \in Times, \A u \in cleaned : u < f + Retention
          PROVE  Cardinality(Missing(f)) <= faults'
      BY <1>3, <3>2, InstantsCount DEF QuotaInv, Shown, WindowShown
    <3> QED BY <1>2, <3>1, <3>2 DEF WindowShown
  <2>4. CleanedBefore'
    BY <1>2 DEF QuotaInv, Shown, CleanedBefore
  <2> QED BY <2>1, <2>2, <2>3, <2>4 DEF Shown
<1> QED BY <1>6, <1>8, <1>9

(* What the cleanup deletes is older than its retention, so that the       *)
(* counters go on showing what is not.                                     *)
LEMMA CleanupShown ==
    ASSUME QuotaInv, GuardInv', Cleanup
    PROVE  Shown'
<1>1. /\ cleaned' = cleaned \cup {now} /\ Retention \in Nat /\ now \in Nat
      /\ Retention # 0 /\ UNCHANGED <<now, faults, admitted, admittedAt, admittedDay>>
      /\ periodUsed' = Pruned(periodUsed)
      /\ dayUsed' = [k \in Keys |-> Pruned(dayUsed[k])]
  BY CountersAreNat DEF Cleanup, QuotaInv
<1>2. /\ \A u \in cleaned : u \in cleaned' /\ u <= now
      /\ now \in cleaned'
  BY <1>1 DEF QuotaInv, Shown, CleanedBefore
<1>3. PeriodShown'
  <2> SUFFICES ASSUME NEW t \in Times, \A u \in cleaned' : u <= t + Retention
               PROVE  admitted'[t] <= periodUsed'[t] + faults'
    BY DEF PeriodShown
  <2>1. admitted[t] <= periodUsed[t] + faults
    BY <1>2 DEF QuotaInv, Shown, PeriodShown
  <2>2. ~ Outdated(t)
    BY <1>1, <1>2 DEF Outdated, Times
  <2> QED BY <1>1, <2>1, <2>2 DEF Pruned
<1>4. DayShown'
  <2> SUFFICES ASSUME NEW k \in Keys, NEW t \in Times, \A u \in cleaned' : u <= t + Retention
               PROVE  admittedDay'[k][t] <= dayUsed'[k][t] + faults'
    BY DEF DayShown
  <2>1. admittedDay[k][t] <= dayUsed[k][t] + faults
    BY <1>2 DEF QuotaInv, Shown, DayShown
  <2>2. ~ Outdated(t)
    BY <1>1, <1>2 DEF Outdated, Times
  <2> QED BY <1>1, <2>1, <2>2 DEF Pruned
<1>5. WindowShown'
  <2> SUFFICES ASSUME NEW f \in Times, \A u \in cleaned' : u < f + Retention
               PROVE  Cardinality(Missing(f)') <= faults'
    BY DEF WindowShown
  <2>1. /\ Cardinality(Missing(f)) <= faults
        /\ IsFiniteSet(Missing(f)) /\ Cardinality(Missing(f)) \in Nat
    BY <1>2, InstantsCount DEF QuotaInv, Shown, WindowShown
  <2>2. f \in Nat /\ now < f + Retention
    BY <1>2 DEF Times
  <2>3. PICK gone : /\ gone \in SUBSET {h \in rolling : h[1] + Retention = now}
                    /\ rolling' = {h \in rolling : ~Outdated(h[1])} \ gone
    BY DEF Cleanup
  <2>4. ASSUME NEW h \in admittedAt, h[1] >= f, h \in rolling
        PROVE  h \in rolling'
    <3>1. h[1] \in Nat
      <4>1. admittedAt \subseteq Times \X Instants
        BY DEF QuotaInv, GuardInv, TypeOK
      <4> QED BY <4>1 DEF Times
    <3>2. ~ Outdated(h[1]) /\ h[1] + Retention # now
      BY <1>1, <2>2, <2>4, <3>1 DEF Outdated
    <3> QED BY <2>3, <2>4, <3>2
  <2>5. Missing(f)' \in SUBSET Missing(f)
    BY <1>1, <2>4 DEF Missing
  <2>6. Cardinality(Missing(f)') <= Cardinality(Missing(f)) /\ Cardinality(Missing(f)') \in Nat
    BY <2>1, <2>5, Fewer
  <2>7. faults \in Nat
    BY CountersAreNat DEF QuotaInv
  <2> QED BY <1>1, <2>1, <2>6, <2>7
<1>6. CleanedBefore'
  BY <1>1, <1>2 DEF CleanedBefore
<1> QED BY <1>3, <1>4, <1>5, <1>6 DEF Shown

(* The administrator, the cleanup and the clock let nobody through. *)
LEMMA OtherQuotaStep ==
    ASSUME QuotaInv, GuardInv',
           WriteQuota \/ Invalidate \/ Cleanup \/ Tick \/ UNCHANGED vars
    PROVE  PeriodBound' /\ WindowBound' /\ DayBound' /\ Shown'
<1>1. UNCHANGED <<pc, uq, at, faults, admitted, admittedAt, admittedDay>>
  BY DEF WriteQuota, Invalidate, Cleanup, Tick, vars, locals, history
<1>2. faults <= faults' /\ faults' \in Nat /\ cleaned \subseteq cleaned'
  <2>1. UNCHANGED faults /\ faults \in Nat
    BY <1>1, CountersAreNat DEF QuotaInv
  <2>2. cleaned \subseteq cleaned'
    BY DEF WriteQuota, Invalidate, Cleanup, Tick, vars, history
  <2> QED BY <2>1, <2>2
<1>3. /\ \A t : /\ PeriodCallers(t)' \subseteq PeriodCallers(t)
               /\ WindowCallers(t)' \subseteq WindowCallers(t)
      /\ \A k, t : DayCallers(k, t)' \subseteq DayCallers(k, t)
  BY <1>1 DEF PeriodCallers, WindowCallers, DayCallers, Passed, Rolls
<1>4. Shown'
  <2>1. CASE ~ Cleanup
    <3>1. UNCHANGED counters /\ UNCHANGED history
      BY <2>1 DEF WriteQuota, Invalidate, Tick, vars
    <3>2. now <= now' /\ now' \in Nat
      <4>1. now \in Nat
        BY CountersAreNat DEF QuotaInv
      <4>2. now' = now \/ now' = now + 1
        BY <2>1 DEF WriteQuota, Invalidate, Tick, vars
      <4> QED BY <4>1, <4>2
    <3> QED BY <1>2, <3>1, <3>2, ShownKept
  <2> QED BY <2>1, CleanupShown
<1> QED BY <1>1, <1>2, <1>3, <1>4, PeriodKept, WindowKept, DayKept

LEMMA QuotaInit == Init => QuotaInv
<1> SUFFICES ASSUME Init PROVE QuotaInv
  OBVIOUS
<1>1. GuardInv /\ HasQuota
  BY DatedInit DEF Dated
<1>2. /\ \A t : /\ PeriodCallers(t) = {} /\ WindowCallers(t) = {}
               /\ AdmittedIn(t) = {} /\ Missing(t) = {}
      /\ \A k, t : DayCallers(k, t) = {}
  BY DEF Init, PeriodCallers, WindowCallers, AdmittedIn, Missing, DayCallers, Passed
<1>3. /\ \A t \in Times : admitted[t] = 0 /\ periodUsed[t] = 0
      /\ \A k \in Keys, t \in Times : admittedDay[k][t] = 0 /\ dayUsed[k][t] = 0
      /\ faults = 0 /\ cleaned = {}
  BY DEF Init, NoHits
<1>4. PeriodBound /\ WindowBound /\ DayBound
  <2>1. \A t \in Times : /\ admitted[t] + Cardinality(PeriodCallers(t)) = 0
                         /\ Cardinality(AdmittedIn(t)) + Cardinality(WindowCallers(t)) = 0
    BY <1>2, <1>3, FS_EmptySet
  <2>2. \A k \in Keys, t \in Times :
            admittedDay[k][t] + Cardinality(DayCallers(k, t)) = 0
    <3> SUFFICES ASSUME NEW k \in Keys, NEW t \in Times
                 PROVE  admittedDay[k][t] + Cardinality(DayCallers(k, t)) = 0
      OBVIOUS
    <3>1. admittedDay[k][t] = 0
      BY <1>3
    <3>2. Cardinality(DayCallers(k, t)) = 0
      <4>1. DayCallers(k, t) = {}
        BY <1>2
      <4> QED BY <4>1, FS_EmptySet
    <3> QED BY <3>1, <3>2
  <2> QED BY <2>1, <2>2 DEF PeriodBound, WindowBound, DayBound, Within
<1>5. Shown
  BY <1>2, <1>3, FS_EmptySet DEF Shown, PeriodShown, DayShown, WindowShown, CleanedBefore
<1> QED BY <1>1, <1>4, <1>5 DEF QuotaInv

LEMMA QuotaStep ==
    ASSUME Dated, QuotaInv, [Next]_vars
    PROVE  QuotaInv'
<1>1. GuardInv' /\ HasQuota'
  BY DatedStep DEF Dated
<1>2. PeriodBound' /\ WindowBound' /\ DayBound' /\ Shown'
  BY <1>1, QuietStep, CheckUserStep, ChargeUserStep, CheckDailyStep, CountDailyStep,
     OtherQuotaStep DEF Next, Step
<1> QED BY <1>1, <1>2 DEF QuotaInv

(* What is let through alone is bounded as well. *)
LEMMA QuotaInvSuffices == QuotaInv => QuotasHold
<1> SUFFICES ASSUME QuotaInv PROVE QuotasHold
  OBVIOUS
<1>1. ASSUME NEW A \in SUBSET Nat, NEW u \in Nat, NEW S \in SUBSET Callers,
             Within(u + Cardinality(S), A)
      PROVE  Within(u, A)
  <2>1. /\ Cardinality(S) \in Nat /\ Cardinality(Callers) \in Nat /\ faults \in Nat
    BY CallersCount, GuardAssumption, FS_CardinalityType DEF QuotaInv, GuardInv, TypeOK
  <2> QED BY <1>1, <2>1 DEF Within
<1>2. QuotaOvershoot
  <2>1. \A t \in Times : PeriodCallers(t) \in SUBSET Callers /\ admitted[t] \in Nat
    BY CountersAreNat DEF PeriodCallers, QuotaInv
  <2>2. \A t \in Times : PeriodCut(t) \/ Within(admitted[t], ByCalendar)
    BY <1>1, <2>1, AllowancesAreNat DEF QuotaInv, PeriodBound
  <2> QED BY <2>2 DEF QuotaOvershoot, ByCalendar
<1>3. DailyOvershoot
  <2>1. \A k \in Keys, t \in Times :
            DayCallers(k, t) \in SUBSET Callers /\ admittedDay[k][t] \in Nat
    BY CountersAreNat DEF DayCallers, QuotaInv
  <2> QED BY <1>1, <2>1, AllowancesAreNat DEF DailyOvershoot, QuotaInv, DayBound
<1>4. RollingOvershoot
  <2>1. \A t \in Times : WindowCallers(t) \in SUBSET Callers /\ Cardinality(AdmittedIn(t)) \in Nat
    BY InstantsCount DEF WindowCallers, QuotaInv
  <2>2. \A t \in Times : WindowCut(t) \/ Within(Cardinality(AdmittedIn(t)), ByWindow)
    BY <1>1, <2>1, AllowancesAreNat DEF QuotaInv, WindowBound
  <2> QED BY <2>2 DEF RollingOvershoot, AdmittedIn, ByWindow
<1> QED BY <1>2, <1>3, <1>4 DEF QuotasHold

LEMMA QuotaInvHolds == Spec => []QuotaInv
<1>1. Init => QuotaInv
  BY QuotaInit
<1>2. Dated /\ QuotaInv /\ [Next]_vars => QuotaInv'
  BY QuotaStep
<1> QED BY <1>1, <1>2, DatedHolds, PTL DEF Spec

(* However many callers and keys there are, however their checks, charges  *)
(* and failing store calls interleave with a change of the quota and with  *)
(* the cleanup, and whatever its retention: no quota lets more through in  *)
(* a period or a window than its allowance, the other callers and one      *)
(* request for each failed call, unless the cleanup has cut it.            *)
THEOREM QuotasAreKept == Spec => []QuotasHold
BY QuotaInvHolds, QuotaInvSuffices, PTL

(* With which retention the cleanup cuts nothing: none at all, or one that *)
(* reaches back over the window and over all but a day of the period.      *)
THEOREM RetentionThatCovers ==
    ASSUME Retention = 0 \/ (Retention >= Window /\ Retention + 1 >= Period)
    PROVE  Spec => [](\A t \in Times : ~ PeriodCut(t) /\ ~ WindowCut(t))
<1>1. ASSUME QuotaInv, NEW t \in Times
      PROVE  ~ PeriodCut(t) /\ ~ WindowCut(t)
  <2>1. /\ t \in Nat /\ Retention \in Nat /\ Window \in Nat \ {0} /\ Period \in Nat
        /\ \A u \in cleaned : u \in Nat
        /\ Retention = 0 => cleaned = {}
    BY <1>1, CountersAreNat, GuardAssumption DEF QuotaInv, Shown, CleanedBefore, Times
  <2>2. CASE Retention = 0
    BY <2>1, <2>2 DEF PeriodCut, WindowCut
  <2>3. CASE Retention >= Window /\ Retention + 1 >= Period
    BY <2>1, <2>3 DEF PeriodCut, WindowCut, From
  <2> QED BY <2>2, <2>3
<1>2. QuotaInv => \A t \in Times : ~ PeriodCut(t) /\ ~ WindowCut(t)
  BY <1>1
<1> QED BY <1>2, QuotaInvHolds, PTL
=============================================================================
