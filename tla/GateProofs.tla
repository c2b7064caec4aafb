----------------------------- MODULE GateProofs -----------------------------
(***************************************************************************)
(* Safety of the gates in front of the providers, proved for every set of  *)
(* providers and branches, breaker setting and sequence of limits.         *)
(*                                                                         *)
(*   GateTypes          no channel ever holds more than its capacity       *)
(*   SlotsAccounted     a slot taken is the slot of exactly one call       *)
(*   CooldownsHold      a streak of failures starts a whole cooldown       *)
(*   NoIdleCooldown     and nothing else starts one                        *)
(*   Cooldowns          the two together                                   *)
(*   BreakerRefined     without its clock the breaker is Breaker           *)
(*                                                                         *)
(* The inductive invariant has three parts: what a branch's program        *)
(* counter says of its block and its channel (BranchInv), the balance of   *)
(* each channel (SlotInv), and how the breaker's entries relate to the     *)
(* streak that history remembers (StreakInv).                              *)
(***************************************************************************)
EXTENDS ProviderGate, FiniteSetTheorems, TLAPS

BranchInv ==
    /\ pc \in [Caller -> {"idle", "capture", "wait", "call", "settle"}]
    /\ block \in [Caller -> [provider : Provider \cup {"none"}, left : Int]]
    /\ ok \in [Caller -> BOOLEAN]
    /\ slotOf \in [Caller -> Nat]
    /\ \A c \in Caller :
          /\ pc[c] # "idle" => block[c].provider \in Provider
          /\ pc[c] \in {"wait", "call"} => slotOf[c] \in 1..Len(capacity)
          /\ pc[c] \notin {"wait", "call"} => slotOf[c] = 0

SlotInv ==
    /\ capacity \in Seq(Limits) /\ held \in Seq(Nat)
    /\ Len(capacity) = Len(held) /\ Len(capacity) > 0
    /\ \A ch \in 1..Len(capacity) :
          /\ held[ch] <= capacity[ch]
          /\ capacity[ch] > 0 => held[ch] = Cardinality(Holders(ch))

(* Without an entry the breaker's counter is the streak; with one, the     *)
(* streak is complete and the entry outlasts its cooldown, because later   *)
(* failures only ever move the entry's end on.                             *)
StreakInv ==
    /\ now \in 0..MaxTime
    /\ fails \in [Provider -> Nat] /\ until \in [Provider -> Nat]
    /\ streak \in [Provider -> Nat] /\ tripTime \in [Provider -> Nat]
    /\ \A p \in Provider :
          /\ tripTime[p] <= now
          /\ Threshold = 0 => until[p] = 0
          /\ Threshold > 0 => fails[p] < Threshold
          /\ Threshold > 0 /\ until[p] = 0 => streak[p] = fails[p]
          /\ until[p] # 0 => streak[p] = Threshold /\ tripTime[p] + Period <= until[p]

Inv == BranchInv /\ SlotInv /\ StreakInv

CallerStep(c) ==
    Resolve(c) \/ Capture(c) \/ Acquire(c) \/ GiveUp(c) \/ Return(c) \/ Settle(c)

-----------------------------------------------------------------------------
LEMMA InvInit == Init => Inv
<1> SUFFICES ASSUME Init PROVE Inv
  OBVIOUS
<1>1. BranchInv
  BY DEF Init, BranchInv, NoBlock
<1>2. SlotInv
  <2>1. PICK l \in Limits : capacity = <<l>>
    BY DEF Init, LimiterInit
  <2>2. held = <<0>>
    BY DEF Init, LimiterInit
  <2>3. Holders(1) = {}
    BY DEF Init, Holders
  <2>4. Cardinality(Holders(1)) = 0
    BY <2>3, FS_EmptySet
  <2>5. l \in Nat
    BY LimitsAssumption
  <2> QED BY <2>1, <2>2, <2>4, <2>5 DEF SlotInv
<1>3. StreakInv
  BY CooldownAssumption DEF Init, CooldownInit, StreakInv
<1> QED BY <1>1, <1>2, <1>3 DEF Inv

-----------------------------------------------------------------------------
(* Branches.                                                               *)

LEMMA BranchStep ==
    ASSUME Inv, NEW c \in Caller, CallerStep(c)
    PROVE  BranchInv'
<1> USE DEF Inv, BranchInv, Goto
<1>1. CASE Resolve(c)
  BY <1>1, AttemptsAssumption DEF Resolve, limiterVars
<1>2. CASE Capture(c)
  BY <1>2 DEF Capture, limiterVars, Current, SlotInv
<1>3. CASE Acquire(c)
  BY <1>3 DEF Acquire, TakeSlot
<1>4. CASE GiveUp(c)
  BY <1>4 DEF GiveUp, limiterVars
<1>5. CASE Return(c)
  BY <1>5 DEF Return, ReleaseSlot
<1>6. CASE Settle(c)
  <2>1. pc[c] = "settle" /\ UNCHANGED <<slotOf, capacity>> /\ ok' = [ok EXCEPT ![c] = FALSE]
    BY <1>6 DEF Settle, limiterVars
  <2>2. CASE /\ block' = [block EXCEPT ![c] = [provider |-> block[c].provider, left |-> @.left - 1]]
             /\ pc' = [pc EXCEPT ![c] = "capture"]
    <3>1. block[c].provider \in Provider /\ block[c].left - 1 \in Int
      BY <2>1
    <3>2. PICK b \in [provider : Provider, left : Int] : block' = [block EXCEPT ![c] = b]
      BY <2>2, <3>1
    <3> QED BY <2>1, <2>2, <3>2
  <2>3. CASE block' = [block EXCEPT ![c] = NoBlock] /\ pc' = [pc EXCEPT ![c] = "idle"]
    BY <2>1, <2>3 DEF NoBlock
  <2> QED BY <1>6, <2>2, <2>3 DEF Settle
<1> QED BY <1>1, <1>2, <1>3, <1>4, <1>5, <1>6 DEF CallerStep

-----------------------------------------------------------------------------
(* Slots.                                                                  *)

LEMMA Capacities ==
    ASSUME SlotInv
    PROVE  \A ch \in 1..Len(capacity) : capacity[ch] \in Nat
<1> SUFFICES ASSUME NEW ch \in 1..Len(capacity) PROVE capacity[ch] \in Nat
  OBVIOUS
<1>1. capacity[ch] \in Limits
  BY DEF SlotInv
<1> QED BY <1>1, LimitsAssumption

LEMMA HoldersFinite ==
    ASSUME NEW ch
    PROVE  IsFiniteSet(Holders(ch)) /\ Cardinality(Holders(ch)) \in Nat
<1>1. Holders(ch) \subseteq Caller
  BY DEF Holders
<1>2. IsFiniteSet(Holders(ch))
  BY <1>1, CallerAssumption, FS_Subset
<1> QED BY <1>2, FS_CardinalityType

(* A step that neither enters nor leaves a call keeps the balance.         *)
LEMMA SlotQuiet ==
    ASSUME SlotInv, UNCHANGED limiterVars, \A ch \in 1..Len(capacity) : Holders(ch)' = Holders(ch)
    PROVE  SlotInv'
BY DEF SlotInv, limiterVars

LEMMA SlotAcquire ==
    ASSUME Inv, NEW c \in Caller, Acquire(c)
    PROVE  SlotInv'
<1> DEFINE s == slotOf[c]
<1> USE DEF Inv, Acquire, Goto
<1>1. s \in 1..Len(capacity) /\ pc[c] = "wait" /\ UNCHANGED <<slotOf, capacity>>
  BY DEF BranchInv, TakeSlot
<1>2. \A ch \in 1..Len(capacity) : ch # s => Holders(ch)' = Holders(ch)
  BY <1>1 DEF Holders, BranchInv
<1>3. Holders(s)' = Holders(s) \cup {c} /\ c \notin Holders(s)
  BY <1>1 DEF Holders, BranchInv
<1>4. Cardinality(Holders(s)') = Cardinality(Holders(s)) + 1
  BY <1>3, HoldersFinite, FS_AddElement
<1>5. capacity[s] \in Nat
  BY <1>1, Capacities
<1>6. CASE capacity[s] = 0
  <2>1. held' = held
    BY <1>6 DEF TakeSlot, Taken
  <2> QED BY <1>1, <1>2, <1>6, <2>1 DEF SlotInv
<1>7. CASE capacity[s] # 0
  <2>1. held' = [held EXCEPT ![s] = @ + 1] /\ held[s] < capacity[s]
    BY <1>7 DEF TakeSlot, Taken, HasRoom
  <2> QED BY <1>1, <1>2, <1>4, <1>5, <1>7, <2>1 DEF SlotInv
<1> QED BY <1>6, <1>7

(* The call that returns is one of its channel's holders, so there is a    *)
(* slot to give back.                                                      *)
LEMMA SlotReturn ==
    ASSUME Inv, NEW c \in Caller, Return(c)
    PROVE  SlotInv'
<1> PICK s : s = slotOf[c]
  OBVIOUS
<1> USE DEF Inv, Return, Goto
<1>1. s \in 1..Len(capacity) /\ pc[c] = "call" /\ UNCHANGED capacity
  BY DEF BranchInv, ReleaseSlot
<1>2. \A ch \in 1..Len(capacity) : ch # s => Holders(ch)' = Holders(ch)
  BY <1>1 DEF Holders, BranchInv
<1>3. Holders(s)' = Holders(s) \ {c} /\ c \in Holders(s)
  <2>1. c \in Holders(s)
    BY <1>1 DEF Holders
  <2>2. pc' = [pc EXCEPT ![c] = "settle"] /\ slotOf' = [slotOf EXCEPT ![c] = 0]
    OBVIOUS
  <2>3. ASSUME NEW x \in Caller
        PROVE  x \in Holders(s)' <=> x \in Holders(s) /\ x # c
    <3>1. CASE x = c
      BY <1>1, <2>2, <3>1 DEF Holders, BranchInv
    <3>2. CASE x # c
      BY <2>2, <3>2 DEF Holders, BranchInv
    <3> QED BY <3>1, <3>2
  <2> QED BY <2>1, <2>3 DEF Holders
<1>4. Cardinality(Holders(s)') = Cardinality(Holders(s)) - 1
  BY <1>3, HoldersFinite, FS_RemoveElement
<1>5. Cardinality(Holders(s)) \in Nat \ {0}
  BY <1>3, HoldersFinite, FS_EmptySet
<1>6. capacity[s] \in Nat
  BY <1>1, Capacities
<1>7. CASE capacity[s] = 0
  <2>1. held' = held
    BY <1>7 DEF ReleaseSlot, Taken, ReleasedTo
  <2> QED BY <1>1, <1>2, <1>7, <2>1 DEF SlotInv
<1>8. CASE capacity[s] # 0
  <2>1. held' = [held EXCEPT ![s] = @ + -1]
    BY <1>8 DEF ReleaseSlot, Taken, ReleasedTo
  <2>2. held[s] = Cardinality(Holders(s))
    BY <1>1, <1>6, <1>8 DEF SlotInv
  <2> QED BY <1>1, <1>2, <1>4, <1>5, <1>6, <1>8, <2>1, <2>2 DEF SlotInv
<1> QED BY <1>7, <1>8

LEMMA SlotResize ==
    ASSUME Inv, Resize
    PROVE  SlotInv' /\ BranchInv'
<1> DEFINE n == Len(capacity)
<1>1. PICK l \in Limits : SetLimit(l)
  BY DEF Resize
<1>2. /\ capacity' = Append(capacity, l) /\ held' = Append(held, 0)
      /\ UNCHANGED <<pc, slotOf, block, ok>>
  BY <1>1 DEF SetLimit, Resize, callerVars
<1>3. /\ Len(capacity') = n + 1 /\ Len(held') = n + 1 /\ n \in Nat \ {0}
      /\ capacity' \in Seq(Limits) /\ held' \in Seq(Nat)
      /\ \A ch \in 1..n : capacity'[ch] = capacity[ch] /\ held'[ch] = held[ch]
      /\ capacity'[n + 1] = l /\ held'[n + 1] = 0
  BY <1>2 DEF Inv, SlotInv
<1>4. BranchInv'
  BY <1>2, <1>3 DEF Inv, BranchInv
<1>5. \A ch : Holders(ch)' = Holders(ch)
  BY <1>2 DEF Holders
<1>6. Holders(n + 1) = {}
  BY <1>3 DEF Holders, Inv, BranchInv
<1>7. Cardinality(Holders(n + 1)) = 0
  BY <1>6, FS_EmptySet
<1>8. l \in Nat
  BY LimitsAssumption
<1>9. ASSUME NEW ch \in 1..(n + 1)
      PROVE  /\ held'[ch] <= capacity'[ch]
             /\ capacity'[ch] > 0 => held'[ch] = Cardinality(Holders(ch)')
  <2>1. CASE ch \in 1..n
    BY <1>3, <1>5, <2>1 DEF Inv, SlotInv
  <2>2. CASE ch = n + 1
    BY <1>3, <1>5, <1>7, <1>8, <2>2
  <2> QED BY <1>3, <2>1, <2>2
<1> QED BY <1>3, <1>4, <1>9 DEF SlotInv

LEMMA SlotStep ==
    ASSUME Inv, NEW c \in Caller, CallerStep(c)
    PROVE  SlotInv'
<1>1. CASE Acquire(c)
  BY <1>1, SlotAcquire
<1>2. CASE Return(c)
  BY <1>2, SlotReturn
<1>3. CASE Resolve(c) \/ Capture(c) \/ GiveUp(c) \/ Settle(c)
  <2>1. UNCHANGED limiterVars
    BY <1>3 DEF Resolve, Capture, GiveUp, Settle
  <2>2. pc[c] # "call" /\ \E x \in {"capture", "wait", "settle", "idle"} : pc' = [pc EXCEPT ![c] = x]
    BY <1>3 DEF Resolve, Capture, GiveUp, Settle, Goto
  <2>3. slotOf' = slotOf \/ \E x : slotOf' = [slotOf EXCEPT ![c] = x]
    BY <1>3 DEF Resolve, Capture, GiveUp, Settle
  <2>4. \A ch \in 1..Len(capacity) : Holders(ch)' = Holders(ch)
    BY <2>2, <2>3 DEF Holders, Inv, BranchInv
  <2> QED BY <2>1, <2>4, SlotQuiet DEF Inv
<1> QED BY <1>1, <1>2, <1>3 DEF CallerStep

-----------------------------------------------------------------------------
(* The breaker.                                                            *)

LEMMA StreakResolve ==
    ASSUME Inv, NEW c \in Caller, Resolve(c)
    PROVE  StreakInv'
<1>1. PICK p \in Provider :
          /\ LookUp(p)
          /\ streak' = IF until[p] = 0 THEN streak ELSE [streak EXCEPT ![p] = 0]
          /\ tripTime' = IF until[p] = 0 THEN tripTime ELSE [tripTime EXCEPT ![p] = 0]
  BY DEF Resolve
<1>2. CASE until[p] = 0
  BY <1>1, <1>2 DEF LookUp, Inv, StreakInv
<1>3. CASE until[p] # 0
  <2>1. /\ fails' = [fails EXCEPT ![p] = 0] /\ until' = [until EXCEPT ![p] = 0]
        /\ streak' = [streak EXCEPT ![p] = 0] /\ tripTime' = [tripTime EXCEPT ![p] = 0]
        /\ now' = now
    BY <1>1, <1>3 DEF LookUp, FailsAfterExpiry
  <2> QED BY <2>1, CooldownAssumption DEF Inv, StreakInv
<1> QED BY <1>2, <1>3

LEMMA StreakSettle ==
    ASSUME Inv, NEW c \in Caller, Settle(c)
    PROVE  StreakInv'
<1> DEFINE p == block[c].provider
<1>1. p \in Provider /\ ok[c] \in BOOLEAN
  BY DEF Settle, Inv, BranchInv
<1>2. /\ Observe(p, ok[c]) /\ now' = now
      /\ streak' = [streak EXCEPT ![p] = IF ok[c] THEN 0 ELSE IF @ < Threshold THEN @ + 1 ELSE @]
      /\ tripTime' = [tripTime EXCEPT ![p] =
                        IF ok[c] THEN 0 ELSE IF streak[p] + 1 = Threshold THEN now ELSE @]
  BY DEF Settle, Observe
<1> HIDE DEF p
<1> USE CooldownAssumption DEF Inv, StreakInv
<1>3. CASE Threshold = 0
  BY <1>1, <1>2, <1>3 DEF Observe
<1>4. CASE Threshold > 0 /\ ok[c]
  <2>1. fails' = [fails EXCEPT ![p] = 0] /\ until' = [until EXCEPT ![p] = 0]
    BY <1>2, <1>4 DEF Observe, FailsAfterSuccess
  <2> QED BY <1>1, <1>2, <1>4, <2>1
<1>5. CASE Threshold > 0 /\ ~ok[c] /\ Trips(p)
  <2>1. fails' = [fails EXCEPT ![p] = 0] /\ until' = [until EXCEPT ![p] = now + Period]
    BY <1>2, <1>5 DEF Observe
  <2>2. fails[p] = Threshold - 1
    BY <1>1, <1>5 DEF Trips
  <2>3. streak[p] = Threshold - 1 \/ streak[p] = Threshold
    BY <1>1, <1>5, <2>2
  <2> QED BY <1>1, <1>2, <1>5, <2>1, <2>3
<1>6. CASE Threshold > 0 /\ ~ok[c] /\ ~Trips(p)
  <2>1. fails' = [fails EXCEPT ![p] = @ + 1] /\ until' = until
    BY <1>2, <1>6 DEF Observe
  <2>2. fails[p] + 1 < Threshold
    BY <1>1, <1>6 DEF Trips
  <2> QED BY <1>1, <1>2, <1>6, <2>1, <2>2
<1> QED BY <1>1, <1>3, <1>4, <1>5, <1>6

LEMMA StreakStep ==
    ASSUME Inv, NEW c \in Caller, CallerStep(c)
    PROVE  StreakInv'
<1>1. CASE Resolve(c)
  BY <1>1, StreakResolve
<1>2. CASE Settle(c)
  BY <1>2, StreakSettle
<1>3. CASE Capture(c) \/ Acquire(c) \/ GiveUp(c) \/ Return(c)
  BY <1>3 DEF Capture, Acquire, GiveUp, Return, cooldownVars, historyVars, Inv, StreakInv
<1> QED BY <1>1, <1>2, <1>3 DEF CallerStep

-----------------------------------------------------------------------------
LEMMA InvStep == Inv /\ [NextStep]_vars => Inv'
<1> SUFFICES ASSUME Inv, [NextStep]_vars PROVE Inv'
  OBVIOUS
<1>1. CASE \E c \in Caller : CallerStep(c)
  BY <1>1, BranchStep, SlotStep, StreakStep DEF Inv
<1>2. CASE Resize
  <2>1. StreakInv'
    BY <1>2 DEF Resize, cooldownVars, historyVars, Inv, StreakInv
  <2> QED BY <1>2, <2>1, SlotResize DEF Inv
<1>3. CASE Time
  <2>1. StreakInv'
    BY <1>3, CooldownAssumption DEF Time, Tick, historyVars, Inv, StreakInv
  <2>2. BranchInv' /\ SlotInv'
    BY <1>3 DEF Time, limiterVars, callerVars, Inv, BranchInv, SlotInv, Holders
  <2> QED BY <2>1, <2>2 DEF Inv
<1>4. CASE UNCHANGED vars
  <2>1. /\ UNCHANGED <<pc, block, slotOf, ok, capacity, held>>
        /\ UNCHANGED <<now, fails, until, streak, tripTime>>
    BY <1>4 DEF vars, cooldownVars, limiterVars, callerVars, historyVars
  <2>2. BranchInv'
    BY <2>1 DEF Inv, BranchInv
  <2>3. SlotInv'
    BY <2>1 DEF Inv, SlotInv, Holders
  <2>4. StreakInv'
    BY <2>1 DEF Inv, StreakInv
  <2> QED BY <2>2, <2>3, <2>4 DEF Inv
<1> QED BY <1>1, <1>2, <1>3, <1>4 DEF NextStep, EndOfTime, CallerStep

LEMMA Invariant == Spec => []Inv
<1> QED BY InvInit, InvStep, PTL DEF Spec

(* Every reachable state of the gates is well typed; in particular no      *)
(* channel of semLimiter ever holds more than its capacity.                *)
THEOREM GateTypes == Spec => []TypeOK
<1>1. ASSUME Inv PROVE TypeOK
  <2>1. \A ch \in Channels : capacity[ch] \in Limits /\ held[ch] \in 0..capacity[ch]
    BY <1>1, Capacities DEF Inv, SlotInv, Channels
  <2>2. Channels = DOMAIN held /\ Channels = 1..Len(capacity)
    BY <1>1 DEF Inv, SlotInv, Channels
  <2>3. slotOf \in [Caller -> {0} \cup Channels]
    BY <1>1, <2>2 DEF Inv, BranchInv
  <2> QED BY <1>1, <2>1, <2>2, <2>3 DEF Inv, BranchInv, StreakInv, TypeOK
<1> QED BY <1>1, Invariant, PTL

(* The slots taken of a channel are those of the calls in progress that    *)
(* captured it (semLimiter, acquire and its release), for every number of  *)
(* branches and every sequence of limits.                                  *)
THEOREM SlotsAccounted == Spec => []SlotsBalanced
<1>1. Inv => SlotsBalanced
  BY DEF Inv, SlotInv, SlotsBalanced, Channels
<1> QED BY <1>1, Invariant, PTL

(* From the failure that completes a streak an instance is skipped for the *)
(* whole cooldown (cooldown.go, observe and blocked).                      *)
THEOREM CooldownsHold == Spec => []CoolsDown
<1>1. Inv => CoolsDown
  BY CooldownAssumption DEF Inv, StreakInv, CoolsDown, Blocked
<1> QED BY <1>1, Invariant, PTL

(* No instance is skipped without a complete streak (cooldown.go).         *)
THEOREM NoIdleCooldown == Spec => []SkippedForAStreak
<1>1. Inv => SkippedForAStreak
  BY DEF Inv, StreakInv, SkippedForAStreak, Blocked
<1> QED BY <1>1, Invariant, PTL

(* observe and blocked together: a provider is taken out for a streak of   *)
(* failures, for the whole period and for nothing else.                    *)
THEOREM Cooldowns == Spec => []CooldownExact
BY CooldownsHold, NoIdleCooldown, PTL DEF CooldownExact

-----------------------------------------------------------------------------
(* Refinement.                                                             *)

LEMMA ObserveRefines ==
    ASSUME Inv, NEW p \in Provider, NEW b \in BOOLEAN, Observe(p, b)
    PROVE  B!Observe(p, b)
<1> USE CooldownAssumption DEF Inv, StreakInv
<1>1. CASE Threshold = 0
  BY <1>1 DEF Observe, B!Observe, B!breakerVars
<1>2. CASE Threshold > 0 /\ b
  BY <1>2 DEF Observe, FailsAfterSuccess, B!Observe, B!Clear
<1>3. CASE Threshold > 0 /\ ~b /\ Trips(p)
  BY <1>3 DEF Observe, Trips, B!Observe, B!Failure, B!Trips
<1>4. CASE Threshold > 0 /\ ~b /\ ~Trips(p)
  BY <1>4 DEF Observe, Trips, B!Observe, B!Failure, B!Trips
<1> QED BY <1>1, <1>2, <1>3, <1>4

LEMMA LookUpRefines ==
    ASSUME Inv, NEW p \in Provider, LookUp(p)
    PROVE  B!Clear(p) \/ UNCHANGED B!breakerVars
BY DEF Inv, StreakInv, LookUp, FailsAfterExpiry, B!Clear, B!breakerVars

LEMMA BreakerStep == Inv /\ [NextStep]_vars => [B!BreakerNext]_(B!breakerVars)
<1> SUFFICES ASSUME Inv, [NextStep]_vars PROVE [B!BreakerNext]_(B!breakerVars)
  OBVIOUS
<1>1. ASSUME NEW c \in Caller, Resolve(c) PROVE [B!BreakerNext]_(B!breakerVars)
  <2>1. PICK p \in Provider : LookUp(p)
    BY <1>1 DEF Resolve
  <2> QED BY <2>1, LookUpRefines DEF B!BreakerNext
<1>2. ASSUME NEW c \in Caller, Settle(c) PROVE [B!BreakerNext]_(B!breakerVars)
  <2>1. block[c].provider \in Provider /\ ok[c] \in BOOLEAN
    BY <1>2 DEF Settle, Inv, BranchInv
  <2>2. Observe(block[c].provider, ok[c])
    BY <1>2 DEF Settle
  <2>3. PICK p \in Provider : \E b \in BOOLEAN : Observe(p, b)
    BY <2>1, <2>2
  <2>4. B!Observe(p, TRUE) \/ B!Observe(p, FALSE)
    BY <2>3, ObserveRefines
  <2> QED BY <2>4 DEF B!BreakerNext
<1>3. CASE UNCHANGED <<fails, until>>
  BY <1>3 DEF B!breakerVars
<1>4. \/ \E c \in Caller : Resolve(c) \/ Settle(c)
      \/ UNCHANGED <<fails, until>>
  BY DEF NextStep, Capture, Acquire, GiveUp, Return, Resize, Time, Tick, EndOfTime, vars, cooldownVars
<1> QED BY <1>1, <1>2, <1>3, <1>4

(* cooldown.go with its clock does nothing that Breaker, on which the walk *)
(* is modelled, does not do.                                               *)
THEOREM BreakerRefined == Spec => ImplementsBreaker
<1>1. Init => B!BreakerInit
  BY DEF Init, CooldownInit, B!BreakerInit
<1> QED BY <1>1, BreakerStep, Invariant, PTL DEF Spec, ImplementsBreaker, B!BreakerSpec

=============================================================================
