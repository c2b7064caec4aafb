---------------------------- MODULE ProviderGate ----------------------------
(***************************************************************************)
(* What stands between the branches of all requests and the providers: the *)
(* circuit breaker (Cooldown) that resolveNode asks once per block, and    *)
(* the concurrency limiter (SemLimiter) that every attempt of execNode     *)
(* waits for, resized by whichever request starts after MAX_CONCURRENCY    *)
(* was changed.  Between the breaker's answer and the report of the        *)
(* attempt's outcome any number of other branches may run; a retry does    *)
(* not ask the breaker again; giving up the wait for a slot is reported as *)
(* a failure of the provider.                                              *)
(***************************************************************************)
EXTENDS Cooldown, SemLimiter, FiniteSets

CONSTANTS
    Caller,       \* branches, of any requests
    Attempts      \* attempts a block may make (retries + 1)

ASSUME AttemptsAssumption == Attempts \in Nat \ {0}
ASSUME CallerAssumption == IsFiniteSet(Caller)

VARIABLES
    pc,           \* idle, capture, wait, call, settle
    block,        \* [provider, left]: the block a branch runs, attempts left
    slotOf,       \* channel captured by its latest acquire
    ok,           \* outcome of its latest attempt
    streak,       \* history: failures of a provider since it last succeeded
                  \* or its cooldown was found expired, counted to Threshold
    tripTime      \* history: when that streak reached the threshold

callerVars == <<pc, block, slotOf, ok>>
historyVars == <<streak, tripTime>>
vars == <<cooldownVars, limiterVars, callerVars, historyVars>>

NoBlock == [provider |-> "none", left |-> 0]

Init ==
    /\ CooldownInit /\ LimiterInit
    /\ pc = [c \in Caller |-> "idle"]
    /\ block = [c \in Caller |-> NoBlock]
    /\ slotOf = [c \in Caller |-> 0]
    /\ ok = [c \in Caller |-> FALSE]
    /\ streak = [p \in Provider |-> 0]
    /\ tripTime = [p \in Provider |-> 0]

Goto(c, label) == pc' = [pc EXCEPT ![c] = label]

(* resolveNode, for a provider that is not cooling down.                   *)
Resolve(c) ==
    /\ pc[c] = "idle"
    /\ \E p \in Provider :
          /\ LookUp(p)
          /\ streak' = IF until[p] = 0 THEN streak ELSE [streak EXCEPT ![p] = 0]
          /\ tripTime' = IF until[p] = 0 THEN tripTime ELSE [tripTime EXCEPT ![p] = 0]
          /\ block' = [block EXCEPT ![c] = [provider |-> p, left |-> Attempts]]
    /\ Goto(c, "capture")
    /\ UNCHANGED <<limiterVars, slotOf, ok>>

(* acquire reads the limiter's channel under its lock...                   *)
Capture(c) ==
    /\ pc[c] = "capture"
    /\ slotOf' = [slotOf EXCEPT ![c] = Current]
    /\ Goto(c, "wait")
    /\ UNCHANGED <<cooldownVars, limiterVars, block, ok, historyVars>>

(* ... and waits on it without.                                            *)
Acquire(c) ==
    /\ pc[c] = "wait"
    /\ TakeSlot(slotOf[c])
    /\ Goto(c, "call")
    /\ UNCHANGED <<cooldownVars, block, slotOf, ok, historyVars>>

(* The block's timeout fires first.                                        *)
GiveUp(c) ==
    /\ pc[c] = "wait"
    /\ ok' = [ok EXCEPT ![c] = FALSE]
    /\ slotOf' = [slotOf EXCEPT ![c] = 0]
    /\ Goto(c, "settle")
    /\ UNCHANGED <<cooldownVars, limiterVars, block, historyVars>>

(* Search returns, at the latest when its context times out.               *)
Return(c) ==
    /\ pc[c] = "call"
    /\ \E b \in BOOLEAN : ok' = [ok EXCEPT ![c] = b]
    /\ ReleaseSlot(slotOf[c])
    /\ slotOf' = [slotOf EXCEPT ![c] = 0]
    /\ Goto(c, "settle")
    /\ UNCHANGED <<cooldownVars, block, historyVars>>

(* observe, then another attempt of the block or the end of it (a success  *)
(* with rows, a permanent failure, a spent budget: always possible).       *)
Settle(c) ==
    LET p == block[c].provider IN
    /\ pc[c] = "settle"
    /\ Observe(p, ok[c])
    /\ streak' = [streak EXCEPT ![p] = IF ok[c] THEN 0 ELSE IF @ < Threshold THEN @ + 1 ELSE @]
    /\ tripTime' = [tripTime EXCEPT ![p] =
                       IF ok[c] THEN 0 ELSE IF streak[p] + 1 = Threshold THEN now ELSE @]
    /\ ok' = [ok EXCEPT ![c] = FALSE]
    /\ \/ /\ block[c].left > 1
          /\ block' = [block EXCEPT ![c] = [provider |-> p, left |-> @.left - 1]]
          /\ Goto(c, "capture")
       \/ /\ block' = [block EXCEPT ![c] = NoBlock]
          /\ Goto(c, "idle")
    /\ UNCHANGED <<limiterVars, slotOf>>

Resize ==
    /\ \E l \in Limits : SetLimit(l)
    /\ UNCHANGED <<cooldownVars, callerVars, historyVars>>

Time == Tick /\ UNCHANGED <<limiterVars, callerVars, historyVars>>

(* The model's clock has run out.                                          *)
EndOfTime == now = MaxTime /\ UNCHANGED vars

NextStep ==
    \/ \E c \in Caller :
          Resolve(c) \/ Capture(c) \/ Acquire(c) \/ GiveUp(c) \/ Return(c) \/ Settle(c)
    \/ Resize \/ Time \/ EndOfTime

(* Calls return, because they have a timeout.  A channel serves its        *)
(* senders in the order they came, hence the strong fairness of Acquire.   *)
(* That a wait times out is not assumed.                                   *)
Fairness == \A c \in Caller : WF_vars(Return(c)) /\ SF_vars(Acquire(c))

Spec == Init /\ [][NextStep]_vars /\ Fairness

-----------------------------------------------------------------------------
(* Properties.                                                             *)

Channels == DOMAIN capacity

TypeOK ==
    /\ now \in 0..MaxTime /\ fails \in [Provider -> Nat] /\ until \in [Provider -> Nat]
    /\ Channels = DOMAIN held
    /\ \A ch \in Channels : capacity[ch] \in Limits /\ held[ch] \in 0..capacity[ch]
    /\ pc \in [Caller -> {"idle", "capture", "wait", "call", "settle"}]
    /\ slotOf \in [Caller -> {0} \cup Channels] /\ ok \in [Caller -> BOOLEAN]

(* The calls in progress on a slot of a channel.                           *)
Holders(ch) == {c \in Caller : pc[c] = "call" /\ slotOf[c] = ch}

(* The slots taken of a channel, retired ones included, are exactly those  *)
(* of the calls in progress that captured it: no resize, time-out or late  *)
(* release loses a slot or frees somebody else's.                          *)
SlotsBalanced ==
    \A ch \in Channels : capacity[ch] > 0 =>
        held[ch] = Cardinality(Holders(ch))

(* cooldown.go: "After `threshold` consecutive failed attempts an instance *)
(* is skipped for `cooldown`": from the attempt that completes the streak, *)
(* for the whole period, whatever the branches that were already past the  *)
(* breaker report meanwhile, unless one of them reports a success.         *)
CoolsDown ==
    \A p \in Provider :
        Threshold > 0 /\ streak[p] >= Threshold /\ now < tripTime[p] + Period => Blocked(p)

(* A provider is never skipped without such a streak: "a success clears    *)
(* the counter".                                                           *)
SkippedForAStreak == \A p \in Provider : Blocked(p) => streak[p] >= Threshold

(* A streak of failures, and nothing else, takes a provider out, and for   *)
(* the whole period.                                                       *)
CooldownExact == CoolsDown /\ SkippedForAStreak

(* With time hidden this is the breaker that the walks are modelled with.  *)
B == INSTANCE Breaker WITH open <- {p \in Provider : until[p] # 0}
ImplementsBreaker == B!BreakerSpec

(* A branch waiting for a slot gets one even if the limiter is resized     *)
(* under it and its wait has no timeout.                                   *)
WaiterServed == \A c \in Caller : (pc[c] = "wait") ~> (pc[c] # "wait")

=============================================================================
