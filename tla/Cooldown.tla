------------------------------ MODULE Cooldown ------------------------------
(***************************************************************************)
(* providerCooldowns of internal/engine/cooldown.go with its clock: the    *)
(* circuit breaker that Breaker describes without time.  Each operation is *)
(* one critical section of its mutex.                                      *)
(*                                                                         *)
(* A definition named Slip... is a plausible mistake in the definition     *)
(* after it; nothing uses it.  The runs are required to catch each one.    *)
(***************************************************************************)
EXTENDS Integers

CONSTANTS
    Provider,    \* provider instance ids
    Threshold,   \* PROVIDER_FAILURE_THRESHOLD; 0 disables the breaker
    Period,      \* ticks of PROVIDER_COOLDOWN_SECONDS
    MaxTime      \* bound on the clock

ASSUME CooldownAssumption ==
    Threshold \in Nat /\ Period \in Nat \ {0} /\ MaxTime \in Nat

VARIABLES
    now,         \* the clock
    fails,       \* consecutive failures counted for a provider
    until        \* when its cooldown ends, 0 if it has none

cooldownVars == <<now, fails, until>>

CooldownInit ==
    /\ now = 0
    /\ fails = [p \in Provider |-> 0]
    /\ until = [p \in Provider |-> 0]

(* What blocked answers.                                                   *)
Blocked(p) == now < until[p]

SlipExpiryKeepsFails(p) == fails

FailsAfterExpiry(p) == [fails EXCEPT ![p] = 0]

(* blocked, for a provider that is not: an expired entry is deleted.       *)
LookUp(p) ==
    /\ ~Blocked(p)
    /\ IF until[p] = 0 THEN UNCHANGED <<fails, until>>
       ELSE /\ fails' = FailsAfterExpiry(p)
            /\ until' = [until EXCEPT ![p] = 0]
    /\ UNCHANGED now

SlipTripsLate(p) == fails[p] + 1 > Threshold

Trips(p) == fails[p] + 1 >= Threshold

SlipSuccessKeepsFails(p) == fails

FailsAfterSuccess(p) == [fails EXCEPT ![p] = 0]

(* observe.                                                                *)
Observe(p, ok) ==
    /\ CASE Threshold = 0 -> UNCHANGED <<fails, until>>
         [] Threshold > 0 /\ ok ->
              /\ fails' = FailsAfterSuccess(p)
              /\ until' = [until EXCEPT ![p] = 0]
         [] Threshold > 0 /\ ~ok /\ Trips(p) ->
              /\ fails' = [fails EXCEPT ![p] = 0]
              /\ until' = [until EXCEPT ![p] = now + Period]
         [] OTHER ->
              /\ fails' = [fails EXCEPT ![p] = @ + 1]
              /\ UNCHANGED until
    /\ UNCHANGED now

Tick ==
    /\ now < MaxTime
    /\ now' = now + 1
    /\ UNCHANGED <<fails, until>>

=============================================================================
