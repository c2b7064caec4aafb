------------------------------- MODULE Breaker -------------------------------
(***************************************************************************)
(* The provider circuit breaker of internal/engine/cooldown.go, with time  *)
(* left out: a provider is open while it has an entry in `until`, whether  *)
(* or not that entry has expired.  Cooldown.tla gives the entries their    *)
(* clock and implements this module; FullChain.tla, whose requests only    *)
(* see an entry as live or expired, builds on it directly.                 *)
(***************************************************************************)
EXTENDS Integers

CONSTANTS
    Provider,    \* provider instance ids
    Threshold    \* PROVIDER_FAILURE_THRESHOLD; 0 disables the breaker

ASSUME ThresholdAssumption == Threshold \in Nat

VARIABLES
    fails,       \* consecutive failures counted for a provider
    open         \* providers with an `until` entry

breakerVars == <<fails, open>>

BreakerTypeOK ==
    /\ fails \in [Provider -> Nat]
    /\ open \subseteq Provider

BreakerInit ==
    /\ fails = [p \in Provider |-> 0]
    /\ open = {}

(* Delete both entries of p: a success, or a look-up of an expired entry.  *)
Clear(p) ==
    /\ fails' = [fails EXCEPT ![p] = 0]
    /\ open' = open \ {p}

(* This failure reaches the threshold.                                     *)
Trips(p) == fails[p] + 1 >= Threshold

Failure(p) ==
    IF Trips(p)
    THEN /\ fails' = [fails EXCEPT ![p] = 0]
         /\ open' = open \cup {p}
    ELSE /\ fails' = [fails EXCEPT ![p] = @ + 1]
         /\ UNCHANGED open

(* observe: one provider attempt ended.                                    *)
Observe(p, ok) ==
    IF Threshold = 0 THEN UNCHANGED breakerVars
    ELSE IF ok THEN Clear(p) ELSE Failure(p)

BreakerNext == \E p \in Provider : Clear(p) \/ Observe(p, TRUE) \/ Observe(p, FALSE)

BreakerSpec == BreakerInit /\ [][BreakerNext]_breakerVars

=============================================================================
