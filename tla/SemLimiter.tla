----------------------------- MODULE SemLimiter -----------------------------
(***************************************************************************)
(* semLimiter of internal/engine/engine.go: a counting semaphore that is   *)
(* resized by replacing its channel.  Callers that wait on a channel, or   *)
(* hold a slot of it, stay with the channel they captured.                 *)
(***************************************************************************)
EXTENDS Integers, Sequences

CONSTANTS
    Limits,       \* values MAX_CONCURRENCY takes; 0 is unlimited
    MaxChannels   \* bound on the channels made

ASSUME LimitsAssumption ==
    Limits \subseteq Nat /\ Limits # {} /\ MaxChannels \in Nat \ {0}

VARIABLES
    capacity,     \* capacities of the channels made so far, the current one last
    held          \* slots taken of each

limiterVars == <<capacity, held>>

LimiterInit ==
    /\ \E l \in Limits : capacity = <<l>>
    /\ held = <<0>>

Current == Len(capacity)

(* setLimit: nothing happens unless the limit changes.                     *)
SetLimit(l) ==
    /\ l # capacity[Current] /\ Current < MaxChannels
    /\ capacity' = Append(capacity, l)
    /\ held' = Append(held, 0)

SlipOneTooMany(ch) == capacity[ch] = 0 \/ held[ch] <= capacity[ch]

(* A send on the channel does not block, or there is no channel.           *)
HasRoom(ch) == capacity[ch] = 0 \/ held[ch] < capacity[ch]

Taken(ch, n) == IF capacity[ch] = 0 THEN held ELSE [held EXCEPT ![ch] = @ + n]

TakeSlot(ch) ==
    /\ HasRoom(ch)
    /\ held' = Taken(ch, 1)
    /\ UNCHANGED capacity

SlipReleaseToCurrent(ch) == Current

(* The channel a release receives from: the one the slot was taken of.     *)
ReleasedTo(ch) == ch

ReleaseSlot(ch) ==
    /\ held' = Taken(ReleasedTo(ch), -1)
    /\ UNCHANGED capacity

=============================================================================
