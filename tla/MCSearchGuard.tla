---------------------------- MODULE MCSearchGuard ----------------------------
(* A small instance of SearchGuard: one user with one key, whose rolling  *)
(* quota is large enough for hits that share an instant to matter.        *)
EXTENDS SearchGuard, TLC

CONSTANTS c1, c2, k1, i1, i2

MCCallers == {c1, c2}
MCKeys == {k1}
MCInstants == {i1, i2}
MCKeyOf == [c \in MCCallers |-> k1]
MCQuotas == {[requests |-> 1, period |-> "calendar"], [requests |-> 2, period |-> "rolling"],
             [requests |-> 0, period |-> "rolling"]}

(* The callers are interchangeable, as they use one key, and the instants. *)
Perms == Permutations(MCCallers) \cup Permutations(MCInstants)
=============================================================================
