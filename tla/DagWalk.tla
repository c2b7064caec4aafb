------------------------------ MODULE DagWalk ------------------------------
(***************************************************************************)
(* What a full-chain request promises its chain, without waves, counters,  *)
(* goroutines, retries or providers: blocks run in groups, each block at   *)
(* most once and only after every block that leads to it along a neutral   *)
(* edge; the request ends once, and early only when its budget is gone.    *)
(***************************************************************************)
EXTENDS ChainPlan

CONSTANT Chains

VARIABLES
    chain,    \* the request's chain
    walk,     \* the blocks neutral edges connect to its start
    ran,      \* blocks that have finished
    over,     \* the request is finalized
    budget    \* attempts are left

dagVars == <<chain, walk, ran, over, budget>>

Precedes(c, j, k) ==
    \E i \in NeutralEdges(c) : c.edges[i].from = j /\ c.edges[i].to = k

Init ==
    /\ chain \in Chains
    /\ walk = Reachable(chain)
    /\ ran = {}
    /\ over = FALSE
    /\ budget = TRUE

(* A group of blocks finishes; what precedes them had finished before.     *)
Run ==
    \E S \in SUBSET (walk \ ran) :
        /\ S # {}
        /\ \A k \in S : k = Start(chain) \/ \A j \in walk : Precedes(chain, j, k) => j \in ran
        /\ ran' = ran \cup S
        /\ ~over
        /\ UNCHANGED <<chain, walk, over, budget>>

(* Attempts are only ever used up, and none after the end.                 *)
Spend ==
    /\ budget /\ ~over
    /\ budget' = FALSE
    /\ UNCHANGED <<chain, walk, ran, over>>

End ==
    /\ ~over
    /\ ran = walk \/ ~budget
    /\ over' = TRUE
    /\ UNCHANGED <<chain, walk, ran, budget>>

DagNext == Run \/ Spend \/ End

Spec == Init /\ [][DagNext]_dagVars

=============================================================================
