------------------------------ MODULE ChainPlan ------------------------------
(***************************************************************************)
(* The graph of a search chain as internal/engine/plan.go indexes it and   *)
(* internal/engine/validate.go checks it.  A chain is a record             *)
(*                                                                         *)
(*   order    sequence of block keys (the store returns nodes by key)      *)
(*   kind     key -> "start" | "join" | "provider"                         *)
(*   isStart  set of keys carrying the legacy is_start flag                *)
(*   mode     "full_chain" | "first_success"                               *)
(*   edges    sequence of [from, to, cond], in the order the store gave    *)
(*   provider, retries, answer, sparse, treatEmpty, policy: key -> setting *)
(*                                                                         *)
(* Two edges may join the same blocks, so an edge is identified by its     *)
(* index in edges.  Nothing here is recursive: reachability and acyclicity *)
(* are stated over sets of blocks, as the provers need them.               *)
(*                                                                         *)
(* A definition named Slip... is a plausible mistake in the definition     *)
(* after it; nothing uses it.  The runs are required to catch each one.    *)
(***************************************************************************)
EXTENDS Integers, Sequences, FiniteSets

(* The nil *store.ChainNode that ends a walk.                              *)
NoKey == "nil"

(* Edge conditions that carry connectivity rather than an outcome.         *)
Neutral == {"next", "any", ""}

Keys(c) == {c.order[i] : i \in DOMAIN c.order}

(* Position of a block in plan order.                                      *)
Pos(c, k) == CHOOSE i \in DOMAIN c.order : c.order[i] = k

(* The first block of plan order among S, or NoKey.                        *)
FirstInOrder(c, S) ==
    IF S = {} THEN NoKey ELSE CHOOSE k \in S : \A j \in S : Pos(c, k) <= Pos(c, j)

(* The last block of plan order among S, or NoKey.                         *)
LastInOrder(c, S) ==
    IF S = {} THEN NoKey ELSE CHOOSE k \in S : \A j \in S : Pos(c, j) <= Pos(c, k)

(* What the walkers rely on in any chain: blocks have keys, edges join      *)
(* them, settings have their vocabulary.                                   *)
Conditions == Neutral \cup {"success", "empty", "fail"}
WellFormed(c) ==
    /\ c.order \in Seq(Keys(c))
    /\ NoKey \notin Keys(c)
    /\ c.kind \in [Keys(c) -> {"start", "join", "provider"}]
    /\ c.retries \in [Keys(c) -> Nat]
    /\ c.answer \in [Keys(c) -> BOOLEAN]
    /\ c.sparse \in [Keys(c) -> BOOLEAN]
    /\ c.treatEmpty \in [Keys(c) -> BOOLEAN]
    /\ c.edges \in Seq([from : Keys(c), to : Keys(c), cond : Conditions])

StartBlocks(c) == {k \in Keys(c) : c.kind[k] = "start"}
ProviderBlocks(c) == {k \in Keys(c) : c.kind[k] = "provider"}
HasStartBlock(c) == StartBlocks(c) # {}

(* BuildPlan: an explicit Start block wins over the is_start flag.         *)
Start(c) ==
    IF HasStartBlock(c)
    THEN FirstInOrder(c, StartBlocks(c))
    ELSE FirstInOrder(c, Keys(c) \cap c.isStart)

-----------------------------------------------------------------------------
(* Connectivity.  E is a set of edge indices.                              *)

AllEdges(c) == DOMAIN c.edges
NeutralEdges(c) == {i \in DOMAIN c.edges : c.edges[i].cond \in Neutral}

(* S contains every block an edge of E leads to from S.                    *)
Closed(c, E, S) == \A i \in E : c.edges[i].from \in S => c.edges[i].to \in S

(* The blocks reachable from k along E: the least closed set with k.       *)
ReachableFrom(c, E, k) ==
    {n \in Keys(c) : \A S \in SUBSET Keys(c) : (k \in S /\ Closed(c, E, S)) => n \in S}

(* The blocks a full-chain request walks.                                  *)
Reachable(c) == ReachableFrom(c, NeutralEdges(c), Start(c))

(* No cycle: every non-empty set of blocks has one no edge of the set      *)
(* enters.                                                                 *)
Acyclic(c, E) ==
    \A S \in (SUBSET Keys(c)) \ {{}} :
        \E n \in S : \A i \in E : c.edges[i].to = n => c.edges[i].from \notin S

-----------------------------------------------------------------------------
(* Plan.Next and Plan.NextInFullChain: the linear walks.                   *)

EdgesInto(c, E, k) == {i \in E : c.edges[i].to = k}
EdgesOutOf(c, E, k) == {i \in E : c.edges[i].from = k}

(* The edges of E that have one of these conditions.                       *)
Marked(c, E, conds) == {i \in E : c.edges[i].cond \in conds}

PolicyFor(c, k, outcome) ==
    IF c.policy[k][outcome] # "" THEN c.policy[k][outcome]
    ELSE IF outcome = "success" THEN "stop" ELSE "next"

(* Where the first edge of E, in the store's order, leads.                 *)
FirstEdge(E) == CHOOSE i \in E : \A j \in E : i <= j
TargetOfFirst(c, E) == IF E = {} THEN NoKey ELSE c.edges[FirstEdge(E)].to

SlipOnlyMatching(c, k, outcome) ==
    LET out == EdgesOutOf(c, AllEdges(c), k)
    IN  IF PolicyFor(c, k, outcome) = "stop" THEN NoKey
        ELSE TargetOfFirst(c, Marked(c, out, Neutral \cup {outcome}))

(* An edge of the outcome, else a neutral one, else any.                   *)
Next(c, k, outcome) ==
    LET out     == EdgesOutOf(c, AllEdges(c), k)
        exact   == Marked(c, out, {outcome})
        neutral == Marked(c, out, Neutral)
    IN  CASE PolicyFor(c, k, outcome) = "stop" -> NoKey
          [] PolicyFor(c, k, outcome) = "edge" -> TargetOfFirst(c, exact \cup neutral)
          [] OTHER -> TargetOfFirst(c, IF exact # {} THEN exact
                                       ELSE IF neutral # {} THEN neutral ELSE out)

SlipNoAdvance(c, k) == k

NextInFullChain(c, k) == TargetOfFirst(c, EdgesOutOf(c, NeutralEdges(c), k))

-----------------------------------------------------------------------------
(* ValidateChain: the conditions that reject a draft.  The checks of a     *)
(* field's vocabulary (kind, mode, policy, condition, duplicate keys) are  *)
(* the types of the record.                                                *)

Entries(c) == StartBlocks(c) \cup (Keys(c) \cap c.isStart)

ValidBlocks(c) ==
    /\ ProviderBlocks(c) # {}
    /\ \A k \in Keys(c) : c.retries[k] \in 0..10
    /\ \A k \in Keys(c) : c.answer[k] => c.kind[k] = "provider" /\ k \notin Entries(c)

ValidEdges(c) ==
    /\ \A i \in AllEdges(c) : {c.edges[i].from, c.edges[i].to} \subseteq Keys(c)
    /\ \A k \in StartBlocks(c) : EdgesOutOf(c, NeutralEdges(c), k) # {}
    /\ \A k \in Keys(c) : c.kind[k] = "join" =>
          /\ EdgesInto(c, AllEdges(c), k) # {}
          /\ c.mode = "full_chain" => EdgesInto(c, NeutralEdges(c), k) # {}

ValidChain(c) ==
    /\ Cardinality(Entries(c)) = 1
    /\ ValidBlocks(c)
    /\ ValidEdges(c)
    /\ Acyclic(c, AllEdges(c))
    /\ \A e \in Entries(c) : ReachableFrom(c, AllEdges(c), e) = Keys(c)

=============================================================================
