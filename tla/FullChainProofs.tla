-------------------------- MODULE FullChainProofs --------------------------
(***************************************************************************)
(* Proofs about FullChain for every set of validated chains, budget and    *)
(* breaker threshold.                                                      *)
(*                                                                         *)
(* Part 1, types                                                           *)
(*   TypeCorrect         the type invariant                                *)
(* Part 2, the walk, all from WaveInv, which relates the in-degree         *)
(* counters, the waves and the goroutines                                  *)
(*   Rendezvous          no block starts before its predecessors are done  *)
(*   InDegrees           the in-degree counters count what is left         *)
(*   Completeness        with budget to spare every connected block runs   *)
(* Part 3, the abstract walk and the answer                                *)
(*   Implements          FullChain implements DagWalk                      *)
(*   LastAnswerWins      the answer of the request is the last one in plan *)
(*                       order, whatever the order of the writes           *)
(* Part 4, what is recorded of the walk                                    *)
(*   ChronologicalTrace  stored steps are numbered in the walk's order     *)
(*   RowsAndOutcome      merged rows are the blocks' rows, and the outcome *)
(*                       is backed by them                                 *)
(*   Recorded            RecordSound, all of it                            *)
(*   BudgetHolds         no attempt beyond the budget, and extra steps     *)
(*                       charged at most once per block beyond it          *)
(***************************************************************************)
EXTENDS FullChain, FiniteSetTheorems, WellFoundedInduction, TLAPS

(* Part 1: types                                                           *)
-----------------------------------------------------------------------------
(* Plan order.                                                             *)

(* The position of a block is an index of the plan order.                  *)
LEMMA PosIsIndex ==
    ASSUME NEW c, NEW k \in Keys(c)
    PROVE  Pos(c, k) \in DOMAIN c.order /\ c.order[Pos(c, k)] = k
BY DEF Pos, Keys

(* A non-empty set of blocks has a last one in plan order: LastInOrder     *)
(* picks a block of the set.                                               *)
LEMMA LastExists ==
    ASSUME NEW c, c.order \in Seq(Keys(c)), NEW S, S \subseteq Keys(c), S # {}
    PROVE  LastInOrder(c, S) \in S
<1> DEFINE FromEnd(k) == Len(c.order) - Pos(c, k)
           Below(k) == 1..FromEnd(k)
           T == {Below(k) : k \in S}
<1>1. \A k \in S : Pos(c, k) \in 1..Len(c.order) /\ FromEnd(k) \in Nat
  BY PosIsIndex
<1>2. T \subseteq FiniteSubsetsOf(Nat) /\ T # {}
  <2>1. ASSUME NEW k \in S PROVE Below(k) \in SUBSET Nat /\ IsFiniteSet(Below(k))
    <3>1. FromEnd(k) \in Int
      BY <1>1
    <3> HIDE DEF FromEnd
    <3> QED BY <3>1, FS_Interval
  <2> QED BY <2>1 DEF FiniteSubsetsOf
<1>3. PICK x \in T : \A y \in T : <<y, x>> \notin StrictSubsetOrdering(Nat)
  BY <1>2, FS_StrictSubsetOrderingWellFounded, WFMin
<1>4. PICK k \in S : x = Below(k)
  OBVIOUS
<1>5. \A j \in S : Pos(c, j) <= Pos(c, k)
  <2> SUFFICES ASSUME NEW j \in S, Pos(c, j) > Pos(c, k)
               PROVE  FALSE
    BY <1>1
  <2>1. FromEnd(j) < FromEnd(k)
    BY <1>1
  <2>2. Below(j) \subseteq Below(k) /\ FromEnd(k) \in Below(k) \ Below(j)
    BY <2>1, <1>1
  <2>3. Below(j) \in T /\ <<Below(j), x>> \in StrictSubsetOrdering(Nat)
    BY <2>2, <1>2, <1>4 DEF StrictSubsetOrdering, FiniteSubsetsOf
  <2> QED BY <2>3, <1>3
<1> QED BY <1>5 DEF LastInOrder
-----------------------------------------------------------------------------
(* Blocks and edges are finite, and the walk contains its start.           *)

(* The chain of a request never changes.                                   *)
ChainFixed == chain \in Chains /\ reachable = Reachable(chain)

LEMMA FiniteKeys ==
    ASSUME NEW c \in Chains
    PROVE  IsFiniteSet(Keys(c))
<1>1. c.order \in Seq(Keys(c))
  BY ChainsAssumption DEF WellFormed
<1>2. c.order \in Surjection(1..Len(c.order), Keys(c))
  BY <1>1 DEF Surjection, Keys
<1>3. IsFiniteSet(1..Len(c.order))
  BY <1>1, FS_Interval
<1> QED BY <1>2, <1>3, FS_Surjection

LEMMA FiniteEdges ==
    ASSUME NEW c \in Chains
    PROVE  IsFiniteSet(NeutralEdges(c))
<1> DEFINE Edge == [from : Keys(c), to : Keys(c), cond : Conditions]
<1>1. c.edges \in Seq(Edge)
  BY ChainsAssumption DEF WellFormed
<1> HIDE DEF Edge
<1>2. DOMAIN c.edges = 1..Len(c.edges) /\ Len(c.edges) \in Nat
  BY <1>1
<1>3. IsFiniteSet(DOMAIN c.edges)
  BY <1>2, FS_Interval
<1> QED BY <1>3, FS_Subset DEF NeutralEdges

LEMMA ReachableBlocks ==
    ASSUME NEW c \in Chains
    PROVE  /\ Reachable(c) \subseteq Keys(c)
           /\ Start(c) \in Reachable(c)
           /\ NoKey \notin Keys(c)
           /\ IsFiniteSet(Reachable(c))
<1>1. Start(c) \in Keys(c) /\ NoKey \notin Keys(c)
  BY ChainsAssumption DEF WellFormed
<1>2. Reachable(c) \subseteq Keys(c) /\ Start(c) \in Reachable(c)
  BY <1>1 DEF Reachable, ReachableFrom
<1> QED BY <1>1, <1>2, FiniteKeys, FS_Subset

-----------------------------------------------------------------------------
(* Type correctness.                                                       *)

LEMMA BreakerType ==
    ASSUME BreakerTypeOK, NEW p \in Provider
    PROVE  /\ Clear(p) => BreakerTypeOK'
           /\ Failure(p) => BreakerTypeOK'
           /\ UNCHANGED breakerVars => BreakerTypeOK'
BY DEF BreakerTypeOK, Clear, Failure, breakerVars

LEMMA ObserveType ==
    ASSUME BreakerTypeOK, NEW p \in Provider, NEW ok \in BOOLEAN, Observe(p, ok)
    PROVE  BreakerTypeOK'
BY BreakerType DEF Observe

LEMMA StatusType ==
    ASSUME NEW k, NEW r
    PROVE  BlockStatus(k, r) \in {"ok", "empty", "fail", "skip"}
BY DEF BlockStatus

(* Every block of the walk has a provider, whether it calls it or not.     *)
LEMMA ProviderOfBlock ==
    ASSUME ChainFixed, NEW k \in reachable
    PROVE  chain.provider[k] \in Provider
BY ChainsAssumption, ReachableBlocks DEF ChainFixed, WellFormed

(* Sets of blocks of the walk can be counted.                              *)
LEMMA BlockCount ==
    ASSUME ChainFixed, NEW S \in SUBSET reachable
    PROVE  IsFiniteSet(S) /\ Cardinality(S) \in Nat
BY ReachableBlocks, FS_Subset, FS_CardinalityType DEF ChainFixed

(* Trace indices stay numbers.                                             *)
LEMMA WaveIndices ==
    ASSUME ChainFixed, nextIdx \in Nat
    PROVE  NextIdx \in Nat /\ \A k \in reachable : IdxInWave(k) \in Nat
<1>1. WaveProviders \in SUBSET reachable
  BY DEF WaveProviders, Ready
<1>2. Cardinality(WaveProviders) \in Nat
  BY <1>1, BlockCount
<1>3. ASSUME NEW k \in reachable
      PROVE  Cardinality({j \in WaveProviders : Pos(chain, j) < Pos(chain, k)}) \in Nat
  <2>1. {j \in WaveProviders : Pos(chain, j) < Pos(chain, k)} \in SUBSET reachable
    BY <1>1
  <2> QED BY <2>1, BlockCount
<1> QED BY <1>2, <1>3 DEF NextIdx, IdxInWave

LEMMA FinalAnswerType ==
    ASSUME WalkTypeOK, SharedTypeOK, ChainFixed
    PROVE  FinalAnswer \in reachable \cup {NoKey}
<1>1. Answered \subseteq Keys(chain) /\ Answered \subseteq reachable
  BY DEF Answered, Reported, WalkTypeOK
<1>2. chain.order \in Seq(Keys(chain))
  BY ChainsAssumption DEF ChainFixed, WellFormed
<1>3. Answered # {} => LastInOrder(chain, Answered) \in Answered
  BY <1>1, <1>2, LastExists
<1> QED BY <1>1, <1>3 DEF FinalAnswer, SharedTypeOK

(* Counting the edges into a block never fails.                            *)
LEMMA EdgeCount ==
    ASSUME ChainFixed, NEW k, NEW S
    PROVE  IsFiniteSet(InEdgesFrom(k, S)) /\ Cardinality(InEdgesFrom(k, S)) \in Nat
<1>1. IsFiniteSet(InEdgesFrom(k, S))
  BY FiniteEdges, FS_Subset DEF InEdgesFrom, ChainFixed
<1> QED BY <1>1, FS_CardinalityType

LEMMA ChainStep ==
    ASSUME ChainFixed, [NextStep]_vars
    PROVE  ChainFixed' /\ UNCHANGED chainVars
<1>1. UNCHANGED chainVars
  BY DEF NextStep, Walk, vars, StartWave, EndWave, Finish, Branch, PassLogical, Resolve,
         TakeStep, OutOfBudget, Call, Settle, Cancel, OtherRequest, Terminated
<1> QED BY <1>1 DEF ChainFixed, chainVars

LEMMA TypeInit == Init => TypeOK /\ ChainFixed
<1> SUFFICES ASSUME Init PROVE TypeOK /\ ChainFixed
  OBVIOUS
<1>1. ChainFixed /\ reachable \subseteq Keys(chain)
  BY ReachableBlocks DEF Init, ChainFixed
<1>2. indeg \in [reachable -> Int]
  <2>1. \A k \in reachable : Cardinality(InEdgesFrom(k, reachable)) \in Int
    BY <1>1, EdgeCount
  <2>2. indeg = InitIndeg
    BY DEF Init
  <2> QED BY <2>1, <2>2 DEF InitIndeg
<1>3. BreakerTypeOK
  BY DEF Init, BreakerInit, BreakerTypeOK
<1>4. WalkTypeOK
  <2>1. idx = [k \in reachable |-> -1] /\ nextIdx = 0 /\ phase = "walk" /\ wave = {} /\ done = {}
    BY DEF Init
  <2> QED BY <1>1, <1>2, <2>1 DEF WalkTypeOK
<1>5. BranchTypeOK
  BY DEF Init, BranchTypeOK, ResultKinds
<1>6. SharedTypeOK
  BY DEF Init, SharedTypeOK
<1> QED BY <1>1, <1>3, <1>4, <1>5, <1>6 DEF TypeOK

(* The walk's own variables: only StartWave, EndWave and Finish write them.*)
LEMMA WalkTypeStep ==
    ASSUME WalkTypeOK, ChainFixed, [NextStep]_vars
    PROVE  WalkTypeOK'
<1>1. UNCHANGED chainVars
  BY ChainStep
<1>2. CASE StartWave
  <2>1. nextIdx' \in Nat /\ \A k \in reachable : IdxInWave(k) \in Int
    BY <1>2, WaveIndices DEF StartWave, WalkTypeOK
  <2> QED BY <1>1, <1>2, <2>1 DEF StartWave, Ready, WalkTypeOK, chainVars
<1>3. CASE EndWave
  <2>1. \A k \in reachable : indeg[k] - Cardinality(InEdgesFrom(k, wave)) \in Int
    BY EdgeCount DEF WalkTypeOK
  <2>2. indeg' \in [reachable -> Int]
    BY <1>3, <2>1 DEF EndWave
  <2> QED BY <1>1, <1>3, <2>2 DEF EndWave, WalkTypeOK, chainVars
<1>4. CASE Finish
  BY <1>1, <1>4 DEF Finish, WalkTypeOK, chainVars
<1>5. CASE UNCHANGED walkVars
  BY <1>1, <1>5 DEF WalkTypeOK, chainVars, walkVars
<1> QED BY <1>2, <1>3, <1>4, <1>5
        DEF NextStep, Walk, vars, Branch, PassLogical, Resolve, TakeStep, OutOfBudget, Call,
            Settle, Cancel, OtherRequest, Terminated

(* A branch writes only its own entries.                                   *)
LEMMA BranchTypeStep ==
    ASSUME BranchTypeOK, ChainFixed, [NextStep]_vars
    PROVE  BranchTypeOK'
<1>1. reachable' = reachable
  BY ChainStep DEF chainVars
<1>2. CASE StartWave
  BY <1>1, <1>2 DEF StartWave, BranchTypeOK
<1>3. ASSUME NEW k \in reachable, Branch(k)
      PROVE  BranchTypeOK'
  <2>1. CASE PassLogical(k)
    <3>1. Return(k, "ok") /\ UNCHANGED <<attempt, result, willSleep>>
      BY <2>1, Zenon DEF PassLogical
    <3> QED BY <1>1, <3>1 DEF Return, BranchTypeOK
  <2>2. CASE Resolve(k)
    BY <1>1, <2>2 DEF Resolve, Return, BranchTypeOK
  <2>3. CASE TakeStep(k)
    <3>1. /\ attempt' = [attempt EXCEPT ![k] = attempt[k] + 1]
          /\ pc' = [pc EXCEPT ![k] = "call"]
          /\ UNCHANGED <<result, willSleep, status>>
      BY <2>3, Zenon DEF TakeStep
    <3>2. attempt \in [reachable -> Nat]
      BY Zenon DEF BranchTypeOK
    <3>3. attempt' \in [reachable -> Nat]
      BY <3>1, <3>2
    <3> QED BY <1>1, <3>1, <3>3 DEF BranchTypeOK
  <2>4. CASE OutOfBudget(k)
    BY <1>1, <2>4, StatusType DEF OutOfBudget, Return, BranchTypeOK
  <2>5. CASE Call(k)
    <3>1. PICK r \in Results(k) :
             /\ result' = [result EXCEPT ![k] = r]
             /\ willSleep' = [willSleep EXCEPT ![k] =
                   /\ r = "fail"
                   /\ attempt[k] <= chain.retries[k]
                   /\ HasBudget]
      BY <2>5, Zenon DEF Call
    <3>2. result' \in [reachable -> ResultKinds \cup {"none"}]
      BY <3>1 DEF BranchTypeOK, Results, ResultKinds
    <3>3. willSleep' \in [reachable -> BOOLEAN]
      BY <3>1, Zenon DEF BranchTypeOK
    <3> QED BY <1>1, <2>5, <3>2, <3>3 DEF Call, BranchTypeOK
  <2>6. CASE Settle(k)
    <3>1. \/ pc' = [pc EXCEPT ![k] = "take"] /\ UNCHANGED status
          \/ Return(k, BlockStatus(k, result[k]))
      BY <2>6, Zenon DEF Settle
    <3>2. UNCHANGED <<attempt, result, willSleep>>
      BY <2>6, Zenon DEF Settle
    <3>3. CASE pc' = [pc EXCEPT ![k] = "take"] /\ UNCHANGED status
      BY <1>1, <3>2, <3>3 DEF BranchTypeOK
    <3>4. CASE Return(k, BlockStatus(k, result[k]))
      BY <1>1, <3>2, <3>4, StatusType DEF Return, BranchTypeOK
    <3> QED BY <3>1, <3>3, <3>4
  <2> QED BY <1>3, <2>1, <2>2, <2>3, <2>4, <2>5, <2>6 DEF Branch
<1>4. CASE UNCHANGED branchVars
  BY <1>1, <1>4 DEF BranchTypeOK, branchVars
<1> QED BY <1>2, <1>3, <1>4
        DEF NextStep, Walk, vars, EndWave, Finish, Cancel, OtherRequest, Terminated

(* What the branches share.                                                *)
LEMMA SharedTypeStep ==
    ASSUME WalkTypeOK, SharedTypeOK, ChainFixed, [NextStep]_vars
    PROVE  SharedTypeOK'
<1>1. reachable' = reachable
  BY ChainStep DEF chainVars
<1>2. ASSUME NEW k \in reachable, TakeStep(k)
      PROVE  SharedTypeOK'
  BY <1>1, <1>2 DEF TakeStep, SharedTypeOK
<1>3. ASSUME NEW k \in reachable, Call(k)
      PROVE  SharedTypeOK'
  <2>1. answer' \in {k, answer}
    BY <1>3 DEF Call
  <2> QED BY <1>1, <1>3, <2>1 DEF Call, SharedTypeOK
<1>4. ASSUME NEW k \in reachable, Settle(k)
      PROVE  SharedTypeOK'
  <2>1. \E extra \in 0..MaxExtra : stepNo' = stepNo + extra
    BY <1>4, Zenon DEF Settle
  <2>2. dead' \in {dead, dead \cup {chain.provider[k]}}
    BY <1>4, Zenon DEF Settle
  <2>3. UNCHANGED <<cancelled, answer, outcome>>
    BY <1>4, Zenon DEF Settle
  <2>4. stepNo' \in Nat
    BY <2>1, BudgetAssumption DEF SharedTypeOK
  <2>5. dead' \subseteq Provider
    BY <2>2, ProviderOfBlock DEF SharedTypeOK
  <2> QED BY <1>1, <2>3, <2>4, <2>5 DEF SharedTypeOK
<1>5. CASE Finish
  <2>1. outcome' \in [status : {"running", "ok", "empty", "fail"}, rows : SUBSET reachable]
    BY <1>5 DEF Finish, FinalStatus, WalkStatus, Merged, Reported
  <2> QED BY <1>1, <1>5, <2>1, FinalAnswerType DEF Finish, SharedTypeOK
<1>6. CASE Cancel
  BY <1>1, <1>6 DEF Cancel, SharedTypeOK
<1>7. CASE UNCHANGED <<stepNo, dead, cancelled, answer, outcome>>
  BY <1>1, <1>7 DEF SharedTypeOK
<1> QED BY <1>2, <1>3, <1>4, <1>5, <1>6, <1>7
        DEF NextStep, Walk, vars, Branch, StartWave, EndWave, PassLogical, Resolve,
            OutOfBudget, OtherRequest, Terminated

(* The breaker is written by branches and by other requests.               *)
LEMMA BreakerTypeStep ==
    ASSUME BreakerTypeOK, ChainFixed, [NextStep]_vars
    PROVE  BreakerTypeOK'
<1>1. ASSUME NEW k \in reachable, Resolve(k)
      PROVE  BreakerTypeOK'
  BY <1>1, BreakerType, ProviderOfBlock DEF Resolve
<1>2. ASSUME NEW k \in reachable, Settle(k)
      PROVE  BreakerTypeOK'
  <2>1. \E ok \in BOOLEAN : Observe(chain.provider[k], ok)
    <3>1. Observe(chain.provider[k], OK(result[k]))
      BY <1>2, Zenon DEF Settle
    <3> QED BY <3>1, Zenon DEF Observe
  <2> QED BY <2>1, ObserveType, ProviderOfBlock
<1>3. ASSUME NEW p \in Provider, OtherRequest(p)
      PROVE  BreakerTypeOK'
  <2>1. PICK ok \in BOOLEAN : Observe(p, ok)
    BY <1>3, Zenon DEF OtherRequest
  <2> QED BY <2>1, ObserveType
<1>4. CASE UNCHANGED breakerVars
  BY <1>4, BreakerType DEF BreakerTypeOK, breakerVars
<1> QED BY <1>1, <1>2, <1>3, <1>4
        DEF NextStep, Walk, vars, Branch, StartWave, EndWave, Finish, PassLogical, TakeStep,
            OutOfBudget, Call, Cancel, Terminated

LEMMA TypeStep == TypeOK /\ ChainFixed /\ [NextStep]_vars => TypeOK' /\ ChainFixed'
BY ChainStep, WalkTypeStep, BranchTypeStep, SharedTypeStep, BreakerTypeStep DEF TypeOK

(* Every variable keeps its type: in particular a trace index, an answer   *)
(* and a merged row always name blocks of the walk.                        *)
THEOREM TypeCorrect == Spec => []TypeOK
<1>1. TypeOK /\ ChainFixed => TypeOK
  OBVIOUS
<1> QED BY TypeInit, TypeStep, <1>1, PTL DEF Spec

(* Part 2: the walk                                                        *)
-----------------------------------------------------------------------------
(* Frames: what the actions leave alone.                                   *)

(* Steps that do not concern the request's walk.                           *)
Elsewhere == UNCHANGED <<chainVars, walkVars, branchVars, stepNo, answer, outcome>>

LEMMA StepKinds ==
    ASSUME [NextStep]_vars
    PROVE  StartWave \/ EndWave \/ Finish \/ (\E k \in reachable : Branch(k)) \/ Elsewhere
BY DEF NextStep, Walk, Cancel, OtherRequest, Terminated, vars, Elsewhere

(* A branch step leaves the walk alone, moves one goroutine of the wave,   *)
(* and never gives attempts back.                                          *)
LEMMA BranchFrame ==
    ASSUME TypeOK, NEW k \in reachable, Branch(k)
    PROVE  /\ k \in wave
           /\ UNCHANGED <<chainVars, walkVars, outcome>>
           /\ \E x : pc' = [pc EXCEPT ![k] = x]
           /\ stepNo' \in Nat /\ stepNo' >= stepNo
<1>1. k \in wave /\ UNCHANGED <<chainVars, walkVars, outcome>>
  BY Zenon DEF Branch, PassLogical, Resolve, TakeStep, OutOfBudget, Call, Settle
<1>2. \E x : pc' = [pc EXCEPT ![k] = x]
  BY Zenon DEF Branch, PassLogical, Resolve, TakeStep, OutOfBudget, Call, Settle, Return
<1>3. \/ stepNo' = stepNo
      \/ stepNo' = stepNo + 1
      \/ \E extra \in 0..MaxExtra : stepNo' = stepNo + extra
  BY Zenon DEF Branch, PassLogical, Resolve, TakeStep, OutOfBudget, Call, Settle
<1>4. stepNo \in Nat
  BY DEF TypeOK, SharedTypeOK
<1>5. stepNo' \in Nat /\ stepNo' >= stepNo
  BY <1>3, <1>4, BudgetAssumption
<1> QED BY <1>1, <1>2, <1>5

-----------------------------------------------------------------------------
(* The graph of a validated chain.                                         *)

(* Walking along a neutral edge stays in the walk.                         *)
LEMMA ReachableClosed ==
    ASSUME NEW c \in Chains, NEW i \in NeutralEdges(c), c.edges[i].from \in Reachable(c)
    PROVE  c.edges[i].to \in Reachable(c)
<1> DEFINE Edge == [from : Keys(c), to : Keys(c), cond : Conditions]
<1>1. c.edges \in Seq(Edge)
  BY ChainsAssumption DEF WellFormed
<1>2. c.edges[i] \in Edge
  <2> HIDE DEF Edge
  <2> QED BY <1>1 DEF NeutralEdges
<1>3. c.edges[i].to \in Keys(c)
  BY <1>2
<1> QED BY <1>3 DEF Reachable, ReachableFrom, Closed

(* Nothing in the walk leads back to the Start block.                      *)
LEMMA StartIsSource ==
    ASSUME NEW c \in Chains, NEW i \in NeutralEdges(c), c.edges[i].from \in Reachable(c)
    PROVE  c.edges[i].to # Start(c)
<1>1. PICK n \in Reachable(c) :
         \A j \in NeutralEdges(c) : c.edges[j].to = n => c.edges[j].from \notin Reachable(c)
  BY ReachableBlocks, ValidatedAssumption DEF Acyclic
<1>2. n = Start(c)
  <2> SUFFICES ASSUME n # Start(c) PROVE FALSE
    OBVIOUS
  <2> DEFINE Rest == Reachable(c) \ {n}
  <2>1. Start(c) \in Rest /\ Rest \in SUBSET Keys(c)
    BY ReachableBlocks
  <2>2. Closed(c, NeutralEdges(c), Rest)
    BY <1>1, ReachableClosed DEF Closed
  <2>3. n \in Rest
    BY <2>1, <2>2 DEF Reachable, ReachableFrom
  <2> QED BY <2>3
<1> QED BY <1>1, <1>2

-----------------------------------------------------------------------------
(* Counting edges.                                                         *)

LEMMA NoEdgeCounted ==
    ASSUME ChainFixed, NEW k, NEW S
    PROVE  Cardinality(InEdgesFrom(k, S)) = 0 <=> InEdgesFrom(k, S) = {}
BY EdgeCount, FS_EmptySet

LEMMA StartHasNoPreds ==
    ASSUME ChainFixed, NEW S \in SUBSET reachable
    PROVE  InEdgesFrom(Start(chain), S) = {}
BY StartIsSource DEF InEdgesFrom, ChainFixed

(* The edges from T part those from S.                                     *)
LEMMA EdgeCountSplit ==
    ASSUME ChainFixed, NEW k, NEW S, NEW T \in SUBSET S
    PROVE  Cardinality(InEdgesFrom(k, S \ T))
               = Cardinality(InEdgesFrom(k, S)) - Cardinality(InEdgesFrom(k, T))
<1> DEFINE A == InEdgesFrom(k, S \ T)
           B == InEdgesFrom(k, T)
<1>1. A \cup B = InEdgesFrom(k, S) /\ A \cap B = {}
  BY DEF InEdgesFrom
<1>2. /\ IsFiniteSet(A) /\ Cardinality(A) \in Nat
      /\ IsFiniteSet(B) /\ Cardinality(B) \in Nat
  BY EdgeCount
<1>3. Cardinality(A \cup B) = Cardinality(A) + Cardinality(B) - Cardinality(A \cap B)
  <2> HIDE DEF A, B
  <2> QED BY <1>2, FS_Union
<1>4. Cardinality(A \cap B) = 0
  BY <1>1, FS_EmptySet
<1>5. Cardinality(InEdgesFrom(k, S)) = Cardinality(A) + Cardinality(B)
  <2> HIDE DEF A, B
  <2> QED BY <1>1, <1>2, <1>3, <1>4
<1> HIDE DEF A, B
<1>6. Cardinality(A) = Cardinality(InEdgesFrom(k, S)) - Cardinality(B)
  BY <1>2, <1>5
<1> QED BY <1>6 DEF A, B

-----------------------------------------------------------------------------
(* The inductive invariant.                                                *)

WaveInv ==
    /\ wave \cap done = {}
    /\ phase = "done" => wave = {}
    /\ \A k \in reachable : pc[k] # "idle" => k \in wave \cup done
    /\ \A k \in wave \cup done : k = Start(chain) \/ Preds(k) \subseteq done
    /\ IndegCounts
    /\ indeg[Start(chain)] = 0
    /\ phase = "done" => ~HasBudget \/ done = reachable

(* A ready block's predecessors are done: no edge into it is left.         *)
LEMMA ReadyBlock ==
    ASSUME TypeOK, ChainFixed, WaveInv, NEW k \in Ready
    PROVE  k = Start(chain) \/ Preds(k) \subseteq done
<1> SUFFICES ASSUME k # Start(chain) PROVE Preds(k) \subseteq done
  OBVIOUS
<1>1. k \in reachable /\ indeg[k] = 0
  BY DEF Ready
<1>2. InEdgesFrom(k, reachable \ done) = {}
  BY <1>1, NoEdgeCounted DEF WaveInv, IndegCounts
<1> QED BY <1>2 DEF Preds, InEdgesFrom

(* While a block of the walk is left, one is ready.                        *)
LEMMA NoStall ==
    ASSUME TypeOK, ChainFixed, WaveInv, Ready = {}
    PROVE  done = reachable
<1> SUFFICES ASSUME reachable \ done # {} PROVE FALSE
  BY DEF TypeOK, WalkTypeOK
<1>1. PICK n \in reachable \ done :
         \A i \in NeutralEdges(chain) :
             chain.edges[i].to = n => chain.edges[i].from \notin reachable \ done
  BY ReachableBlocks, ValidatedAssumption DEF Acyclic, ChainFixed
<1>2. n # Start(chain)
  BY DEF Ready, WaveInv
<1>3. InEdgesFrom(n, reachable \ done) = {}
  BY <1>1 DEF InEdgesFrom
<1>4. indeg[n] = 0
  <2>1. indeg[n] = Cardinality(InEdgesFrom(n, reachable \ done))
    BY <1>2 DEF WaveInv, IndegCounts
  <2> QED BY <2>1, <1>3, NoEdgeCounted
<1> QED BY <1>4 DEF Ready

LEMMA WaveInit == Init => WaveInv
<1> SUFFICES ASSUME Init PROVE WaveInv
  OBVIOUS
<1>1. ChainFixed /\ Start(chain) \in reachable
  BY TypeInit, ReachableBlocks DEF ChainFixed
<1>2. indeg = InitIndeg /\ done = {} /\ wave = {} /\ phase = "walk"
      /\ pc = [k \in reachable |-> "idle"]
  BY DEF Init
<1>3. IndegCounts
  <2>1. reachable \ done = reachable
    BY <1>2
  <2> QED BY <1>2, <2>1 DEF IndegCounts, InitIndeg
<1>4. indeg[Start(chain)] = 0
  BY <1>1, <1>2 DEF InitIndeg
<1> QED BY <1>2, <1>3, <1>4 DEF WaveInv

LEMMA WaveStartWave ==
    ASSUME TypeOK, ChainFixed, WaveInv, StartWave
    PROVE  WaveInv'
<1>1. /\ UNCHANGED <<chainVars, phase, done, indeg, stepNo>>
      /\ phase = "walk" /\ wave' = Ready
      /\ pc' = [k \in reachable |-> IF k \in Ready THEN "resolve" ELSE pc[k]]
  BY Zenon DEF StartWave
<1>2. wave' \cap done' = {} /\ phase' = "walk"
  BY <1>1 DEF Ready
<1>3. \A k \in reachable' : pc'[k] # "idle" => k \in wave' \cup done'
  BY <1>1 DEF WaveInv, chainVars, StartWave
<1>4. \A k \in wave' \cup done' : k = Start(chain)' \/ Preds(k)' \subseteq done'
  BY <1>1, ReadyBlock DEF WaveInv, chainVars, Preds, InEdgesFrom
<1>5. IndegCounts' /\ (indeg[Start(chain)])' = 0
  BY <1>1 DEF WaveInv, IndegCounts, InEdgesFrom, chainVars
<1> QED BY <1>2, <1>3, <1>4, <1>5 DEF WaveInv

LEMMA WaveEndWave ==
    ASSUME TypeOK, ChainFixed, WaveInv, EndWave
    PROVE  WaveInv'
<1>1. /\ UNCHANGED <<chainVars, phase, pc, stepNo>>
      /\ done' = done \cup wave /\ wave' = {} /\ wave # {}
      /\ indeg' = [k \in reachable |-> indeg[k] - Cardinality(InEdgesFrom(k, wave))]
  BY Zenon DEF EndWave, branchVars
<1>2. phase # "done" /\ wave \in SUBSET (reachable \ done)
  BY <1>1 DEF WaveInv, TypeOK, WalkTypeOK
<1>3. \A k \in wave' \cup done' : k = Start(chain)' \/ Preds(k)' \subseteq done'
  BY <1>1 DEF WaveInv, chainVars, Preds, InEdgesFrom
<1>4. IndegCounts'
  <2> SUFFICES ASSUME NEW k \in reachable, k # Start(chain)
               PROVE  indeg'[k] = Cardinality(InEdgesFrom(k, reachable \ (done \cup wave)))
    BY <1>1 DEF IndegCounts, InEdgesFrom, chainVars
  <2>1. reachable \ (done \cup wave) = (reachable \ done) \ wave
    OBVIOUS
  <2>2. indeg[k] = Cardinality(InEdgesFrom(k, reachable \ done))
    BY DEF WaveInv, IndegCounts
  <2> QED BY <1>1, <1>2, <2>1, <2>2, EdgeCountSplit
<1>5. (indeg[Start(chain)])' = 0
  <2>1. Start(chain) \in reachable
    BY ReachableBlocks DEF ChainFixed
  <2>2. Cardinality(InEdgesFrom(Start(chain), wave)) = 0
    BY <1>2, StartHasNoPreds, FS_EmptySet
  <2> QED BY <1>1, <2>1, <2>2 DEF WaveInv, chainVars
<1>6. \A k \in reachable' : pc'[k] # "idle" => k \in wave' \cup done'
  BY <1>1 DEF WaveInv, chainVars
<1> QED BY <1>1, <1>2, <1>3, <1>4, <1>5, <1>6 DEF WaveInv

LEMMA WaveFinish ==
    ASSUME TypeOK, ChainFixed, WaveInv, Finish
    PROVE  WaveInv'
<1>1. UNCHANGED <<chainVars, wave, done, indeg, pc, stepNo>> /\ wave = {} /\ WalkEnds
  BY Zenon DEF Finish, branchVars
<1>2. ~HasBudget \/ done = reachable
  BY <1>1, NoStall DEF WalkEnds
<1>3. ~HasBudget' \/ done' = reachable'
  BY <1>1, <1>2 DEF HasBudget, chainVars
<1> QED BY <1>1, <1>3 DEF WaveInv, IndegCounts, Preds, InEdgesFrom, chainVars

LEMMA WaveBranch ==
    ASSUME TypeOK, ChainFixed, WaveInv, NEW k \in reachable, Branch(k)
    PROVE  WaveInv'
<1>1. PICK x : pc' = [pc EXCEPT ![k] = x]
  BY BranchFrame
<1>2. k \in wave /\ UNCHANGED <<chainVars, walkVars>>
  BY BranchFrame
<1>3. phase # "done"
  BY <1>2 DEF WaveInv
<1>4. \A j \in reachable : pc'[j] # "idle" => j \in wave \cup done
  BY <1>1, <1>2 DEF WaveInv, TypeOK, BranchTypeOK
<1> QED BY <1>2, <1>3, <1>4 DEF WaveInv, IndegCounts, Preds, InEdgesFrom, chainVars, walkVars

LEMMA WaveElsewhere ==
    ASSUME WaveInv, Elsewhere
    PROVE  WaveInv'
BY DEF WaveInv, Elsewhere, IndegCounts, Preds, InEdgesFrom, HasBudget, chainVars, walkVars,
       branchVars

LEMMA WaveStep ==
    TypeOK /\ ChainFixed /\ WaveInv /\ [NextStep]_vars => WaveInv'
BY StepKinds, WaveStartWave, WaveEndWave, WaveFinish, WaveBranch, WaveElsewhere

LEMMA WaveInvariant == Spec => [](TypeOK /\ ChainFixed /\ WaveInv)
<1>1. Init => TypeOK /\ ChainFixed /\ WaveInv
  BY TypeInit, WaveInit
<1>2. TypeOK /\ ChainFixed /\ WaveInv /\ [NextStep]_vars => (TypeOK /\ ChainFixed /\ WaveInv)'
  BY TypeStep, WaveStep
<1> QED BY <1>1, <1>2, PTL DEF Spec

-----------------------------------------------------------------------------
(* The theorems.                                                           *)

(* Rendezvous (runFullChain's wave barrier): whatever the chain, the       *)
(* results and the interleaving, a block's goroutine starts only after     *)
(* every neutral predecessor of the block has finished.                    *)
THEOREM Rendezvous == Spec => []JoinWaits
<1>1. WaveInv => JoinWaits
  BY DEF WaveInv, JoinWaits, Launched
<1> QED BY <1>1, WaveInvariant, PTL

(* The in-degree bookkeeping of runFullChain, one decrement per edge of a  *)
(* finished block, never drifts from the edges that are left.              *)
THEOREM InDegrees == Spec => []IndegCounts
<1>1. WaveInv => IndegCounts
  BY DEF WaveInv
<1> QED BY <1>1, WaveInvariant, PTL

(* A request of a validated chain that ends with budget to spare has given *)
(* every block its neutral edges connect a turn: the wave loop cannot run  *)
(* dry before that.                                                        *)
THEOREM Completeness == Spec => []NoBlockLeftBehind
<1>1. WaveInv => NoBlockLeftBehind
  BY DEF WaveInv, NoBlockLeftBehind
<1> QED BY <1>1, WaveInvariant, PTL

(* Part 3: the abstract walk and the answer                                *)
-----------------------------------------------------------------------------
(* DagWalk.  A wave maps to one Run step, Finish to End; branch steps are  *)
(* invisible, but for the one that uses up the budget.                     *)

(* DagWalk reads the same plan.                                            *)
LEMMA SamePlan ==
    ASSUME NEW c
    PROVE  /\ Dag!NeutralEdges(c) = NeutralEdges(c)
           /\ Dag!Reachable(c) = Reachable(c)
           /\ Dag!Start(c) = Start(c)
<1>1. Dag!NeutralEdges(c) = NeutralEdges(c)
  BY DEF Dag!NeutralEdges, NeutralEdges, Dag!Neutral, Neutral
<1>2. Dag!Keys(c) = Keys(c)
  BY DEF Dag!Keys, Keys
<1>3. Dag!StartBlocks(c) = StartBlocks(c)
  BY <1>2 DEF Dag!StartBlocks, StartBlocks
<1>4. \A S : Dag!FirstInOrder(c, S) = FirstInOrder(c, S)
  BY Zenon DEF Dag!FirstInOrder, FirstInOrder, Dag!Pos, Pos, Dag!NoKey, NoKey
<1>5. Dag!Start(c) = Start(c)
  BY <1>2, <1>3, <1>4, Zenon DEF Dag!Start, Start, Dag!HasStartBlock, HasStartBlock
<1>6. Dag!Reachable(c) = Reachable(c)
  BY <1>1, <1>2, <1>5 DEF Dag!Reachable, Reachable, Dag!ReachableFrom, ReachableFrom,
                          Dag!Closed, Closed
<1> QED BY <1>1, <1>5, <1>6

LEMMA RefinesInit == Init => Dag!Init
<1> SUFFICES ASSUME Init PROVE Dag!Init
  OBVIOUS
<1>1. chain \in Chains /\ reachable = Reachable(chain) /\ done = {}
  BY DEF Init
<1>2. (phase = "done") = FALSE
  BY DEF Init
<1>3. HasBudget = TRUE
  <2>1. stepNo = 0
    BY DEF Init
  <2>2. stepNo < MaxAttempts
    BY <2>1, BudgetAssumption
  <2> QED BY <2>2 DEF HasBudget
<1>4. reachable = Dag!Reachable(chain)
  BY <1>1, SamePlan
<1> QED BY <1>1, <1>2, <1>3, <1>4 DEF Dag!Init

LEMMA RefinesEndWave ==
    ASSUME TypeOK, ChainFixed, WaveInv, EndWave
    PROVE  Dag!Run
<1>1. /\ UNCHANGED <<chainVars, phase, stepNo>>
      /\ done' = done \cup wave /\ wave # {}
  BY Zenon DEF EndWave
<1>2. wave \in SUBSET (reachable \ done)
  BY DEF WaveInv, TypeOK, WalkTypeOK
<1>3. ASSUME NEW k \in wave, k # Start(chain), NEW j \in reachable,
             Dag!Precedes(chain, j, k)
      PROVE  j \in done
  <2>1. PICK i \in NeutralEdges(chain) : chain.edges[i].from = j /\ chain.edges[i].to = k
    BY <1>3, SamePlan, Zenon DEF Dag!Precedes
  <2>2. j \in Preds(k)
    BY <2>1 DEF Preds, InEdgesFrom
  <2> QED BY <1>3, <2>2 DEF WaveInv
<1>4. \A k \in wave : k = Start(chain) \/ \A j \in reachable : Dag!Precedes(chain, j, k) => j \in done
  BY <1>3
<1>5. phase # "done"
  BY <1>1 DEF WaveInv
<1>6. HasBudget' = HasBudget /\ (phase = "done")' = (phase = "done")
  BY <1>1 DEF HasBudget
<1> QED BY <1>1, <1>2, <1>4, <1>5, <1>6, SamePlan DEF Dag!Run, chainVars

LEMMA RefinesFinish ==
    ASSUME TypeOK, ChainFixed, WaveInv, Finish
    PROVE  Dag!End
<1>1. /\ UNCHANGED <<chainVars, done, stepNo>>
      /\ phase = "walk" /\ phase' = "done" /\ WalkEnds
  BY Zenon DEF Finish
<1>2. done = reachable \/ ~HasBudget
  BY <1>1, NoStall DEF WalkEnds
<1>3. HasBudget' = HasBudget
  BY <1>1 DEF HasBudget
<1> QED BY <1>1, <1>2, <1>3 DEF Dag!End, chainVars

LEMMA RefinesBranch ==
    ASSUME TypeOK, WaveInv, NEW k \in reachable, Branch(k)
    PROVE  Dag!Spend \/ UNCHANGED Dag!dagVars
<1>1. k \in wave /\ UNCHANGED <<chainVars, walkVars>> /\ stepNo' \in Nat /\ stepNo' >= stepNo
  BY BranchFrame
<1>2. phase # "done" /\ UNCHANGED <<chain, reachable, done, phase>>
  BY <1>1 DEF WaveInv, chainVars, walkVars
<1>3. HasBudget' => HasBudget
  BY <1>1, BudgetAssumption DEF HasBudget, TypeOK, SharedTypeOK
<1>4. CASE HasBudget' = HasBudget
  BY <1>2, <1>4 DEF Dag!dagVars
<1>5. CASE HasBudget' # HasBudget
  <2>1. HasBudget /\ HasBudget' = FALSE
    BY <1>3, <1>5 DEF HasBudget
  <2> QED BY <1>2, <2>1 DEF Dag!Spend
<1> QED BY <1>4, <1>5

LEMMA RefinesQuiet ==
    ASSUME StartWave \/ Elsewhere
    PROVE  UNCHANGED Dag!dagVars
BY DEF StartWave, Elsewhere, Dag!dagVars, HasBudget, chainVars, walkVars

LEMMA RefinesStep ==
    ASSUME TypeOK, ChainFixed, WaveInv, [NextStep]_vars
    PROVE  [Dag!DagNext]_(Dag!dagVars)
BY StepKinds, RefinesQuiet, RefinesEndWave, RefinesFinish, RefinesBranch DEF Dag!DagNext

(* The walk of runFullChain, with its goroutines, retries, counters and    *)
(* shared budget, implements DagWalk: blocks run at most once, never       *)
(* before their predecessors, and the request ends once.                   *)
THEOREM Implements == Spec => ImplementsDagWalk
<1>1. TypeOK /\ ChainFixed /\ WaveInv /\ [NextStep]_vars => [Dag!DagNext]_(Dag!dagVars)
  BY RefinesStep
<1> QED BY RefinesInit, <1>1, WaveInvariant, PTL DEF Spec, ImplementsDagWalk, Dag!Spec

-----------------------------------------------------------------------------
(* The answer.                                                             *)

(* A block that generated an answer is settling it or has reported it.     *)
BlockInv(k) ==
    /\ pc[k] \in {"idle", "resolve"} => result[k] = "none"
    /\ pc[k] \in {"take", "call", "settle"} => IsProvider(k)
    /\ pc[k] = "over" /\ IsProvider(k) => status[k] = BlockStatus(k, result[k])
    /\ HasAnswer(result[k]) => chain.answer[k] /\ pc[k] \in {"settle", "over"}
    /\ k \in done => pc[k] = "over"

Generated(k) == IsProvider(k) /\ HasAnswer(result[k])

AnswerInv ==
    /\ \A k \in reachable : BlockInv(k)
    /\ phase = "walk" /\ answer # NoKey => answer \in reachable /\ Generated(answer)
    /\ AnswerIsLast

LEMMA AnswerInit == Init => AnswerInv
<1> SUFFICES ASSUME Init PROVE AnswerInv
  OBVIOUS
<1>1. /\ pc = [k \in reachable |-> "idle"] /\ result = [k \in reachable |-> "none"]
      /\ done = {} /\ answer = NoKey /\ phase = "walk"
  BY DEF Init
<1> QED BY <1>1 DEF AnswerInv, BlockInv, HasAnswer, AnswerIsLast

(* What a branch step does to its block.                                   *)
LEMMA AnswerOwnBlock ==
    ASSUME TypeOK, WaveInv, NEW k \in reachable, BlockInv(k), Branch(k)
    PROVE  /\ BlockInv(k)'
           /\ Generated(k) => Generated(k)'
           /\ answer' = answer \/ (answer' = k /\ Generated(k)')
<1>1. k \in wave /\ UNCHANGED chain /\ UNCHANGED done
  BY BranchFrame DEF chainVars, walkVars
<1>2. k \notin done
  BY <1>1 DEF WaveInv
<1>3. /\ pc \in [reachable -> {"idle", "resolve", "take", "call", "settle", "over"}]
      /\ result \in [reachable -> ResultKinds \cup {"none"}]
      /\ status \in [reachable -> {"", "ok", "empty", "fail", "skip"}]
  BY Zenon DEF TypeOK, BranchTypeOK
<1>4. CASE PassLogical(k)
  <2>1. /\ ~IsProvider(k) /\ pc[k] = "resolve" /\ Return(k, "ok")
        /\ UNCHANGED <<result, answer>>
    BY <1>4, Zenon DEF PassLogical
  <2> QED BY <1>1, <1>2, <1>3, <2>1 DEF Return, BlockInv, IsProvider, HasAnswer, Generated
<1>5. CASE Resolve(k)
  <2>1. /\ IsProvider(k) /\ pc[k] = "resolve" /\ UNCHANGED <<result, answer>>
        /\ \/ Return(k, "skip")
           \/ pc' = [pc EXCEPT ![k] = "take"]
    BY <1>5, Zenon DEF Resolve
  <2>2. result[k] = "none"
    BY <2>1 DEF BlockInv
  <2>3. BlockStatus(k, "none")' = "skip"
    BY DEF BlockStatus
  <2>4. \/ pc'[k] = "over" /\ status'[k] = "skip"
        \/ pc'[k] = "take"
    BY <1>3, <2>1 DEF Return
  <2> QED BY <1>1, <1>2, <2>1, <2>2, <2>3, <2>4 DEF BlockInv, IsProvider, HasAnswer, Generated
<1>6. CASE TakeStep(k)
  <2>1. /\ pc[k] = "take" /\ pc' = [pc EXCEPT ![k] = "call"]
        /\ UNCHANGED <<result, answer, status>>
    BY <1>6, Zenon DEF TakeStep
  <2> QED BY <1>1, <1>2, <1>3, <2>1 DEF BlockInv, IsProvider, HasAnswer, Generated
<1>7. CASE OutOfBudget(k)
  <2>1. /\ pc[k] = "take" /\ Return(k, BlockStatus(k, result[k]))
        /\ UNCHANGED <<result, answer>>
    BY <1>7, Zenon DEF OutOfBudget
  <2>2. status'[k] = BlockStatus(k, result[k]) /\ pc'[k] = "over"
    BY <1>3, <2>1 DEF Return
  <2>3. BlockStatus(k, result[k])' = BlockStatus(k, result[k])
    BY <1>1, <2>1 DEF BlockStatus, StepRows
  <2> QED BY <1>1, <1>2, <2>1, <2>2, <2>3 DEF BlockInv, IsProvider, HasAnswer, Generated
<1>8. CASE Call(k)
  <2>1. /\ pc[k] = "call" /\ pc' = [pc EXCEPT ![k] = "settle"]
        /\ \E r \in Results(k) :
              /\ result' = [result EXCEPT ![k] = r]
              /\ answer' = IF chain.answer[k] /\ HasAnswer(r) THEN k ELSE answer
    BY <1>8, Zenon DEF Call
  <2>2. PICK r \in Results(k) :
              /\ result' = [result EXCEPT ![k] = r]
              /\ answer' = IF chain.answer[k] /\ HasAnswer(r) THEN k ELSE answer
    BY <2>1
  <2>3. HasAnswer(r) => chain.answer[k]
    BY DEF Results, HasAnswer
  <2>4. result'[k] = r /\ pc'[k] = "settle" /\ IsProvider(k)
    BY <1>3, <2>1, <2>2 DEF BlockInv
  <2>5. ~HasAnswer(result[k])
    BY <2>1 DEF BlockInv
  <2>6. BlockInv(k)'
    BY <1>1, <1>2, <2>3, <2>4 DEF BlockInv, IsProvider, HasAnswer
  <2>7. answer' = answer \/ (answer' = k /\ Generated(k)')
    BY <1>1, <2>2, <2>4 DEF IsProvider, HasAnswer, Generated
  <2> QED BY <2>5, <2>6, <2>7 DEF Generated
<1>9. CASE Settle(k)
  <2>1. /\ pc[k] = "settle" /\ UNCHANGED <<result, answer>>
        /\ IF Retries(k) THEN pc' = [pc EXCEPT ![k] = "take"] /\ UNCHANGED status
                         ELSE Return(k, BlockStatus(k, result[k]))
    BY <1>9, Zenon DEF Settle
  <2>2. CASE Retries(k)
    <3>1. ~HasAnswer(result[k])
      BY <2>2 DEF Retries, Won, OK, HasAnswer, BlockInv
    <3>2. pc'[k] = "take" /\ IsProvider(k)
      BY <1>3, <2>1, <2>2 DEF BlockInv
    <3> QED BY <1>1, <1>2, <2>1, <3>1, <3>2 DEF BlockInv, IsProvider, HasAnswer, Generated
  <2>3. CASE ~Retries(k)
    <3>1. status'[k] = BlockStatus(k, result[k]) /\ pc'[k] = "over"
      BY <1>3, <2>1, <2>3 DEF Return
    <3>2. BlockStatus(k, result[k])' = BlockStatus(k, result[k])
      BY <1>1, <2>1 DEF BlockStatus, StepRows
    <3> QED BY <1>1, <1>2, <2>1, <3>1, <3>2 DEF BlockInv, IsProvider, HasAnswer, Generated
  <2> QED BY <2>2, <2>3
<1> QED BY <1>4, <1>5, <1>6, <1>7, <1>8, <1>9 DEF Branch

(* The other blocks are not touched.                                       *)
LEMMA AnswerOtherBlock ==
    ASSUME TypeOK, NEW k \in reachable, Branch(k), NEW j \in reachable, j # k
    PROVE  /\ BlockInv(j) => BlockInv(j)'
           /\ Generated(j) => Generated(j)'
<1>1. UNCHANGED chain /\ UNCHANGED done
  BY BranchFrame DEF chainVars, walkVars
<1>2. pc'[j] = pc[j]
  BY BranchFrame DEF TypeOK, BranchTypeOK
<1>3. \/ UNCHANGED status
      \/ \E s : status' = [status EXCEPT ![k] = s]
  BY Zenon DEF Branch, PassLogical, Resolve, TakeStep, OutOfBudget, Call, Settle, Return
<1>4. \/ UNCHANGED result
      \/ \E r : result' = [result EXCEPT ![k] = r]
  BY Zenon DEF Branch, PassLogical, Resolve, TakeStep, OutOfBudget, Call, Settle
<1>5. status'[j] = status[j] /\ result'[j] = result[j]
  BY <1>3, <1>4 DEF TypeOK, BranchTypeOK
<1> QED BY <1>1, <1>2, <1>5 DEF BlockInv, IsProvider, HasAnswer, Generated, BlockStatus, StepRows

LEMMA AnswerBranch ==
    ASSUME TypeOK, WaveInv, AnswerInv, NEW k \in reachable, Branch(k)
    PROVE  AnswerInv'
<1>1. k \in wave /\ UNCHANGED <<chain, reachable, phase>> /\ phase # "done"
  BY BranchFrame DEF chainVars, walkVars, WaveInv
<1>2. phase = "walk"
  BY <1>1 DEF TypeOK, WalkTypeOK
<1>3. \A j \in reachable : BlockInv(j)' /\ (Generated(j) => Generated(j)')
  BY AnswerOwnBlock, AnswerOtherBlock DEF AnswerInv
<1>4. answer' = answer \/ (answer' = k /\ Generated(k)')
  BY AnswerOwnBlock DEF AnswerInv
<1>5. answer' # NoKey => answer' \in reachable /\ Generated(answer)'
  <2>1. CASE answer' = k /\ Generated(k)'
    BY <2>1 DEF Generated, IsProvider
  <2>2. CASE answer' = answer
    <3>1. answer # NoKey => answer \in reachable /\ Generated(answer)'
      BY <1>2, <1>3, <2>2 DEF AnswerInv, Generated, IsProvider
    <3> QED BY <2>2, <3>1 DEF Generated, IsProvider
  <2> QED BY <1>4, <2>1, <2>2
<1> QED BY <1>1, <1>3, <1>5 DEF AnswerInv, AnswerIsLast

LEMMA AnswerStartWave ==
    ASSUME TypeOK, WaveInv, AnswerInv, StartWave
    PROVE  AnswerInv'
<1>1. /\ UNCHANGED <<chain, reachable, phase, done, result, status, answer>>
      /\ wave = {} /\ phase = "walk"
      /\ pc' = [k \in reachable |-> IF k \in Ready THEN "resolve" ELSE pc[k]]
  BY Zenon DEF StartWave, chainVars
<1>2. \A k \in Ready : k \in reachable /\ k \notin done /\ result[k] = "none"
  BY <1>1 DEF Ready, WaveInv, AnswerInv, BlockInv
<1>3. ASSUME NEW k \in reachable
      PROVE  BlockInv(k)'
  <2>1. CASE k \in Ready
    BY <1>1, <1>2, <2>1 DEF BlockInv, HasAnswer
  <2>2. CASE k \notin Ready
    BY <1>1, <2>2 DEF AnswerInv, BlockInv, IsProvider, HasAnswer, BlockStatus, StepRows
  <2> QED BY <2>1, <2>2
<1> QED BY <1>1, <1>3 DEF AnswerInv, AnswerIsLast, Generated, IsProvider, HasAnswer

LEMMA AnswerEndWave ==
    ASSUME TypeOK, WaveInv, AnswerInv, EndWave
    PROVE  AnswerInv'
<1>1. /\ UNCHANGED <<chain, reachable, phase, pc, result, status, answer>>
      /\ done' = done \cup wave /\ \A k \in wave : pc[k] = "over"
  BY Zenon DEF EndWave, chainVars, branchVars
<1>2. \A k \in reachable : BlockInv(k)'
  BY <1>1 DEF AnswerInv, BlockInv, IsProvider, HasAnswer, BlockStatus, StepRows
<1> QED BY <1>1, <1>2 DEF AnswerInv, AnswerIsLast, Generated, IsProvider, HasAnswer

LEMMA AnswerFinish ==
    ASSUME TypeOK, WaveInv, AnswerInv, Finish
    PROVE  AnswerInv'
<1> DEFINE A == {k \in reachable : IsProvider(k) /\ chain.answer[k] /\ HasAnswer(result[k])}
<1>1. /\ UNCHANGED <<chain, reachable, done, pc, result, status>>
      /\ phase = "walk" /\ phase' = "done" /\ wave = {} /\ answer' = FinalAnswer
  BY Zenon DEF Finish, chainVars, branchVars
<1>2. Answered = A
  <2>1. Answered \subseteq A
    BY DEF Answered, Reported, KeepsAnswer
  <2>2. ASSUME NEW k \in A
        PROVE  k \in Answered
    <3>1. BlockInv(k) /\ IsProvider(k) /\ chain.answer[k] /\ HasAnswer(result[k])
      BY DEF AnswerInv
    <3>2. k \in done /\ pc[k] = "over"
      BY <1>1, <3>1 DEF BlockInv, WaveInv
    <3>3. status[k] = "ok"
      <4>1. BlockStatus(k, result[k]) = "ok"
        BY <3>1 DEF BlockStatus, OK, HasAnswer
      <4> QED BY <3>1, <3>2, <4>1 DEF BlockInv
    <3> QED BY <3>1, <3>3 DEF Answered, Reported, KeepsAnswer
  <2> QED BY <2>1, <2>2
<1>3. A = {} => answer = NoKey
  BY <1>1 DEF AnswerInv, Generated, BlockInv
<1>4. answer' = LastInOrder(chain, A)
  BY <1>1, <1>2, <1>3 DEF FinalAnswer, LastInOrder
<1>5. AnswerIsLast'
  BY <1>1, <1>4 DEF AnswerIsLast, IsProvider, HasAnswer
<1>6. \A k \in reachable : BlockInv(k)'
  BY <1>1 DEF AnswerInv, BlockInv, IsProvider, HasAnswer, BlockStatus, StepRows
<1> QED BY <1>1, <1>5, <1>6 DEF AnswerInv

LEMMA AnswerElsewhere ==
    ASSUME AnswerInv, Elsewhere
    PROVE  AnswerInv'
<1>1. UNCHANGED <<chain, reachable, phase, done, pc, result, status, answer>>
  BY DEF Elsewhere, chainVars, walkVars, branchVars
<1>2. \A k \in reachable : BlockInv(k)'
  BY <1>1 DEF AnswerInv, BlockInv, IsProvider, HasAnswer, BlockStatus, StepRows
<1> QED BY <1>1, <1>2 DEF AnswerInv, AnswerIsLast, Generated, IsProvider, HasAnswer

(* Whatever the order in which the branches of a wave wrote req.Answer,    *)
(* the merge pass leaves the answer of the last answering block of the     *)
(* plan, and none if no block answered.                                    *)
THEOREM LastAnswerWins == Spec => []AnswerIsLast
<1>1. TypeOK /\ WaveInv /\ AnswerInv /\ [NextStep]_vars => AnswerInv'
  BY StepKinds, AnswerStartWave, AnswerEndWave, AnswerFinish, AnswerBranch, AnswerElsewhere
<1>2. AnswerInv => AnswerIsLast
  BY DEF AnswerInv
<1> QED BY AnswerInit, <1>1, <1>2, WaveInvariant, PTL DEF Spec

(* Part 4: the record                                                      *)
-----------------------------------------------------------------------------
(* Trace indices.                                                          *)

Indexed(k) == IsProvider(k) /\ k \in wave \cup done

(* Exactly the provider blocks launched so far are numbered, below the     *)
(* next index.                                                             *)
IdxInv ==
    /\ \A k \in reachable : idx[k] < nextIdx /\ (idx[k] >= 0 <=> Indexed(k))
    /\ ChronologicalIdx

(* Two blocks of the walk are at different positions of the plan.          *)
LEMMA PositionsDiffer ==
    ASSUME ChainFixed, NEW j \in reachable, NEW k \in reachable, j # k
    PROVE  /\ Pos(chain, j) \in Int /\ Pos(chain, k) \in Int
           /\ Pos(chain, j) # Pos(chain, k)
<1>1. j \in Keys(chain) /\ k \in Keys(chain) /\ chain \in Chains
  BY ReachableBlocks DEF ChainFixed
<1>2. DOMAIN chain.order \subseteq Int
  <2>1. chain.order \in Seq(Keys(chain))
    BY <1>1, ChainsAssumption DEF WellFormed
  <2> QED BY <2>1
<1> QED BY <1>1, <1>2, PosIsIndex

(* The blocks of the wave that are numbered before k.                      *)
Before(k) == {j \in WaveProviders : Pos(chain, j) < Pos(chain, k)}

LEMMA CountBefore ==
    ASSUME ChainFixed, NEW k
    PROVE  /\ Cardinality(Before(k)) \in Nat /\ Cardinality(WaveProviders) \in Nat
           /\ k \in WaveProviders => Cardinality(Before(k)) < Cardinality(WaveProviders)
<1>1. WaveProviders \in SUBSET reachable /\ Before(k) \in SUBSET WaveProviders
  BY DEF WaveProviders, Ready, Before
<1>2. IsFiniteSet(WaveProviders) /\ Cardinality(WaveProviders) \in Nat
      /\ Cardinality(Before(k)) \in Nat
  BY <1>1, BlockCount
<1>3. ASSUME k \in WaveProviders
      PROVE  Before(k) # WaveProviders
  <2>1. k \in Keys(chain) /\ chain \in Chains
    BY <1>1, <1>3, ReachableBlocks DEF ChainFixed
  <2>2. Pos(chain, k) \in DOMAIN chain.order /\ chain.order \in Seq(Keys(chain))
    BY <2>1, PosIsIndex, ChainsAssumption DEF WellFormed
  <2>3. ~(Pos(chain, k) < Pos(chain, k))
    BY <2>2
  <2> QED BY <1>3, <2>3 DEF Before
<1> QED BY <1>1, <1>2, <1>3, FS_Subset

(* Of two blocks of a wave the earlier in the plan is numbered first.      *)
LEMMA WaveOrder ==
    ASSUME ChainFixed, NEW j \in WaveProviders, NEW k \in WaveProviders,
           Pos(chain, j) < Pos(chain, k)
    PROVE  Cardinality(Before(j)) < Cardinality(Before(k))
<1>1. WaveProviders \in SUBSET reachable
  BY DEF WaveProviders, Ready
<1>2. chain \in Chains /\ WaveProviders \in SUBSET Keys(chain)
  BY <1>1, ReachableBlocks DEF ChainFixed
<1>3. \A i \in WaveProviders : Pos(chain, i) \in Int
  <2>1. chain.order \in Seq(Keys(chain))
    BY <1>2, ChainsAssumption DEF WellFormed
  <2> QED BY <1>2, <2>1, PosIsIndex
<1>4. Before(j) \in SUBSET Before(k) /\ j \in Before(k) /\ j \notin Before(j)
  BY <1>3 DEF Before
<1>5. Before(k) \in SUBSET reachable
  BY <1>1 DEF Before
<1>6. IsFiniteSet(Before(k)) /\ Cardinality(Before(k)) \in Nat /\ Cardinality(Before(j)) \in Nat
  BY <1>4, <1>5, BlockCount
<1> QED BY <1>4, <1>6, FS_Subset

(* A non-empty set of blocks has a first one in plan order.                *)
LEMMA FirstExists ==
    ASSUME NEW c, c.order \in Seq(Keys(c)), NEW S, S \subseteq Keys(c), S # {}
    PROVE  FirstInOrder(c, S) \in S
<1> DEFINE UpTo(k) == 1..Pos(c, k)
           T == {UpTo(k) : k \in S}
<1>1. \A k \in S : Pos(c, k) \in Nat \ {0}
  BY PosIsIndex
<1>2. T \subseteq FiniteSubsetsOf(Nat) /\ T # {}
  <2>1. ASSUME NEW k \in S PROVE UpTo(k) \in SUBSET Nat /\ IsFiniteSet(UpTo(k))
    BY <1>1, FS_Interval
  <2> QED BY <2>1 DEF FiniteSubsetsOf
<1>3. PICK x \in T : \A y \in T : <<y, x>> \notin StrictSubsetOrdering(Nat)
  BY <1>2, FS_StrictSubsetOrderingWellFounded, WFMin
<1>4. PICK k \in S : x = UpTo(k)
  OBVIOUS
<1>5. \A j \in S : Pos(c, k) <= Pos(c, j)
  <2> SUFFICES ASSUME NEW j \in S, Pos(c, j) < Pos(c, k)
               PROVE  FALSE
    BY <1>1
  <2>1. UpTo(j) \subseteq UpTo(k) /\ Pos(c, k) \in UpTo(k) \ UpTo(j)
    BY <1>1
  <2>2. UpTo(j) \in T /\ <<UpTo(j), x>> \in StrictSubsetOrdering(Nat)
    BY <2>1, <1>2, <1>4 DEF StrictSubsetOrdering, FiniteSubsetsOf
  <2> QED BY <2>2, <1>3
<1> QED BY <1>5 DEF FirstInOrder

LEMMA StartCallsNobody ==
    ASSUME ChainFixed
    PROVE  ~IsProvider(Start(chain))
<1>1. HasStartBlock(chain) /\ chain.order \in Seq(Keys(chain))
  BY ChainsAssumption DEF ChainFixed, WellFormed
<1> DEFINE S == StartBlocks(chain)
<1>2. S \subseteq Keys(chain) /\ S # {}
  BY <1>1 DEF StartBlocks, HasStartBlock
<1>3. FirstInOrder(chain, S) \in S
  BY <1>1, <1>2, FirstExists
<1>4. Start(chain) \in StartBlocks(chain)
  BY <1>1, <1>3 DEF Start
<1> QED BY <1>4 DEF IsProvider, StartBlocks

-----------------------------------------------------------------------------
(* The indices are chronological.                                          *)

LEMMA IdxInit == Init => IdxInv
<1> SUFFICES ASSUME Init PROVE IdxInv
  OBVIOUS
<1>1. idx = [k \in reachable |-> -1] /\ nextIdx = 0 /\ wave = {} /\ done = {}
  BY DEF Init
<1> QED BY <1>1 DEF IdxInv, Indexed, ChronologicalIdx

LEMMA IdxStartWave ==
    ASSUME TypeOK, ChainFixed, WaveInv, IdxInv, StartWave
    PROVE  IdxInv'
<1>1. /\ UNCHANGED <<chain, reachable, done>> /\ wave = {} /\ wave' = Ready
      /\ idx' = [k \in reachable |-> IF k \in WaveProviders THEN IdxInWave(k) ELSE idx[k]]
      /\ nextIdx' = NextIdx
  BY Zenon DEF StartWave, chainVars
<1>2. /\ idx \in [reachable -> Int] /\ nextIdx \in Nat
      /\ WaveProviders \in SUBSET reachable
  BY DEF TypeOK, WalkTypeOK, WaveProviders, Ready
<1> DEFINE N == Cardinality(WaveProviders)
           B(k) == Cardinality(Before(k))
<1>3. N \in Nat /\ nextIdx' = nextIdx + N
  BY <1>1, CountBefore DEF NextIdx
<1>4. ASSUME NEW k \in WaveProviders
      PROVE  idx'[k] = nextIdx + B(k) /\ B(k) \in 0..(N - 1)
  <2>1. IdxInWave(k) = nextIdx + B(k)
    BY DEF IdxInWave, Before
  <2>2. B(k) \in Nat /\ B(k) < N
    BY CountBefore
  <2> QED BY <1>1, <1>2, <1>3, <2>1, <2>2
<1>5. ASSUME NEW k \in reachable \ WaveProviders
      PROVE  idx'[k] = idx[k] /\ idx[k] < nextIdx
  BY <1>1, <1>2 DEF IdxInv
<1> HIDE DEF N, B
<1>6. ASSUME NEW k \in reachable
      PROVE  idx'[k] < nextIdx' /\ (idx'[k] >= 0 <=> Indexed(k)')
  <2>1. Indexed(k)' <=> IsProvider(k) /\ k \in Ready \cup done
    BY <1>1 DEF Indexed, IsProvider
  <2>2. CASE k \in WaveProviders
    <3>1. Indexed(k)'
      BY <2>1, <2>2 DEF WaveProviders
    <3> QED BY <1>2, <1>3, <1>4, <2>2, <3>1
  <2>3. CASE k \notin WaveProviders
    <3>1. Indexed(k)' <=> Indexed(k)
      BY <1>1, <2>1, <2>3 DEF WaveProviders, Indexed
    <3>2. idx[k] >= 0 <=> Indexed(k)
      BY DEF IdxInv
    <3> QED BY <1>2, <1>3, <1>5, <2>3, <3>1, <3>2
  <2> QED BY <2>2, <2>3
<1>7. ASSUME NEW j \in reachable, NEW k \in reachable, j # k, idx'[k] >= 0
      PROVE  idx'[j] # idx'[k]
  <2>1. CASE j \in WaveProviders /\ k \in WaveProviders
    <3>1. Pos(chain, j) < Pos(chain, k) \/ Pos(chain, k) < Pos(chain, j)
      BY <1>7, PositionsDiffer
    <3>2. B(j) < B(k) \/ B(k) < B(j)
      BY <2>1, <3>1, WaveOrder DEF B
    <3> QED BY <1>2, <1>4, <2>1, <3>2
  <2>2. CASE j \in WaveProviders /\ k \notin WaveProviders
    BY <1>2, <1>3, <1>4, <1>5, <2>2
  <2>3. CASE j \notin WaveProviders /\ k \in WaveProviders
    BY <1>2, <1>3, <1>4, <1>5, <2>3
  <2>4. CASE j \notin WaveProviders /\ k \notin WaveProviders
    BY <1>5, <1>7, <2>4 DEF IdxInv, ChronologicalIdx
  <2> QED BY <2>1, <2>2, <2>3, <2>4
<1>8. ASSUME NEW k \in reachable, idx'[k] >= 0, NEW j \in Preds(k), IsProvider(j)
      PROVE  idx'[j] \in 0..(idx'[k] - 1)
  <2>1. CASE k \in WaveProviders
    <3>1. k # Start(chain)
      BY <2>1, StartCallsNobody DEF WaveProviders
    <3>2. j \in done /\ j \in reachable /\ j \notin WaveProviders
      BY <2>1, <3>1, ReadyBlock DEF WaveProviders, Ready, TypeOK, WalkTypeOK
    <3>3. idx[j] >= 0
      BY <1>8, <3>2 DEF IdxInv, Indexed
    <3>4. idx'[j] = idx[j] /\ idx[j] < nextIdx
      BY <1>5, <3>2
    <3> QED BY <1>2, <1>3, <1>4, <2>1, <3>2, <3>3, <3>4
  <2>2. CASE k \notin WaveProviders
    <3>1. idx'[k] = idx[k]
      BY <1>5, <2>2
    <3>2. idx[j] \in 0..(idx[k] - 1)
      BY <1>8, <3>1 DEF IdxInv, ChronologicalIdx
    <3>3. Indexed(j)
      <4>1. j \in reachable
        BY DEF Preds, InEdgesFrom
      <4> QED BY <1>2, <3>2, <4>1 DEF IdxInv
    <3>4. j \in reachable \ WaveProviders
      BY <1>1, <3>3 DEF Indexed, WaveProviders, Ready, Preds, InEdgesFrom
    <3> QED BY <1>5, <3>1, <3>2, <3>4
  <2> QED BY <2>1, <2>2
<1>9. ChronologicalIdx'
  <2>1. \A k \in reachable : Preds(k)' = Preds(k) /\ IsProvider(k)' = IsProvider(k)
    BY <1>1 DEF Preds, InEdgesFrom, IsProvider
  <2>2. \A k \in reachable : \A j \in Preds(k) : IsProvider(j)' = IsProvider(j)
    BY <1>1 DEF IsProvider
  <2> QED BY <1>1, <1>7, <1>8, <2>1, <2>2 DEF ChronologicalIdx
<1> QED BY <1>1, <1>6, <1>9 DEF IdxInv

(* No other step gives out an index or changes who has been launched.      *)
LEMMA IdxOtherStep ==
    ASSUME TypeOK, IdxInv, UNCHANGED <<chain, reachable, idx, nextIdx>>,
           wave' \cup done' = wave \cup done
    PROVE  IdxInv'
<1>1. \A k : Indexed(k)' = Indexed(k)
  BY DEF Indexed, IsProvider
<1>2. ChronologicalIdx'
  BY DEF IdxInv, ChronologicalIdx, Preds, InEdgesFrom, IsProvider
<1> QED BY <1>1, <1>2 DEF IdxInv

LEMMA IdxStep ==
    TypeOK /\ ChainFixed /\ WaveInv /\ IdxInv /\ [NextStep]_vars => IdxInv'
<1> SUFFICES ASSUME TypeOK, ChainFixed, WaveInv, IdxInv, [NextStep]_vars
             PROVE  IdxInv'
  OBVIOUS
<1>1. CASE StartWave
  BY <1>1, IdxStartWave
<1>2. CASE EndWave
  <2>1. UNCHANGED <<chain, reachable, idx, nextIdx>> /\ done' = done \cup wave /\ wave' = {}
    BY <1>2, Zenon DEF EndWave, chainVars
  <2> QED BY <2>1, IdxOtherStep
<1>3. CASE Finish
  <2>1. UNCHANGED <<chain, reachable, idx, nextIdx, done, wave>>
    BY <1>3, Zenon DEF Finish, chainVars
  <2> QED BY <2>1, IdxOtherStep
<1>4. ASSUME NEW k \in reachable, Branch(k)
      PROVE  IdxInv'
  <2>1. UNCHANGED <<chainVars, walkVars>>
    BY <1>4, BranchFrame
  <2> QED BY <2>1, IdxOtherStep DEF chainVars, walkVars
<1>5. CASE Elsewhere
  BY <1>5, IdxOtherStep DEF Elsewhere, chainVars, walkVars
<1> QED BY <1>1, <1>2, <1>3, <1>4, <1>5, StepKinds

(* However the branches of a wave interleave, stored steps are numbered    *)
(* chronologically (engine.go, idxByKey): no index is given twice, and a   *)
(* block's is above those of all its predecessors.                         *)
THEOREM ChronologicalTrace == Spec => []ChronologicalIdx
<1>1. IdxInv => ChronologicalIdx
  BY DEF IdxInv
<1> QED BY <1>1, IdxInit, IdxStep, WaveInvariant, PTL DEF Spec

-----------------------------------------------------------------------------
(* The rows and the outcome.                                               *)

(* A block reports when its goroutine returns; what finalize records is    *)
(* what the merge pass makes of the reports.                               *)
RecordInv ==
    /\ \A k \in reachable : pc[k] # "over" => status[k] = ""
    /\ SearchRowsMerged
    /\ OutcomeBacked

LEMMA RecordInit == Init => RecordInv
BY DEF Init, RecordInv, SearchRowsMerged, OutcomeBacked

LEMMA RecordBranch ==
    ASSUME TypeOK, WaveInv, RecordInv, NEW k \in reachable, Branch(k)
    PROVE  RecordInv'
<1>1. k \in wave /\ UNCHANGED <<chain, reachable, phase>>
  BY BranchFrame DEF chainVars, walkVars
<1>2. phase' # "done"
  BY <1>1 DEF WaveInv
<1>3. /\ pc \in [reachable -> {"idle", "resolve", "take", "call", "settle", "over"}]
      /\ status \in [reachable -> {"", "ok", "empty", "fail", "skip"}]
  BY Zenon DEF TypeOK, BranchTypeOK
<1>4. /\ pc[k] # "over"
      /\ \/ \E s : Return(k, s)
         \/ UNCHANGED status /\ \E x : pc' = [pc EXCEPT ![k] = x]
  BY Zenon DEF Branch, PassLogical, Resolve, TakeStep, OutOfBudget, Call, Settle
<1>5. \A j \in reachable : pc'[j] # "over" => status'[j] = ""
  BY <1>3, <1>4 DEF RecordInv, Return
<1> QED BY <1>1, <1>2, <1>5 DEF RecordInv, SearchRowsMerged, OutcomeBacked

(* When the walk ends, a provider block that reported has the status of    *)
(* its result, and one with an answer or rows has reported.                *)
LEMMA ReportsAreResults ==
    ASSUME WaveInv, AnswerInv, RecordInv, wave = {}, NEW k \in reachable, IsProvider(k)
    PROVE  /\ status[k] # "" => status[k] = BlockStatus(k, result[k])
           /\ result[k] # "none" => status[k] = BlockStatus(k, result[k])
<1>1. BlockInv(k)
  BY DEF AnswerInv
<1>2. pc[k] = "over" => status[k] = BlockStatus(k, result[k])
  BY <1>1 DEF BlockInv
<1>3. status[k] # "" => pc[k] = "over"
  BY DEF RecordInv
<1>4. result[k] # "none" => pc[k] = "over"
  BY <1>1 DEF BlockInv, WaveInv
<1> QED BY <1>2, <1>3, <1>4

(* A block that ends "ok" keeps an answer or its rows.                     *)
LEMMA OkKeepsSomething ==
    ASSUME NEW k, status[k] = "ok", status[k] = BlockStatus(k, result[k])
    PROVE  KeepsAnswer(k) \/ KeepsRows(k)
BY DEF BlockStatus, KeepsAnswer, KeepsRows

LEMMA RecordFinish ==
    ASSUME TypeOK, ChainFixed, WaveInv, AnswerInv, RecordInv, Finish
    PROVE  RecordInv'
<1>1. /\ UNCHANGED <<chain, reachable, pc, result, status>> /\ wave = {}
      /\ answer' = FinalAnswer
      /\ outcome' = [status |-> FinalStatus, rows |-> Merged]
  BY Zenon DEF Finish, chainVars, branchVars
<1>2. outcome'.status = FinalStatus /\ outcome'.rows = Merged
  BY <1>1
<1>3. ASSUME NEW k \in reachable, IsProvider(k), ~chain.answer[k]
      PROVE  k \in Merged <=> HasRows(result[k])
  <2>1. ASSUME HasRows(result[k])
        PROVE  k \in Merged
    <3>1. status[k] = BlockStatus(k, result[k])
      BY <1>1, <1>3, <2>1, ReportsAreResults DEF HasRows
    <3>2. status[k] = "ok"
      BY <1>3, <2>1, <3>1 DEF BlockStatus, StepRows, OK, HasRows
    <3> QED BY <1>3, <2>1, <3>2 DEF Merged, Reported, KeepsRows, KeepsAnswer, StepRows
  <2>2. k \in Merged => HasRows(result[k])
    BY DEF Merged, KeepsRows, StepRows
  <2> QED BY <2>1, <2>2
<1>4. \A k \in reachable : chain.answer[k] /\ ~chain.sparse[k] => k \notin Merged
  BY DEF Merged, KeepsRows, StepRows
<1>5. SearchRowsMerged'
  BY <1>1, <1>2, <1>3, <1>4 DEF SearchRowsMerged, IsProvider
<1>6. Merged # {} => FinalStatus = "ok"
  BY DEF FinalStatus, WalkStatus
<1>7. ASSUME FinalStatus = "ok", Merged = {}
      PROVE  FinalAnswer # NoKey
  <2>1. CASE WalkStatus = "empty"
    BY <1>7, <2>1 DEF FinalStatus
  <2>2. CASE WalkStatus # "empty"
    <3>1. LastStatus = "ok"
      BY <1>7, <2>2 DEF FinalStatus, WalkStatus
    <3>2. chain \in Chains /\ Reported \subseteq Keys(chain) /\ Answered \subseteq Keys(chain)
          /\ NoKey \notin Keys(chain) /\ chain.order \in Seq(Keys(chain))
      BY ReachableBlocks, ChainsAssumption
      DEF Reported, Answered, ChainFixed, WellFormed
    <3> DEFINE k == LastInOrder(chain, Reported)
    <3>3. k \in Reported /\ status[k] = "ok"
      BY <3>1, <3>2, LastExists DEF LastStatus
    <3>4. k \in reachable /\ IsProvider(k) /\ status[k] # ""
      BY <3>3 DEF Reported
    <3> HIDE DEF k
    <3>5. status[k] = BlockStatus(k, result[k])
      BY <1>1, <3>4, ReportsAreResults
    <3>6. k \in Answered
      BY <1>7, <3>3, <3>5, OkKeepsSomething DEF Merged, Answered
    <3>7. LastInOrder(chain, Answered) \in Answered
      BY <3>2, <3>6, LastExists
    <3> QED BY <3>2, <3>6, <3>7 DEF FinalAnswer
  <2> QED BY <2>1, <2>2
<1>8. OutcomeBacked'
  BY <1>1, <1>2, <1>6, <1>7 DEF OutcomeBacked
<1>9. \A k \in reachable : pc[k] # "over" => status[k] = ""
  BY DEF RecordInv
<1> QED BY <1>1, <1>5, <1>8, <1>9 DEF RecordInv

LEMMA RecordOtherStep ==
    ASSUME WaveInv, RecordInv, StartWave \/ EndWave \/ Elsewhere
    PROVE  RecordInv'
<1>1. CASE StartWave
  <2>1. /\ UNCHANGED <<chain, reachable, phase, status>> /\ phase = "walk" /\ wave = {}
        /\ pc' = [k \in reachable |-> IF k \in Ready THEN "resolve" ELSE pc[k]]
    BY <1>1, Zenon DEF StartWave, chainVars
  <2>2. \A k \in Ready : pc[k] # "over"
    BY <2>1 DEF Ready, WaveInv
  <2>3. \A k \in reachable : pc'[k] # "over" => status'[k] = ""
    BY <2>1, <2>2 DEF RecordInv
  <2> QED BY <2>1, <2>3 DEF RecordInv, SearchRowsMerged, OutcomeBacked
<1>2. CASE EndWave \/ Elsewhere
  <2>1. UNCHANGED <<chain, reachable, phase, pc, status, result, outcome, answer>>
    BY <1>2, Zenon DEF EndWave, Elsewhere, chainVars, walkVars, branchVars
  <2> QED BY <2>1 DEF RecordInv, SearchRowsMerged, OutcomeBacked, IsProvider
<1> QED BY <1>1, <1>2

LEMMA RecordStep ==
    TypeOK /\ ChainFixed /\ WaveInv /\ AnswerInv /\ RecordInv /\ [NextStep]_vars
        => AnswerInv' /\ RecordInv'
<1>1. TypeOK /\ WaveInv /\ AnswerInv /\ [NextStep]_vars => AnswerInv'
  BY StepKinds, AnswerStartWave, AnswerEndWave, AnswerFinish, AnswerBranch, AnswerElsewhere
<1>2. TypeOK /\ ChainFixed /\ WaveInv /\ AnswerInv /\ RecordInv /\ [NextStep]_vars => RecordInv'
  BY StepKinds, RecordBranch, RecordFinish, RecordOtherStep
<1> QED BY <1>1, <1>2

(* The merge pass loses no search block's rows and lets no answer block's  *)
(* sources in uninvited, and finalize records "ok" only with something     *)
(* found and always with rows, whichever branch reported last.             *)
THEOREM RowsAndOutcome == Spec => [](SearchRowsMerged /\ OutcomeBacked)
<1>1. RecordInv => SearchRowsMerged /\ OutcomeBacked
  BY DEF RecordInv
<1> QED BY <1>1, AnswerInit, RecordInit, RecordStep, WaveInvariant, PTL DEF Spec

(* What runFullChain records of a request is sound: the indices of its     *)
(* steps, the rows of its blocks and its outcome.                          *)
THEOREM Recorded == Spec => []RecordSound
<1>1. ChronologicalIdx /\ SearchRowsMerged /\ OutcomeBacked => RecordSound
  BY DEF RecordSound
<1> QED BY <1>1, ChronologicalTrace, RowsAndOutcome, PTL

-----------------------------------------------------------------------------
(* The budget.                                                             *)

(* Provider blocks that are not in the middle of an attempt: each of them  *)
(* may have charged extra calls past the limit, once.                      *)
OutOfCall == {k \in reachable : IsProvider(k) /\ pc[k] \notin {"call", "settle"}}

BudgetInv ==
    /\ IsFiniteSet(Attempts)
    /\ Cardinality(Attempts) <= stepNo /\ Cardinality(Attempts) <= MaxAttempts
    /\ stepNo <= MaxAttempts + MaxExtra * Cardinality(OutOfCall)

(* More blocks out of their call allow for more.                           *)
LEMMA Allowance ==
    ASSUME ChainFixed, NEW S \in SUBSET reachable, NEW T \in SUBSET reachable, S \subseteq T
    PROVE  /\ MaxExtra * Cardinality(S) \in Nat /\ MaxExtra * Cardinality(T) \in Nat
           /\ MaxExtra * Cardinality(S) <= MaxExtra * Cardinality(T)
           /\ S # T => MaxExtra * Cardinality(S) + MaxExtra <= MaxExtra * Cardinality(T)
<1>1. IsFiniteSet(T) /\ Cardinality(T) \in Nat /\ Cardinality(S) \in Nat
  BY BlockCount
<1>2. Cardinality(S) <= Cardinality(T) /\ (S # T => Cardinality(S) + 1 <= Cardinality(T))
  BY <1>1, FS_Subset
<1> DEFINE m == Cardinality(S)
           n == Cardinality(T)
<1>3. m \in Nat /\ n \in Nat /\ m <= n /\ (S # T => m + 1 <= n)
  BY <1>1, <1>2
<1> HIDE DEF m, n
<1>4. \A i \in Nat : \A j \in Nat : i <= j => MaxExtra * i <= MaxExtra * j
  BY BudgetAssumption
<1>5. \A i \in Nat : MaxExtra * i \in Nat /\ MaxExtra * (i + 1) = MaxExtra * i + MaxExtra
  BY BudgetAssumption
<1>6. MaxExtra * m <= MaxExtra * n /\ MaxExtra * m \in Nat /\ MaxExtra * n \in Nat
  BY <1>3, <1>4, <1>5
<1>7. ASSUME S # T PROVE MaxExtra * m + MaxExtra <= MaxExtra * n
  <2>1. MaxExtra * (m + 1) <= MaxExtra * n
    BY <1>3, <1>4, <1>7
  <2> QED BY <1>3, <1>5, <2>1
<1> QED BY <1>6, <1>7 DEF m, n

LEMMA BudgetInit == Init => BudgetInv
<1> SUFFICES ASSUME Init PROVE BudgetInv
  OBVIOUS
<1>1. stepNo = 0 /\ \A k \in reachable : attempt[k] = 0
  BY DEF Init
<1>2. Attempts = {}
  BY <1>1 DEF Attempts
<1>3. ChainFixed
  BY TypeInit
<1>4. OutOfCall \in SUBSET reachable
  BY DEF OutOfCall
<1>5. MaxExtra * Cardinality(OutOfCall) \in Nat
  BY <1>3, <1>4, Allowance
<1> QED BY <1>1, <1>2, <1>5, FS_EmptySet, BudgetAssumption DEF BudgetInv

(* A step that takes no attempt and charges nothing.                       *)
LEMMA BudgetQuietStep ==
    ASSUME ChainFixed, TypeOK, BudgetInv, UNCHANGED <<reachable, attempt, stepNo>>,
           OutOfCall \subseteq OutOfCall'
    PROVE  BudgetInv'
<1>1. OutOfCall \in SUBSET reachable /\ OutOfCall' \in SUBSET reachable
  BY DEF OutOfCall
<1>2. MaxExtra * Cardinality(OutOfCall) <= MaxExtra * Cardinality(OutOfCall')
      /\ MaxExtra * Cardinality(OutOfCall) \in Nat /\ MaxExtra * Cardinality(OutOfCall') \in Nat
  BY <1>1, Allowance
<1>3. stepNo' <= MaxAttempts + MaxExtra * Cardinality(OutOfCall')
  BY <1>2, BudgetAssumption DEF BudgetInv, TypeOK, SharedTypeOK
<1>4. Attempts' = Attempts
  BY DEF Attempts
<1> QED BY <1>3, <1>4 DEF BudgetInv

LEMMA BudgetTakeStep ==
    ASSUME ChainFixed, TypeOK, BudgetInv, NEW k \in reachable, TakeStep(k)
    PROVE  BudgetInv'
<1>1. /\ UNCHANGED <<reachable, chain>> /\ stepNo < MaxAttempts /\ stepNo' = stepNo + 1
      /\ attempt' = [attempt EXCEPT ![k] = @ + 1]
  BY Zenon DEF TakeStep, chainVars, HasBudget
<1>2. /\ attempt \in [reachable -> Nat] /\ stepNo \in Nat
  BY DEF TypeOK, BranchTypeOK, SharedTypeOK
<1> DEFINE x == <<k, attempt[k] + 1>>
<1>3. Attempts' = Attempts \cup {x}
  <2>1. \A j \in reachable : attempt'[j] = IF j = k THEN attempt[j] + 1 ELSE attempt[j]
    BY <1>1, <1>2
  <2>2. \A n \in Nat : 1..(n + 1) = (1..n) \cup {n + 1}
    OBVIOUS
  <2>3. \A j \in reachable : 1..attempt'[j] = (1..attempt[j]) \cup (IF j = k THEN {attempt[k] + 1} ELSE {})
    BY <1>2, <2>1, <2>2
  <2> QED BY <1>1, <2>3 DEF Attempts
<1>4. Cardinality(Attempts') <= Cardinality(Attempts) + 1 /\ IsFiniteSet(Attempts')
      /\ Cardinality(Attempts') \in Nat /\ Cardinality(Attempts) \in Nat
  <2>1. IsFiniteSet(Attempts)
    BY DEF BudgetInv
  <2> HIDE DEF x
  <2>2. Cardinality(Attempts) \in Nat
    BY <2>1, FS_CardinalityType
  <2>3. /\ IsFiniteSet(Attempts \cup {x})
        /\ Cardinality(Attempts \cup {x}) =
              IF x \in Attempts THEN Cardinality(Attempts) ELSE Cardinality(Attempts) + 1
    BY <2>1, FS_AddElement
  <2> QED BY <1>3, <2>2, <2>3
<1>5. MaxExtra * Cardinality(OutOfCall') \in Nat
  <2>1. OutOfCall' \in SUBSET reachable
    BY <1>1 DEF OutOfCall
  <2> QED BY <2>1, Allowance
<1> QED BY <1>1, <1>2, <1>4, <1>5, BudgetAssumption DEF BudgetInv

LEMMA BudgetSettle ==
    ASSUME ChainFixed, TypeOK, BudgetInv, NEW k \in reachable, BlockInv(k), Settle(k)
    PROVE  BudgetInv'
<1>1. /\ UNCHANGED <<reachable, chain, attempt>> /\ pc[k] = "settle"
      /\ \E extra \in 0..MaxExtra : stepNo' = stepNo + extra
      /\ \E x \in {"take", "over"} : pc' = [pc EXCEPT ![k] = x]
  BY Zenon DEF Settle, chainVars, Return
<1>2. pc \in [reachable -> {"idle", "resolve", "take", "call", "settle", "over"}] /\ stepNo \in Nat
  BY DEF TypeOK, BranchTypeOK, SharedTypeOK
<1>3. IsProvider(k)
  BY <1>1 DEF BlockInv
<1>4. k \in OutOfCall' /\ k \notin OutOfCall /\ OutOfCall \subseteq OutOfCall'
  BY <1>1, <1>2, <1>3 DEF OutOfCall, IsProvider
<1>5. OutOfCall \in SUBSET reachable /\ OutOfCall' \in SUBSET reachable
  BY <1>1 DEF OutOfCall
<1>6. /\ MaxExtra * Cardinality(OutOfCall) + MaxExtra <= MaxExtra * Cardinality(OutOfCall')
      /\ MaxExtra * Cardinality(OutOfCall) \in Nat /\ MaxExtra * Cardinality(OutOfCall') \in Nat
  BY <1>4, <1>5, Allowance
<1>7. Attempts' = Attempts /\ Cardinality(Attempts) \in Nat
  <2>1. IsFiniteSet(Attempts)
    BY DEF BudgetInv
  <2>2. Cardinality(Attempts) \in Nat
    BY <2>1, FS_CardinalityType
  <2> QED BY <1>1, <2>2 DEF Attempts
<1> QED BY <1>1, <1>2, <1>6, <1>7, BudgetAssumption DEF BudgetInv

LEMMA BudgetBranch ==
    ASSUME ChainFixed, TypeOK, WaveInv, AnswerInv, BudgetInv, NEW k \in reachable, Branch(k)
    PROVE  BudgetInv'
<1>1. UNCHANGED <<chain, reachable>>
  BY BranchFrame DEF chainVars
<1>2. pc \in [reachable -> {"idle", "resolve", "take", "call", "settle", "over"}]
  BY DEF TypeOK, BranchTypeOK
<1>3. CASE PassLogical(k) \/ Resolve(k) \/ OutOfBudget(k) \/ Call(k)
  <2>1. /\ UNCHANGED <<attempt, stepNo>>
        /\ \E x : /\ pc' = [pc EXCEPT ![k] = x]
                  /\ x \in {"call", "settle"} => pc[k] \in {"call", "settle"}
    BY <1>3, Zenon DEF PassLogical, Resolve, OutOfBudget, Call, Return
  <2>2. OutOfCall \subseteq OutOfCall'
    BY <1>1, <1>2, <2>1 DEF OutOfCall, IsProvider
  <2> QED BY <1>1, <2>1, <2>2, BudgetQuietStep
<1> QED BY <1>3, BudgetTakeStep, BudgetSettle DEF Branch, AnswerInv

LEMMA BudgetOtherStep ==
    ASSUME ChainFixed, TypeOK, BudgetInv, StartWave \/ EndWave \/ Finish \/ Elsewhere
    PROVE  BudgetInv'
<1>1. /\ UNCHANGED <<chain, reachable, attempt, stepNo>>
      /\ \/ UNCHANGED pc
         \/ pc' = [k \in reachable |-> IF k \in Ready THEN "resolve" ELSE pc[k]]
  BY Zenon DEF StartWave, EndWave, Finish, Elsewhere, chainVars, branchVars
<1>2. OutOfCall \subseteq OutOfCall'
  BY <1>1 DEF OutOfCall, IsProvider
<1> QED BY <1>1, <1>2, BudgetQuietStep

LEMMA BudgetStep ==
    TypeOK /\ ChainFixed /\ WaveInv /\ AnswerInv /\ BudgetInv /\ [NextStep]_vars => BudgetInv'
BY StepKinds, BudgetBranch, BudgetOtherStep

(* MAX_ATTEMPTS, checked and charged by concurrent branches in separate    *)
(* critical sections: no more attempts are taken, and extra upstream calls *)
(* push the count past it at most once for every provider block.           *)
THEOREM BudgetHolds == Spec => []BudgetBound
<1>1. TypeOK /\ ChainFixed /\ BudgetInv => BudgetBound
  <2> SUFFICES ASSUME TypeOK, ChainFixed, BudgetInv PROVE BudgetBound
    OBVIOUS
  <2> DEFINE P == {k \in reachable : IsProvider(k)}
  <2>1. OutOfCall \in SUBSET reachable /\ P \in SUBSET reachable /\ OutOfCall \subseteq P
    BY DEF OutOfCall
  <2>2. /\ MaxExtra * Cardinality(OutOfCall) <= MaxExtra * Cardinality(P)
        /\ MaxExtra * Cardinality(OutOfCall) \in Nat /\ MaxExtra * Cardinality(P) \in Nat
    <3> HIDE DEF P
    <3> QED BY <2>1, Allowance
  <2>3. StepsBound
    BY <2>2, BudgetAssumption DEF StepsBound, BudgetInv, TypeOK, SharedTypeOK
  <2> QED BY <2>3 DEF BudgetBound, AttemptsWithinBudget, BudgetInv
<1>2. TypeOK /\ ChainFixed /\ WaveInv /\ AnswerInv /\ [NextStep]_vars => AnswerInv'
  BY StepKinds, AnswerStartWave, AnswerEndWave, AnswerFinish, AnswerBranch, AnswerElsewhere
<1> QED BY <1>1, <1>2, AnswerInit, BudgetInit, BudgetStep, WaveInvariant, PTL DEF Spec
=============================================================================
