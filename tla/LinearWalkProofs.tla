-------------------------- MODULE LinearWalkProofs --------------------------
(***************************************************************************)
(* Safety of the sequential walkers, proved for every set of validated     *)
(* chains and every budget.                                                *)
(*                                                                         *)
(*   LinearTypes      the type invariant                                   *)
(*   LinearWalkIsSound  WalkSound: the budget, no block twice, the first   *)
(*                    usable result ends the request, rows, fallback and   *)
(*                    outcome                                              *)
(***************************************************************************)
EXTENDS LinearWalk, WellFoundedInduction, TLAPS

-----------------------------------------------------------------------------
(* Edges of a chain.                                                       *)

LEMMA EdgeEnds ==
    ASSUME NEW c \in Chains
    PROVE  /\ AllEdges(c) \subseteq Nat /\ NoKey \notin Keys(c)
           /\ \A i \in AllEdges(c) : c.edges[i].from \in Keys(c) /\ c.edges[i].to \in Keys(c)
<1> DEFINE Edge == [from : Keys(c), to : Keys(c), cond : Conditions]
<1>1. c.edges \in Seq(Edge) /\ NoKey \notin Keys(c)
  BY ChainsAssumption DEF WellFormed
<1>2. \A e \in Edge : e.from \in Keys(c) /\ e.to \in Keys(c)
  OBVIOUS
<1> HIDE DEF Edge
<1>3. DOMAIN c.edges = 1..Len(c.edges) /\ Len(c.edges) \in Nat
      /\ \A i \in DOMAIN c.edges : c.edges[i] \in Edge
  BY <1>1
<1> QED BY <1>1, <1>2, <1>3 DEF AllEdges

(* The first edge of a set is one of the set.                              *)
LEMMA FirstEdgeIn ==
    ASSUME NEW E, E \subseteq Nat, E # {}
    PROVE  FirstEdge(E) \in E
<1>1. PICK x \in E : \A y \in E : ~(<<y, x>> \in OpToRel(<, Nat))
  BY NatLessThanWellFounded, WFMin
<1>2. ASSUME NEW y \in E, y < x
      PROVE  <<y, x>> \in OpToRel(<, Nat)
  BY <1>2 DEF OpToRel
<1>3. ASSUME NEW y \in E
      PROVE  x <= y
  <2>1. ~(y < x)
    BY <1>1, <1>2
  <2> QED BY <2>1
<1> QED BY <1>3 DEF FirstEdge

(* Where a set of edges leads is the end of one of them.                   *)
LEMMA TargetOfSome ==
    ASSUME NEW c \in Chains, NEW E, E \subseteq AllEdges(c)
    PROVE  /\ E = {} => TargetOfFirst(c, E) = NoKey
           /\ E # {} => \E i \in E : TargetOfFirst(c, E) = c.edges[i].to
<1>1. E \subseteq Nat
  BY EdgeEnds
<1> QED BY <1>1, FirstEdgeIn DEF TargetOfFirst

(* k leads to n: by one edge.                                              *)
Leads(c, k, n) == \E i \in EdgesOutOf(c, AllEdges(c), k) : c.edges[i].to = n

LEMMA NextLeads ==
    ASSUME NEW c \in Chains, NEW k, NEW outcome0
    PROVE  Next(c, k, outcome0) = NoKey \/ Leads(c, k, Next(c, k, outcome0))
<1> DEFINE out == EdgesOutOf(c, AllEdges(c), k)
<1>1. ASSUME NEW E, E \subseteq out
      PROVE  TargetOfFirst(c, E) = NoKey \/ Leads(c, k, TargetOfFirst(c, E))
  BY <1>1, TargetOfSome DEF EdgesOutOf, Leads
<1>2. \A conds : Marked(c, out, conds) \subseteq out
  BY DEF Marked
<1> HIDE DEF out
<1> QED
  <2>1. CASE PolicyFor(c, k, outcome0) = "stop"
    BY <2>1 DEF Next
  <2>2. CASE PolicyFor(c, k, outcome0) = "edge"
    BY <2>2, <1>1, <1>2 DEF Next, out
  <2>3. CASE PolicyFor(c, k, outcome0) \notin {"stop", "edge"}
    BY <2>3, <1>1, <1>2 DEF Next, out
  <2> QED BY <2>1, <2>2, <2>3

(* A block whose policy is to go on leads somewhere if it has any edge.    *)
LEMMA NextIfAny ==
    ASSUME NEW c \in Chains, NEW k, NEW outcome0, PolicyFor(c, k, outcome0) = "next",
           EdgesOutOf(c, AllEdges(c), k) # {}
    PROVE  Leads(c, k, Next(c, k, outcome0))
<1> DEFINE out == EdgesOutOf(c, AllEdges(c), k)
<1>1. ASSUME NEW E, E \subseteq out, E # {}
      PROVE  Leads(c, k, TargetOfFirst(c, E))
  BY <1>1, TargetOfSome DEF EdgesOutOf, Leads
<1>2. \A conds : Marked(c, out, conds) \subseteq out
  BY DEF Marked
<1> HIDE DEF out
<1> QED BY <1>1, <1>2 DEF Next, out

LEMMA NeutralLeads ==
    ASSUME NEW c \in Chains, NEW k
    PROVE  NextInFullChain(c, k) = NoKey \/ Leads(c, k, NextInFullChain(c, k))
<1>1. EdgesOutOf(c, NeutralEdges(c), k) \subseteq EdgesOutOf(c, AllEdges(c), k)
  BY DEF EdgesOutOf, NeutralEdges, AllEdges
<1>2. EdgesOutOf(c, NeutralEdges(c), k) \subseteq AllEdges(c)
  BY DEF EdgesOutOf, NeutralEdges, AllEdges
<1> QED BY <1>1, <1>2, TargetOfSome DEF NextInFullChain, Leads

LEMMA LeadsToBlock ==
    ASSUME NEW c \in Chains, NEW k, NEW n, Leads(c, k, n)
    PROVE  n \in Keys(c) /\ n # NoKey
BY EdgeEnds DEF Leads, EdgesOutOf

-----------------------------------------------------------------------------
(* What lies ahead of a block.  In a chain without a cycle that never      *)
(* includes the block itself: why no walk comes back.                      *)

Ahead(c, k) ==
    {n \in Keys(c) : \A S \in SUBSET Keys(c) :
        (Closed(c, AllEdges(c), S) /\ \A m \in Keys(c) : Leads(c, k, m) => m \in S) => n \in S}

LEMMA AheadGrows ==
    ASSUME NEW c \in Chains, NEW k, NEW n
    PROVE  /\ Leads(c, k, n) => n \in Ahead(c, k)
           /\ \A m \in Ahead(c, k) : Leads(c, m, n) => n \in Ahead(c, k)
<1>1. Leads(c, k, n) => n \in Ahead(c, k)
  BY LeadsToBlock DEF Ahead
<1>2. ASSUME NEW m \in Ahead(c, k), Leads(c, m, n)
      PROVE  n \in Ahead(c, k)
  <2>1. n \in Keys(c)
    BY <1>2, LeadsToBlock
  <2> SUFFICES ASSUME NEW S \in SUBSET Keys(c), Closed(c, AllEdges(c), S),
                      \A x \in Keys(c) : Leads(c, k, x) => x \in S
               PROVE  n \in S
    BY <2>1 DEF Ahead
  <2>2. m \in S
    BY DEF Ahead
  <2> QED BY <1>2, <2>2 DEF Leads, EdgesOutOf, Closed
<1> QED BY <1>1, <1>2

LEMMA NeverAheadOfItself ==
    ASSUME NEW c \in Chains, NEW k
    PROVE  k \notin Ahead(c, k)
<1> SUFFICES ASSUME k \in Ahead(c, k) PROVE FALSE
  OBVIOUS
<1> DEFINE Y == Ahead(c, k)
<1>1. Y \in SUBSET Keys(c) /\ Y # {}
  BY DEF Ahead
<1>2. PICK n \in Y : \A i \in AllEdges(c) : c.edges[i].to = n => c.edges[i].from \notin Y
  <2>1. Acyclic(c, AllEdges(c))
    BY ChainsAssumption DEF ValidChain
  <2> QED BY <1>1, <2>1 DEF Acyclic
<1> DEFINE Z == Y \ {n}
<1>3. \A i \in AllEdges(c) : c.edges[i].from \in Y => c.edges[i].to \in Z
  <2> SUFFICES ASSUME NEW i \in AllEdges(c), c.edges[i].from \in Y
               PROVE  c.edges[i].to \in Z
    OBVIOUS
  <2>1. Leads(c, c.edges[i].from, c.edges[i].to)
    BY DEF Leads, EdgesOutOf
  <2> QED BY <1>2, <2>1, AheadGrows
<1>4. Closed(c, AllEdges(c), Z)
  BY <1>3 DEF Closed
<1>5. \A m \in Keys(c) : Leads(c, k, m) => m \in Z
  BY <1>3 DEF Leads, EdgesOutOf
<1>6. n \in Z
  <2>1. Z \in SUBSET Keys(c)
    BY <1>1
  <2> HIDE DEF Z
  <2> QED BY <1>2, <1>4, <1>5, <2>1 DEF Ahead
<1> QED BY <1>6

-----------------------------------------------------------------------------
(* Types, and the budget.                                                  *)

Entry == Keys(chain) \X (ResultKinds \cup {"skip"})

(* While a block's loop runs the walk is at a block, and it was entered    *)
(* with budget to spare.                                                   *)
LoopOK ==
    running =>
        /\ outcome = "running" /\ node \in Keys(chain)
        /\ last = "none" => attempt = 0 /\ ~gaveUp /\ HasBudget

WalkTypes ==
    /\ chain \in Chains
    /\ TypeOK
    /\ trail \in Seq(Entry)
    /\ LoopOK

(* A loop that is over has a result.                                       *)
LEMMA LoopHasResult ==
    ASSUME WalkTypes, running, LoopOver
    PROVE  last \in ResultKinds /\ node \in Keys(chain) /\ outcome = "running"
<1>1. node \in Keys(chain) /\ outcome = "running" /\ last \in ResultKinds \cup {"none"}
  BY DEF WalkTypes, LoopOK, TypeOK
<1>2. chain.retries[node] \in Nat
  BY <1>1, ChainsAssumption DEF WellFormed, WalkTypes
<1>3. last # "none"
  <2> SUFFICES ASSUME last = "none" PROVE FALSE
    OBVIOUS
  <2>1. attempt = 0 /\ ~gaveUp /\ HasBudget
    BY DEF WalkTypes, LoopOK
  <2>2. ~(attempt > chain.retries[node])
    BY <1>2, <2>1
  <2> QED BY <2>1, <2>2 DEF LoopOver
<1> QED BY <1>1, <1>3

LEMMA NodesOfWalk ==
    ASSUME WalkTypes
    PROVE  /\ NoKey \notin Keys(chain)
           /\ \A o : Next(chain, node, o) \in Keys(chain) \cup {NoKey}
           /\ NextInFullChain(chain, node) \in Keys(chain) \cup {NoKey}
           /\ AfterSkip(node) \in Keys(chain) \cup {NoKey}
BY EdgeEnds, NextLeads, NeutralLeads, LeadsToBlock DEF WalkTypes, AfterSkip

(* A report appends one entry to the trail.                                *)
LEMMA TrailGrows ==
    ASSUME trail \in Seq(Entry), UNCHANGED chain,
           NEW e \in Entry, trail' = Append(trail, e)
    PROVE  /\ trail' \in Seq(Entry') /\ Len(trail') = Len(trail) + 1 /\ Len(trail) \in Nat
           /\ DOMAIN trail' = DOMAIN trail \cup {Len(trail')}
           /\ Len(trail') \notin DOMAIN trail
           /\ \A i \in DOMAIN trail : trail'[i] = trail[i]
           /\ trail'[Len(trail')] = e
<1>1. Entry' = Entry
  BY DEF Entry
<1> HIDE DEF Entry
<1> QED BY <1>1

LEMMA ChainStep ==
    ASSUME [NextStep]_vars
    PROVE  UNCHANGED chain
BY DEF NextStep, Walk, vars, PassLogical, Skip, Enter, Attempt, Succeed, SteerOn, MergeOn,
       Report, Exhaust, Cancel, Terminated

(* How a step reports: a block that was skipped, or one whose loop is over.*)
Reports(r) ==
    /\ outcome = "running" /\ node \in Keys(chain) /\ r \in ResultKinds \cup {"skip"}
    /\ trail' = Append(trail, <<node, r>>)
    /\ running' = FALSE

LEMMA Reporting ==
    ASSUME WalkTypes
    PROVE  /\ Skip => Reports("skip")
           /\ Succeed \/ SteerOn \/ MergeOn => last \in ResultKinds /\ Reports(last)
           /\ Skip \/ Succeed \/ SteerOn \/ MergeOn => UNCHANGED chain
<1>1. Skip => Reports("skip")
  BY Zenon DEF Skip, AtBlock, Reports, WalkTypes, TypeOK, blockVars
<1>2. Succeed \/ SteerOn \/ MergeOn => running /\ LoopOver /\ Report
  BY Zenon DEF Succeed, SteerOn, MergeOn
<1>3. Succeed \/ SteerOn \/ MergeOn => last \in ResultKinds /\ Reports(last)
  BY <1>2, LoopHasResult, Zenon DEF Report, Reports
<1>4. Skip \/ Succeed \/ SteerOn \/ MergeOn => UNCHANGED chain
  BY Zenon DEF Skip, Succeed, SteerOn, MergeOn, Report
<1> QED BY <1>1, <1>3, <1>4

LEMMA TypesInit == Init => WalkTypes
<1> SUFFICES ASSUME Init PROVE WalkTypes
  OBVIOUS
<1>1. chain \in Chains /\ node \in Keys(chain)
  BY ChainsAssumption DEF Init
<1>2. trail \in Seq(Entry)
  <2>1. trail = <<>>
    BY DEF Init
  <2> HIDE DEF Entry
  <2> QED BY <2>1
<1> QED BY <1>1, <1>2 DEF Init, WalkTypes, TypeOK, LoopOK, ResultKinds

LEMMA TypesStep == WalkTypes /\ [NextStep]_vars => WalkTypes'
<1> SUFFICES ASSUME WalkTypes, [NextStep]_vars PROVE WalkTypes'
  OBVIOUS
<1>1. UNCHANGED chain /\ chain \in Chains
  BY ChainStep DEF WalkTypes
<1>2. ASSUME NEW r, Reports(r)
      PROVE  trail' \in Seq(Entry')
  <2>1. <<node, r>> \in Entry
    BY <1>2 DEF Reports, Entry
  <2> QED BY <1>1, <1>2, <2>1, TrailGrows DEF WalkTypes, Reports
<1>3. UNCHANGED trail => trail' \in Seq(Entry')
  BY <1>1 DEF Entry, WalkTypes
<1>4. CASE PassLogical
  <2>1. TypeOK'
    BY <1>4, <1>1, NodesOfWalk DEF PassLogical, AtBlock, Visit, WalkTypes, TypeOK, blockVars
  <2>2. LoopOK'
    BY <1>4 DEF PassLogical, AtBlock, blockVars, LoopOK
  <2> QED BY <1>1, <1>3, <1>4, <2>1, <2>2 DEF PassLogical, WalkTypes
<1>5. CASE Skip
  <2>1. TypeOK'
    BY <1>5, <1>1, NodesOfWalk DEF Skip, AtBlock, Visit, WalkTypes, TypeOK, blockVars
  <2>2. LoopOK'
    BY <1>5 DEF Skip, AtBlock, blockVars, LoopOK
  <2> QED BY <1>1, <1>2, <1>5, <2>1, <2>2, Reporting DEF WalkTypes
<1>6. CASE Enter
  <2>1. TypeOK'
    BY <1>6, <1>1 DEF Enter, AtBlock, Visit, WalkTypes, TypeOK
  <2>2. LoopOK'
    BY <1>6, <1>1 DEF Enter, AtBlock, WalkTypes, TypeOK, LoopOK, HasBudget
  <2> QED BY <1>1, <1>3, <1>6, <2>1, <2>2 DEF Enter, WalkTypes
<1>7. CASE Attempt
  <2>1. PICK r \in Results(node), extra \in 0..MaxExtra :
          /\ last' = r
          /\ stepNo' = stepNo + 1 + extra
          /\ answer' = IF chain.answer[node] /\ HasAnswer(r) THEN node ELSE answer
          /\ gaveUp' = (r = "fail" /\ attempt < chain.retries[node]
                                   /\ stepNo + 1 < MaxAttempts /\ cancelled)
    BY <1>7, Zenon DEF Attempt
  <2>2. running /\ attempt' = attempt + 1
        /\ UNCHANGED <<chain, node, visited, running, cancelled, rows, lastStatus, trail, outcome>>
    BY <1>7, Zenon DEF Attempt
  <2>3. last' \in ResultKinds /\ last' # "none"
    BY <2>1 DEF Results, ResultKinds
  <2>4. stepNo' \in Nat /\ attempt' \in Nat
    <3>1. stepNo \in Nat /\ attempt \in Nat
      BY DEF WalkTypes, TypeOK
    <3>2. extra \in Nat
      BY BudgetAssumption
    <3> QED BY <2>1, <2>2, <3>1, <3>2
  <2>5. gaveUp' \in BOOLEAN
    BY <2>1, Zenon
  <2>6. node \in Keys(chain) /\ outcome = "running"
    BY <2>2 DEF WalkTypes, LoopOK
  <2>7. answer' \in Keys(chain) \cup {NoKey}
    BY <2>1, <2>6 DEF WalkTypes, TypeOK
  <2>8. TypeOK'
    BY <1>1, <2>2, <2>3, <2>4, <2>5, <2>7 DEF WalkTypes, TypeOK
  <2>9. LoopOK'
    BY <1>1, <2>2, <2>3, <2>6 DEF LoopOK
  <2> QED BY <1>1, <1>3, <2>2, <2>8, <2>9 DEF WalkTypes
<1>8. CASE Succeed \/ SteerOn \/ MergeOn
  <2>1. Report /\ running'  = FALSE
    BY <1>8, Zenon DEF Succeed, SteerOn, MergeOn, Report
  <2>2. node' \in Keys(chain) \cup {NoKey}
    BY <1>8, NodesOfWalk, LoopHasResult DEF Succeed, SteerOn, MergeOn
  <2>3. rows' \subseteq Keys(chain)
    <3>1. rows' = rows \cup BlockRows(node, last) /\ node \in Keys(chain)
      BY <1>8, LoopHasResult, Zenon DEF Succeed, SteerOn, MergeOn
    <3> QED BY <3>1 DEF BlockRows, WalkTypes, TypeOK
  <2>4. lastStatus' \in {"", "ok", "empty", "fail", "skip"}
    BY <1>8 DEF Succeed, SteerOn, MergeOn, KindStatus, BlockStatus, WalkTypes, TypeOK
  <2>5. outcome' \in {"running", "ok", "empty", "fail"}
    BY <1>8 DEF Succeed, SteerOn, MergeOn, WalkTypes, TypeOK
  <2>6. TypeOK'
    BY <1>1, <2>1, <2>2, <2>3, <2>4, <2>5 DEF Report, WalkTypes, TypeOK
  <2>7. LoopOK'
    BY <2>1 DEF LoopOK
  <2> QED BY <1>1, <1>2, <1>8, <2>6, <2>7, Reporting DEF WalkTypes
<1>9. CASE Exhaust
  <2>1. TypeOK'
    BY <1>9, <1>1 DEF Exhaust, FinalStatus, ExhaustedStatus, WalkTypes, TypeOK, blockVars
  <2>2. LoopOK'
    BY <1>9 DEF Exhaust, LoopOK, blockVars
  <2> QED BY <1>1, <1>3, <1>9, <2>1, <2>2 DEF Exhaust, WalkTypes
<1>10. CASE Cancel \/ UNCHANGED vars
  <2>1. TypeOK'
    BY <1>10, <1>1 DEF Cancel, vars, WalkTypes, TypeOK, blockVars
  <2>2. LoopOK'
    BY <1>10, <1>1 DEF Cancel, vars, WalkTypes, LoopOK, HasBudget, blockVars
  <2> QED BY <1>1, <1>3, <1>10, <2>1, <2>2 DEF Cancel, vars, WalkTypes
<1> QED BY <1>4, <1>5, <1>6, <1>7, <1>8, <1>9, <1>10 DEF NextStep, Walk, Terminated

(* Every variable keeps its type.                                          *)
THEOREM LinearTypes == Spec => []TypeOK
<1>1. WalkTypes => TypeOK
  BY DEF WalkTypes
<1> QED BY TypesInit, TypesStep, <1>1, PTL DEF Spec

-----------------------------------------------------------------------------
(* What a step does to the walk's place and to its trail.                  *)

Follows(n) == n = NoKey \/ Leads(chain, node, n)

LEMMA StepKinds ==
    ASSUME WalkTypes, [NextStep]_vars
    PROVE  \/ UNCHANGED <<node, trail>> /\ (outcome' = "running" => outcome = "running")
           \/ /\ PassLogical
              /\ UNCHANGED <<trail, outcome>> /\ outcome = "running"
              /\ node \in Keys(chain) /\ Follows(node')
           \/ \E r : Reports(r) /\ (outcome' = "running" => Follows(node'))
<1>1. CASE PassLogical
  <2>1. node \in Keys(chain) /\ outcome = "running" /\ UNCHANGED <<trail, outcome>>
    BY <1>1 DEF PassLogical, AtBlock, WalkTypes, TypeOK
  <2>2. Follows(node')
    BY <1>1, NeutralLeads DEF PassLogical, Follows, WalkTypes
  <2> QED BY <1>1, <2>1, <2>2
<1>2. CASE Skip
  <2>1. Follows(node')
    BY <1>2, NextLeads, NeutralLeads DEF Skip, AfterSkip, Follows, WalkTypes
  <2> QED BY <1>2, <2>1, Reporting
<1>3. CASE Succeed
  BY <1>3, Reporting DEF Succeed
<1>4. CASE SteerOn \/ MergeOn
  <2>1. Follows(node')
    BY <1>4, NextLeads, NeutralLeads DEF SteerOn, MergeOn, Follows, WalkTypes
  <2> QED BY <1>4, <2>1, Reporting
<1>5. CASE Enter \/ Attempt \/ Exhaust \/ Cancel \/ Terminated \/ UNCHANGED vars
  BY <1>5, Zenon DEF Enter, Attempt, Exhaust, Cancel, Terminated, vars
<1> QED BY <1>1, <1>2, <1>3, <1>4, <1>5 DEF NextStep, Walk

(* What an entry of the trail says does not change.                        *)
LEMMA OldEntry ==
    ASSUME UNCHANGED chain, NEW i, trail'[i] = trail[i]
    PROVE  /\ Visited(i)' = Visited(i) /\ Result(i)' = Result(i)
           /\ WonAt(i)' <=> WonAt(i)
           /\ BringsRows(i)' <=> BringsRows(i)
           /\ MayContinue(Visited(i))' <=> MayContinue(Visited(i))
BY DEF Visited, Result, WonAt, Won, OK, HasRows, HasAnswer, StepRows, BringsRows, MayContinue

LEMMA NewEntry ==
    ASSUME UNCHANGED chain, NEW i, NEW r, trail'[i] = <<node, r>>
    PROVE  /\ Visited(i)' = node /\ Result(i)' = r
           /\ WonAt(i)' <=> r # "skip" /\ Won(node, r)
           /\ BringsRows(i)' <=> r # "skip" /\ Won(node, r) /\ StepRows(node, r)
           /\ MayContinue(Visited(i))' <=> MayContinue(node)
BY DEF Visited, Result, WonAt, Won, OK, HasRows, HasAnswer, StepRows, BringsRows, MayContinue

LEMMA ReportGrows ==
    ASSUME WalkTypes, UNCHANGED chain, NEW r, Reports(r)
    PROVE  /\ DOMAIN trail' = DOMAIN trail \cup {Len(trail')}
           /\ Len(trail') \notin DOMAIN trail
           /\ \A i \in DOMAIN trail : trail'[i] = trail[i]
           /\ trail'[Len(trail')] = <<node, r>>
           /\ trail' # <<>>
<1>1. <<node, r>> \in Entry
  BY DEF Reports, Entry
<1>2. /\ Len(trail') = Len(trail) + 1 /\ Len(trail) \in Nat
      /\ DOMAIN trail' = DOMAIN trail \cup {Len(trail')}
      /\ Len(trail') \notin DOMAIN trail
      /\ \A i \in DOMAIN trail : trail'[i] = trail[i]
      /\ trail'[Len(trail')] = <<node, r>>
  BY <1>1, TrailGrows DEF Reports, WalkTypes
<1> QED BY <1>2

-----------------------------------------------------------------------------
(* SequentialBudget.                                                       *)

StepBound == stepNo < MaxAttempts + 1 + MaxExtra

LEMMA BudgetStep ==
    ASSUME WalkTypes, StepBound, [NextStep]_vars
    PROVE  StepBound'
<1>1. CASE Attempt
  <2>1. PICK extra \in 0..MaxExtra : stepNo' = stepNo + 1 + extra
    BY <1>1, Zenon DEF Attempt
  <2>2. HasBudget
    BY <1>1, Zenon DEF Attempt, LoopOver
  <2>3. stepNo \in Nat
    BY DEF WalkTypes, TypeOK
  <2> QED BY <2>1, <2>2, <2>3, BudgetAssumption DEF HasBudget, StepBound
<1>2. CASE UNCHANGED stepNo
  BY <1>2 DEF StepBound
<1> QED BY <1>1, <1>2 DEF NextStep, Walk, PassLogical, Skip, Enter, Succeed, SteerOn, MergeOn,
        Report, Exhaust, Cancel, Terminated, vars

LEMMA BudgetFollows ==
    ASSUME WalkTypes, StepBound
    PROVE  SequentialBudget
<1>1. \A i \in DOMAIN trail : trail[i] \in Entry
  <2>1. trail \in Seq(Entry)
    BY DEF WalkTypes
  <2> HIDE DEF Entry
  <2> QED BY <2>1
<1> QED BY <1>1 DEF Entry, SequentialBudget, StepBound, Result, ResultKinds

-----------------------------------------------------------------------------
(* NoBlockTwice: the walk is always ahead of the blocks it visited.        *)

OnTheWay ==
    outcome = "running" /\ node # NoKey =>
        \A i \in DOMAIN trail : node \in Ahead(chain, Visited(i))

LEMMA OnTheWayStep ==
    ASSUME WalkTypes, OnTheWay, NoBlockTwice, [NextStep]_vars
    PROVE  OnTheWay' /\ NoBlockTwice'
<1>1. UNCHANGED chain /\ chain \in Chains
  BY ChainStep DEF WalkTypes
<1>2. CASE UNCHANGED <<node, trail>> /\ (outcome' = "running" => outcome = "running")
  BY <1>1, <1>2 DEF OnTheWay, NoBlockTwice, Visited
<1>3. ASSUME UNCHANGED trail, outcome = "running", node \in Keys(chain), Follows(node')
      PROVE  OnTheWay' /\ NoBlockTwice'
  <2>1. NoBlockTwice'
    BY <1>3 DEF NoBlockTwice, Visited
  <2>2. ASSUME node' # NoKey, NEW i \in DOMAIN trail
        PROVE  node' \in Ahead(chain, Visited(i))
    <3>1. node \in Ahead(chain, Visited(i))
      BY <1>1, <1>3, EdgeEnds DEF OnTheWay
    <3> QED BY <1>1, <1>3, <2>2, <3>1, AheadGrows DEF Follows
  <2>3. OnTheWay'
    BY <1>1, <1>3, <2>2 DEF OnTheWay, Visited
  <2> QED BY <2>1, <2>3
<1>4. ASSUME NEW r, Reports(r), outcome' = "running" => Follows(node')
      PROVE  OnTheWay' /\ NoBlockTwice'
  <2>1. /\ DOMAIN trail' = DOMAIN trail \cup {Len(trail')}
        /\ Len(trail') \notin DOMAIN trail
        /\ \A i \in DOMAIN trail : trail'[i] = trail[i]
        /\ trail'[Len(trail')] = <<node, r>>
    BY <1>1, <1>4, ReportGrows
  <2>2. node # NoKey /\ outcome = "running"
    BY <1>1, <1>4, EdgeEnds DEF Reports
  <2>3. ASSUME NEW i \in DOMAIN trail
        PROVE  node \in Ahead(chain, Visited(i)) /\ Visited(i) # node
    BY <1>1, <2>2, NeverAheadOfItself DEF OnTheWay
  <2>4. NoBlockTwice'
    <3>1. \A i \in DOMAIN trail : trail'[i][1] = Visited(i) /\ trail'[i][1] # node
      BY <2>1, <2>3 DEF Visited
    <3>2. trail'[Len(trail')][1] = node
      BY <2>1
    <3>3. ASSUME NEW i \in DOMAIN trail', NEW j \in DOMAIN trail', i # j
          PROVE  trail'[i][1] # trail'[j][1]
      <4>1. CASE i \in DOMAIN trail /\ j \in DOMAIN trail
        BY <3>1, <3>3, <4>1 DEF NoBlockTwice
      <4>2. CASE i = Len(trail') \/ j = Len(trail')
        BY <2>1, <3>1, <3>2, <3>3, <4>2
      <4> QED BY <2>1, <4>1, <4>2
    <3> QED BY <3>3 DEF NoBlockTwice, Visited
  <2>5. ASSUME outcome' = "running", node' # NoKey, NEW i \in DOMAIN trail'
        PROVE  node' \in Ahead(chain, Visited(i)')
    <3>1. Leads(chain, node, node')
      BY <1>4, <2>5 DEF Follows
    <3>2. CASE i = Len(trail')
      <4>1. Visited(i)' = node
        BY <2>1, <3>2 DEF Visited
      <4> QED BY <1>1, <3>1, <4>1, AheadGrows
    <3>3. CASE i \in DOMAIN trail
      <4>1. Visited(i)' = Visited(i)
        BY <2>1, <3>3 DEF Visited
      <4> QED BY <1>1, <3>1, <3>3, <4>1, <2>3, AheadGrows
    <3> QED BY <2>1, <2>5, <3>2, <3>3
  <2>6. OnTheWay'
    BY <1>1, <2>5 DEF OnTheWay, Visited
  <2> QED BY <2>4, <2>6
<1> QED BY <1>2, <1>3, <1>4, StepKinds

-----------------------------------------------------------------------------
(* FirstUsableEnds: while a request goes on, what it won so far was not    *)
(* meant to end it.                                                        *)

GoesOn ==
    FirstSuccess /\ outcome = "running" =>
        \A i \in DOMAIN trail : WonAt(i) => MayContinue(Visited(i))

LEMMA ContinuingPolicy ==
    ASSUME WalkTypes, NEW k \in Keys(chain)
    PROVE  ContinuesOnSuccess(k) <=> MayContinue(k)
<1>1. chain.policy[k]["success"] \in {"", "stop", "next", "edge"}
  <2>1. chain.policy \in [Keys(chain) -> [{"success", "empty", "fail"} -> {"", "stop", "next", "edge"}]]
    BY ChainsAssumption DEF WalkTypes
  <2>2. chain.policy[k] \in [{"success", "empty", "fail"} -> {"", "stop", "next", "edge"}]
    BY <2>1
  <2> QED BY <2>2
<1> QED BY <1>1 DEF ContinuesOnSuccess, MayContinue, PolicyFor

LEMMA UsableStep ==
    ASSUME WalkTypes, GoesOn, FirstUsableEnds, [NextStep]_vars
    PROVE  GoesOn' /\ FirstUsableEnds'
<1>1. UNCHANGED chain /\ chain \in Chains /\ (FirstSuccess' <=> FirstSuccess)
  BY ChainStep DEF WalkTypes, FirstSuccess
<1>2. ASSUME UNCHANGED trail, outcome' = "running" => outcome = "running",
             outcome' = outcome \/ outcome = "running"
      PROVE  GoesOn' /\ FirstUsableEnds'
  <2>1. \A i \in DOMAIN trail : /\ WonAt(i)' <=> WonAt(i)
                                /\ MayContinue(Visited(i))' <=> MayContinue(Visited(i))
    BY <1>1, <1>2, OldEntry
  <2>2. GoesOn'
    BY <1>1, <1>2, <2>1 DEF GoesOn
  <2>3. FirstUsableEnds'
    BY <1>1, <1>2, <2>1 DEF GoesOn, FirstUsableEnds
  <2> QED BY <2>2, <2>3
<1>3. ASSUME NEW r, Reports(r),
             r # "skip" /\ Won(node, r) /\ FirstSuccess /\ ~MayContinue(node) => outcome' = "ok",
             FirstSuccess /\ outcome' = "running" /\ r # "skip" /\ Won(node, r) => MayContinue(node)
      PROVE  GoesOn' /\ FirstUsableEnds'
  <2>1. PICK n : /\ DOMAIN trail' = DOMAIN trail \cup {n}
                 /\ \A i \in DOMAIN trail : trail'[i] = trail[i]
                 /\ trail'[n] = <<node, r>> /\ n = Len(trail')
    BY <1>1, <1>3, ReportGrows
  <2>2. ASSUME FirstSuccess, NEW i \in DOMAIN trail
        PROVE  WonAt(i)' => MayContinue(Visited(i))'
    <3>1. /\ WonAt(i)' <=> WonAt(i)
          /\ MayContinue(Visited(i))' <=> MayContinue(Visited(i))
      BY <1>1, <2>1, OldEntry
    <3> QED BY <1>3, <2>2, <3>1 DEF GoesOn, Reports
  <2>3. /\ WonAt(n)' <=> r # "skip" /\ Won(node, r)
        /\ MayContinue(Visited(n))' <=> MayContinue(node)
    BY <1>1, <2>1, NewEntry
  <2>4. GoesOn'
    BY <1>1, <1>3, <2>1, <2>2, <2>3 DEF GoesOn
  <2>5. FirstUsableEnds'
    BY <1>1, <1>3, <2>1, <2>2, <2>3 DEF FirstUsableEnds
  <2> QED BY <2>4, <2>5
<1>4. CASE PassLogical \/ Enter \/ Attempt \/ Exhaust \/ Cancel \/ Terminated \/ UNCHANGED vars
  <2>1. /\ UNCHANGED trail /\ (outcome' = "running" => outcome = "running")
        /\ outcome' = outcome \/ outcome = "running"
    BY <1>4, Zenon DEF PassLogical, Enter, Attempt, Exhaust, Cancel, Terminated, vars
  <2> QED BY <1>2, <2>1
<1>5. CASE Skip
  BY <1>5, <1>3, Reporting
<1>6. CASE Succeed
  BY <1>6, <1>3, Reporting DEF Succeed
<1>7. CASE SteerOn
  <2>1. Reports(last) /\ (Won(node, last) => MayContinue(node))
    BY <1>7, Reporting, ContinuingPolicy DEF SteerOn, Reports
  <2> QED BY <1>3, <2>1
<1>8. CASE MergeOn
  BY <1>8, <1>3, Reporting DEF MergeOn
<1> QED BY <1>4, <1>5, <1>6, <1>7, <1>8 DEF NextStep, Walk

-----------------------------------------------------------------------------
(* RowsOfWinners.                                                          *)

LEMMA RowsStep ==
    ASSUME WalkTypes, RowsOfWinners, [NextStep]_vars
    PROVE  RowsOfWinners'
<1> DEFINE Rows == {Visited(i) : i \in {j \in DOMAIN trail : BringsRows(j)}}
<1>1. UNCHANGED chain
  BY ChainStep
<1>2. CASE UNCHANGED <<trail, rows>>
  <2>1. \A i \in DOMAIN trail : Visited(i)' = Visited(i) /\ (BringsRows(i)' <=> BringsRows(i))
    BY <1>1, <1>2, OldEntry
  <2>2. Rows' = Rows
    BY <1>2, <2>1
  <2> QED BY <1>2, <2>2 DEF RowsOfWinners
<1>3. ASSUME NEW r, Reports(r),
             rows' = rows \cup (IF r # "skip" THEN BlockRows(node, r) ELSE {})
      PROVE  RowsOfWinners'
  <2>1. PICK n : /\ DOMAIN trail' = DOMAIN trail \cup {n} /\ n \notin DOMAIN trail
                 /\ \A i \in DOMAIN trail : trail'[i] = trail[i]
                 /\ trail'[n] = <<node, r>>
    BY <1>1, <1>3, ReportGrows
  <2>2. \A i \in DOMAIN trail : Visited(i)' = Visited(i) /\ (BringsRows(i)' <=> BringsRows(i))
    BY <1>1, <2>1, OldEntry
  <2>3. /\ Visited(n)' = node
        /\ BringsRows(n)' <=> r # "skip" /\ Won(node, r) /\ StepRows(node, r)
    BY <1>1, <2>1, NewEntry
  <2>4. Rows' = Rows \cup {node}  \/ ~BringsRows(n)'
    BY <2>1, <2>2, <2>3
  <2>5. Rows' = Rows \/ BringsRows(n)'
    BY <2>1, <2>2, <2>3
  <2>6. BlockRows(node, r) = IF Won(node, r) /\ StepRows(node, r) THEN {node} ELSE {}
    BY DEF BlockRows
  <2>7. rows = Rows
    BY DEF RowsOfWinners
  <2>8. rows' = Rows'
    BY <1>3, <2>3, <2>4, <2>5, <2>6, <2>7
  <2> QED BY <2>8 DEF RowsOfWinners
<1>4. CASE PassLogical \/ Enter \/ Attempt \/ Exhaust \/ Cancel \/ Terminated \/ UNCHANGED vars
  <2>1. UNCHANGED <<trail, rows>>
    BY <1>4, Zenon DEF PassLogical, Enter, Attempt, Exhaust, Cancel, Terminated, vars
  <2> QED BY <1>2, <2>1
<1>5. CASE Skip
  BY <1>5, <1>3, Reporting DEF Skip
<1>6. CASE Succeed \/ SteerOn \/ MergeOn
  <2>1. last # "skip" /\ Reports(last)
    BY <1>6, Reporting DEF ResultKinds
  <2>2. rows' = rows \cup BlockRows(node, last)
    BY <1>6, Zenon DEF Succeed, SteerOn, MergeOn
  <2> QED BY <1>3, <2>1, <2>2
<1> QED BY <1>4, <1>5, <1>6 DEF NextStep, Walk

-----------------------------------------------------------------------------
(* FallbackExhausted: from a block that leads on, the walk is at a         *)
(* provider block, so only a spent budget ends it there.                   *)

MustGoOn(i) ==
    /\ i = Len(trail) /\ FirstSuccess /\ DefaultPolicies
    /\ ~WonAt(i) /\ LeadsOn(Visited(i))

WayOn ==
    \A i \in DOMAIN trail : MustGoOn(i) =>
        /\ outcome = "running" /\ ~running => node \in Keys(chain) /\ chain.kind[node] = "provider"
        /\ Ended => ~HasBudget

LEMMA FixedChain ==
    ASSUME UNCHANGED chain
    PROVE  /\ FirstSuccess' <=> FirstSuccess
           /\ DefaultPolicies' <=> DefaultPolicies
           /\ \A k : LeadsOn(k)' <=> LeadsOn(k)
BY DEF FirstSuccess, DefaultPolicies, PolicyFor, LeadsOn, Keys, AllEdges, EdgesOutOf

(* A default policy leads on from every outcome that is not a success.     *)
LEMMA DefaultLeads ==
    ASSUME WalkTypes, DefaultPolicies, node \in Keys(chain), LeadsOn(node),
           NEW o \in {"empty", "fail"}
    PROVE  /\ Next(chain, node, o) \in Keys(chain)
           /\ chain.kind[Next(chain, node, o)] = "provider"
<1>1. PolicyFor(chain, node, o) = "next" /\ chain \in Chains
  BY DEF DefaultPolicies, WalkTypes
<1>2. Leads(chain, node, Next(chain, node, o))
  BY <1>1, NextIfAny DEF LeadsOn
<1>3. Next(chain, node, o) \in Keys(chain)
  BY <1>1, <1>2, LeadsToBlock
<1> QED BY <1>2, <1>3 DEF LeadsOn, Leads

LEMMA NotWonOutcome ==
    ASSUME NEW k, NEW r, ~Won(k, r)
    PROVE  Outcome(k, r) \in {"empty", "fail"}
BY DEF Outcome, Won, OK, HasRows, HasAnswer, StepRows

LEMMA WayOnStep ==
    ASSUME WalkTypes, WayOn, [NextStep]_vars
    PROVE  WayOn'
<1>1. UNCHANGED chain /\ chain \in Chains
  BY ChainStep DEF WalkTypes
<1>2. ASSUME NEW i \in DOMAIN trail, trail'[i] = trail[i]
      PROVE  /\ MustGoOn(i)' /\ UNCHANGED trail => MustGoOn(i)
             /\ MustGoOn(i)' => i = Len(trail')
  <2>1. /\ Visited(i)' = Visited(i) /\ (WonAt(i)' <=> WonAt(i))
        /\ LeadsOn(Visited(i))' <=> LeadsOn(Visited(i))
    BY <1>1, <1>2, OldEntry DEF LeadsOn, Keys, AllEdges, EdgesOutOf, Visited
  <2> QED BY <1>1, <2>1, FixedChain DEF MustGoOn
<1>3. ASSUME UNCHANGED trail,
             \A i \in DOMAIN trail : MustGoOn(i) =>
                /\ outcome' = "running" /\ ~running'
                     => node' \in Keys(chain) /\ chain.kind[node'] = "provider"
                /\ outcome' # "running" => ~HasBudget'
      PROVE  WayOn'
  <2>1. \A i \in DOMAIN trail : MustGoOn(i)' => MustGoOn(i)
    BY <1>2, <1>3
  <2> QED BY <1>1, <1>3, <2>1 DEF WayOn, Ended
<1>4. ASSUME NEW r, Reports(r),
             FirstSuccess /\ DefaultPolicies /\ ~(r # "skip" /\ Won(node, r)) /\ LeadsOn(node) =>
                /\ outcome' = "running"
                /\ node' \in Keys(chain) /\ chain.kind[node'] = "provider"
      PROVE  WayOn'
  <2>1. PICK n : /\ DOMAIN trail' = DOMAIN trail \cup {n} /\ n \notin DOMAIN trail
                 /\ \A i \in DOMAIN trail : trail'[i] = trail[i]
                 /\ trail'[n] = <<node, r>> /\ n = Len(trail')
    BY <1>1, <1>4, ReportGrows
  <2>2. \A i \in DOMAIN trail : ~MustGoOn(i)'
    BY <1>2, <2>1
  <2>3. /\ WonAt(n)' <=> r # "skip" /\ Won(node, r)
        /\ LeadsOn(Visited(n))' <=> LeadsOn(node)
    BY <1>1, <2>1, NewEntry DEF LeadsOn, Keys, AllEdges, EdgesOutOf, Visited
  <2>4. MustGoOn(n)' =>
            FirstSuccess /\ DefaultPolicies /\ ~(r # "skip" /\ Won(node, r)) /\ LeadsOn(node)
    BY <1>1, <2>3, FixedChain DEF MustGoOn
  <2> QED BY <1>1, <1>4, <2>1, <2>2, <2>4 DEF WayOn, Ended
<1>5. CASE PassLogical
  <2>1. outcome = "running" /\ ~running /\ chain.kind[node] # "provider" /\ UNCHANGED trail
    BY <1>5, Zenon DEF PassLogical, AtBlock
  <2> QED BY <1>3, <2>1 DEF WayOn
<1>6. CASE Skip
  <2>1. FirstSuccess => node' = Next(chain, node, "fail") /\ outcome' = outcome
    BY <1>6 DEF Skip, AfterSkip
  <2>2. Reports("skip")
    BY <1>6, Reporting
  <2> QED BY <1>4, <2>1, <2>2, DefaultLeads DEF Reports
<1>7. CASE Enter \/ Attempt
  <2>1. running' /\ UNCHANGED <<trail, outcome>> /\ outcome = "running"
    <3>1. CASE Enter
      BY <3>1, Zenon DEF Enter, AtBlock
    <3>2. CASE Attempt
      <4>1. running /\ UNCHANGED <<running, trail, outcome>>
        BY <3>2, Zenon DEF Attempt
      <4> QED BY <4>1 DEF WalkTypes, LoopOK
    <3> QED BY <1>7, <3>1, <3>2
  <2> QED BY <1>3, <2>1
<1>8. CASE Succeed
  BY <1>8, <1>4, Reporting DEF Succeed, ResultKinds
<1>9. CASE SteerOn
  <2>1. Reports(last) /\ last # "skip" /\ outcome' = outcome
    BY <1>9, Reporting DEF SteerOn, ResultKinds
  <2>2. ~Won(node, last) => node' = Next(chain, node, Outcome(node, last))
    BY <1>9 DEF SteerOn
  <2> QED BY <1>4, <2>1, <2>2, DefaultLeads, NotWonOutcome DEF Reports
<1>10. CASE MergeOn
  BY <1>10, <1>4, Reporting DEF MergeOn
<1>11. CASE Exhaust
  <2>1. outcome = "running" /\ ~running /\ ~AtBlock /\ UNCHANGED <<trail, stepNo>>
    BY <1>11, Zenon DEF Exhaust
  <2>2. outcome' # "running"
    BY <1>11 DEF Exhaust, FinalStatus, ExhaustedStatus
  <2>3. ASSUME NEW i \in DOMAIN trail, MustGoOn(i)
        PROVE  ~HasBudget'
    <3>1. node # NoKey /\ FirstSuccess
      BY <1>1, <2>1, <2>3, EdgeEnds DEF WayOn, MustGoOn
    <3> QED BY <2>1, <3>1 DEF AtBlock, HasBudget
  <2> QED BY <1>3, <2>1, <2>2, <2>3
<1>12. CASE Cancel \/ Terminated \/ UNCHANGED vars
  <2>1. UNCHANGED <<trail, outcome, running, node, stepNo>>
    BY <1>12, Zenon DEF Cancel, Terminated, vars, blockVars
  <2> QED BY <1>3, <2>1 DEF WayOn, Ended, HasBudget
<1> QED BY <1>5, <1>6, <1>7, <1>8, <1>9, <1>10, <1>11, <1>12 DEF NextStep, Walk

LEMMA FallbackFollows ==
    ASSUME WalkTypes, WayOn
    PROVE  FallbackExhausted
<1>1. trail # <<>> => Len(trail) \in DOMAIN trail
  <2>1. trail \in Seq(Entry)
    BY DEF WalkTypes
  <2> HIDE DEF Entry
  <2> QED BY <2>1
<1> QED BY <1>1 DEF WayOn, MustGoOn, FallbackExhausted

-----------------------------------------------------------------------------
(* OkIsBacked.                                                             *)

NothingShort(i) == i = Len(trail) /\ WonAt(i) /\ ~chain.treatEmpty[Visited(i)]

Backed ==
    /\ running /\ chain.answer[node] /\ HasAnswer(last) => answer # NoKey
    /\ lastStatus = "ok" => rows # {} \/ answer # NoKey
    /\ Ended =>
          /\ rows # {} => outcome = "ok"
          /\ outcome = "ok" => rows # {} \/ answer # NoKey
                               \/ \E i \in DOMAIN trail : NothingShort(i)

(* A block that won has rows or an answer to show, or may win without.     *)
LEMMA WinnersShow ==
    ASSUME NEW k, NEW r, Won(k, r)
    PROVE  \/ BlockRows(k, r) = {k}
           \/ chain.answer[k] /\ HasAnswer(r)
           \/ ~chain.answer[k] /\ ~chain.treatEmpty[k]
BY DEF Won, BlockRows, StepRows

LEMMA OkBlockShows ==
    ASSUME NEW k, NEW r, BlockStatus(k, r) = "ok"
    PROVE  BlockRows(k, r) = {k} \/ (chain.answer[k] /\ HasAnswer(r))
BY DEF BlockStatus, Won, BlockRows, StepRows

LEMMA BackedStep ==
    ASSUME WalkTypes, Backed, [NextStep]_vars
    PROVE  Backed'
<1>1. UNCHANGED chain /\ chain \in Chains
  BY ChainStep DEF WalkTypes
<1>2. CASE PassLogical \/ Enter \/ Cancel
  <2>1. /\ outcome = "running" /\ UNCHANGED <<answer, lastStatus, rows, outcome>>
        /\ UNCHANGED <<running, node, last>> \/ ~running' \/ last' = "none"
    <3>1. CASE PassLogical
      BY <3>1, Zenon DEF PassLogical, AtBlock, blockVars
    <3>2. CASE Enter
      BY <3>2, Zenon DEF Enter, AtBlock
    <3>3. CASE Cancel
      BY <3>3, Zenon DEF Cancel, blockVars
    <3> QED BY <1>2, <3>1, <3>2, <3>3
  <2> QED BY <1>1, <2>1 DEF Backed, Ended, HasAnswer
<1>3. CASE Skip
  <2>1. /\ outcome = "running" /\ UNCHANGED <<answer, rows, outcome>> /\ ~running'
        /\ lastStatus' = lastStatus \/ lastStatus' = "skip"
    BY <1>3, Zenon DEF Skip, AtBlock, blockVars
  <2> QED BY <1>1, <2>1 DEF Backed, Ended
<1>4. CASE Attempt
  <2>1. PICK r \in Results(node) :
           /\ last' = r
           /\ answer' = IF chain.answer[node] /\ HasAnswer(r) THEN node ELSE answer
    BY <1>4, Zenon DEF Attempt
  <2>2. running /\ UNCHANGED <<node, lastStatus, rows, outcome>>
    BY <1>4, Zenon DEF Attempt
  <2>3. node # NoKey /\ outcome = "running"
    BY <1>1, <2>2, EdgeEnds DEF WalkTypes, LoopOK
  <2> QED BY <1>1, <2>1, <2>2, <2>3 DEF Backed, Ended, HasAnswer
<1>5. CASE Succeed
  <2>1. /\ running /\ Won(node, last) /\ Reports(last) /\ last # "skip"
        /\ rows' = rows \cup BlockRows(node, last)
        /\ outcome' = "ok" /\ ~running' /\ UNCHANGED <<answer, lastStatus>>
    BY <1>5, Reporting DEF Succeed, Report, Reports, ResultKinds
  <2>2. PICK n : n \in DOMAIN trail' /\ trail'[n] = <<node, last>> /\ n = Len(trail')
    BY <1>1, <2>1, ReportGrows
  <2>3. WonAt(n)' /\ Visited(n)' = node
    BY <1>1, <2>1, <2>2, NewEntry
  <2>4. ~chain.treatEmpty[node] => NothingShort(n)'
    BY <1>1, <2>2, <2>3 DEF NothingShort, Visited
  <2>5. rows' # {} \/ answer' # NoKey \/ NothingShort(n)'
    BY <2>1, <2>4, WinnersShow DEF Backed
  <2>6. lastStatus' = "ok" => rows' # {} \/ answer' # NoKey
    BY <2>1 DEF Backed
  <2> QED BY <2>1, <2>2, <2>5, <2>6 DEF Backed, Ended
<1>6. CASE SteerOn
  <2>1. ~running' /\ lastStatus' # "ok" /\ outcome' = "running"
    BY <1>6, LoopHasResult DEF SteerOn, Report, KindStatus
  <2> QED BY <2>1 DEF Backed, Ended
<1>7. CASE MergeOn
  <2>1. /\ running /\ ~running' /\ outcome' = "running" /\ answer' = answer
        /\ rows' = rows \cup BlockRows(node, last) /\ lastStatus' = BlockStatus(node, last)
    BY <1>7, LoopHasResult DEF MergeOn, Report
  <2>2. lastStatus' = "ok" => rows' # {} \/ answer' # NoKey
    BY <2>1, OkBlockShows DEF Backed
  <2> QED BY <2>1, <2>2 DEF Backed, Ended
<1>8. CASE Exhaust
  <2>1. /\ ~running /\ outcome' = FinalStatus
        /\ UNCHANGED <<running, node, last, answer, rows, lastStatus>>
    BY <1>8, Zenon DEF Exhaust, blockVars
  <2>2. rows # {} => FinalStatus = "ok"
    BY DEF FinalStatus, ExhaustedStatus
  <2>3. FinalStatus = "ok" => rows # {} \/ answer # NoKey
    BY DEF FinalStatus, ExhaustedStatus, Backed
  <2> QED BY <1>1, <2>1, <2>2, <2>3 DEF Backed, Ended
<1>9. CASE Terminated \/ UNCHANGED vars
  <2>1. UNCHANGED <<running, node, last, answer, rows, lastStatus, outcome, trail>>
    BY <1>9, Zenon DEF Terminated, vars, blockVars
  <2>2. \A i \in DOMAIN trail : NothingShort(i)' <=> NothingShort(i)
    BY <1>1, <2>1, OldEntry DEF NothingShort, Visited
  <2> QED BY <1>1, <2>1, <2>2 DEF Backed, Ended, HasAnswer
<1> QED BY <1>2, <1>3, <1>4, <1>5, <1>6, <1>7, <1>8, <1>9 DEF NextStep, Walk

LEMMA BackedFollows ==
    ASSUME Backed
    PROVE  OkIsBacked
BY DEF Backed, NothingShort, OkIsBacked

-----------------------------------------------------------------------------
(* Together.                                                               *)

LinearInv ==
    /\ WalkTypes /\ StepBound
    /\ OnTheWay /\ NoBlockTwice
    /\ GoesOn /\ FirstUsableEnds
    /\ RowsOfWinners /\ WayOn /\ Backed

LEMMA LinearInit == Init => LinearInv
<1> SUFFICES ASSUME Init PROVE LinearInv
  OBVIOUS
<1>1. trail = <<>> /\ DOMAIN trail = {}
  <2>1. trail = <<>>
    BY DEF Init
  <2> QED BY <2>1
<1>2. OnTheWay /\ NoBlockTwice /\ GoesOn /\ FirstUsableEnds /\ WayOn
  BY <1>1 DEF OnTheWay, NoBlockTwice, GoesOn, FirstUsableEnds, WayOn
<1>3. RowsOfWinners
  BY <1>1 DEF Init, RowsOfWinners
<1>4. StepBound
  <2>1. stepNo = 0
    BY DEF Init
  <2> QED BY <2>1, BudgetAssumption DEF StepBound
<1>5. Backed
  BY DEF Init, Backed, Ended
<1> QED BY <1>2, <1>3, <1>4, <1>5, TypesInit DEF LinearInv

LEMMA LinearStep == LinearInv /\ [NextStep]_vars => LinearInv'
BY TypesStep, BudgetStep, OnTheWayStep, UsableStep, RowsStep, WayOnStep, BackedStep DEF LinearInv

(* The sequential walkers keep what README and their comments promise:     *)
(* the budget is overrun by one attempt's extra calls at most, no block is *)
(* run twice, the first usable result ends the request, the merge has the  *)
(* winners' rows, default fallback tries everything that is connected, and *)
(* the final status is backed by what there is to show.                    *)
THEOREM LinearWalkIsSound == Spec => []WalkSound
<1>1. LinearInv => WalkSound
  BY BudgetFollows, FallbackFollows, BackedFollows DEF LinearInv, WalkSound
<1> QED BY LinearInit, LinearStep, <1>1, PTL DEF Spec

=============================================================================
