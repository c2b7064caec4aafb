----------------------------- MODULE LinearWalk -----------------------------
(***************************************************************************)
(* The two sequential walkers of internal/engine/engine.go, which visit    *)
(* one block after another along single edges:                             *)
(*                                                                         *)
(*   Engine.runFirstSuccess       first_success chains: the outcome of a   *)
(*                                block and its policies pick the next one *)
(*   Engine.runFullChainLegacy    full_chain chains without a Start block: *)
(*                                the first neutral edge, whatever happens *)
(*                                                                         *)
(* One goroutine per request, so an attempt (takeStep, the call, addSteps, *)
(* markDead) is one action.  A provider's cooldown depends on the other    *)
(* requests and the clock: any block may be skipped for it.                *)
(***************************************************************************)
EXTENDS NodeRun

CONSTANTS
    Chains,        \* the chains a request may be bound to
    Offline        \* providers instanceDeadReason rejects, or of unknown driver

(* Chains are validated before they are stored.                            *)
ASSUME ChainsAssumption ==
    \A c \in Chains :
        /\ WellFormed(c) /\ ValidChain(c) /\ Start(c) \in Keys(c)
        /\ c.policy \in [Keys(c) -> [{"success", "empty", "fail"} -> {"", "stop", "next", "edge"}]]

VARIABLES
    node,       \* the block the walk is at, NoKey when it ran out of edges
    visited,    \* blocks the legacy walker has seen
    running,    \* the block's attempt loop is under way
    attempt,    \* attempts taken in this block
    last,       \* result of the block's latest attempt, "none" before it
    gaveUp,     \* the wait before a retry was cut short by the context
    stepNo,     \* walkState.stepNo
    dead,       \* walkState.dead
    cancelled,  \* the request context is done
    rows,       \* blocks whose rows were merged
    answer,     \* req.Answer, as the block that generated it
    lastStatus, \* what the latest block means for the outcome (last.Kind, lastStatus)
    trail,      \* <<block, final result>> of every provider block visited
    outcome     \* status written by finalize, "running" before

blockVars == <<running, attempt, last, gaveUp>>
vars == <<chain, node, visited, blockVars, stepNo, dead, cancelled, rows, answer, lastStatus,
          trail, outcome>>

-----------------------------------------------------------------------------
FirstSuccess == chain.mode = "first_success"

SlipContinuesWithoutStart(k) == PolicyFor(chain, k, "success") # "stop"

(* Legacy chains ignore on_success and stop at the first success.          *)
ContinuesOnSuccess(k) == HasStartBlock(chain) /\ PolicyFor(chain, k, "success") # "stop"

Results(k) == IF chain.answer[k] THEN ResultKinds ELSE ResultKinds \ {"answer", "answer+rows"}

SlipBudgetOffByOne == stepNo <= MaxAttempts

HasBudget == stepNo < MaxAttempts

(* outcomeOf and outcomeOfAnswer: what steers the walk after a block.      *)
Outcome(k, r) ==
    CASE r = "none" \/ ~OK(r) -> "fail"
      [] OK(r) /\ chain.answer[k] ->
            IF HasAnswer(r) \/ StepRows(k, r) THEN "success" ELSE "empty"
      [] OK(r) /\ ~chain.answer[k] ->
            IF ~HasRows(r) /\ chain.treatEmpty[k] THEN "empty" ELSE "success"

SlipOkKind(r) == IF OK(r) THEN "ok" ELSE "fail"

(* What the first_success walker keeps of a result: its kind was KindOK.   *)
KindStatus(r) == IF OK(r) /\ r # "empty" THEN "empty" ELSE "fail"

Init ==
    /\ chain \in Chains
    /\ node = Start(chain)
    /\ visited = {}
    /\ running = FALSE /\ attempt = 0 /\ last = "none" /\ gaveUp = FALSE
    /\ stepNo = 0 /\ dead = {} /\ cancelled = FALSE
    /\ rows = {} /\ answer = NoKey /\ lastStatus = "" /\ trail = <<>>
    /\ outcome = "running"

(* The loop condition of both walkers; the legacy walker also stops at a   *)
(* block it has seen.                                                      *)
AtBlock ==
    /\ outcome = "running" /\ ~running
    /\ node # NoKey /\ HasBudget
    /\ FirstSuccess \/ node \notin visited

Visit == visited' = IF FirstSuccess THEN visited ELSE visited \cup {node}

(* Start and Join blocks are transparent.                                  *)
PassLogical ==
    /\ AtBlock
    /\ chain.kind[node] # "provider"
    /\ Visit
    /\ node' = NextInFullChain(chain, node)
    /\ UNCHANGED <<chain, blockVars, stepNo, dead, cancelled, rows, answer, lastStatus, trail,
                   outcome>>

SlipSkipStays(k) == k

(* Where a skipped block leads.                                            *)
AfterSkip(k) == IF FirstSuccess THEN Next(chain, k, "fail") ELSE NextInFullChain(chain, k)

(* resolveNode gives a reason: offline, marked dead, or cooling down.      *)
Skip ==
    /\ AtBlock
    /\ chain.kind[node] = "provider"
    /\ Visit
    /\ node' = AfterSkip(node)
    /\ lastStatus' = IF FirstSuccess THEN lastStatus ELSE "skip"
    /\ trail' = Append(trail, <<node, "skip">>)
    /\ UNCHANGED <<chain, blockVars, stepNo, dead, cancelled, rows, answer, outcome>>

(* The provider is alive: execNode starts.                                 *)
Enter ==
    /\ AtBlock
    /\ chain.kind[node] = "provider"
    /\ chain.provider[node] \notin Offline \cup dead
    /\ Visit
    /\ running' = TRUE /\ attempt' = 0 /\ last' = "none" /\ gaveUp' = FALSE
    /\ UNCHANGED <<chain, node, stepNo, dead, cancelled, rows, answer, lastStatus, trail, outcome>>

(* The attempt loop is over.                                               *)
LoopOver ==
    \/ last # "none" /\ Won(node, last)
    \/ last = "permanent"
    \/ attempt > chain.retries[node]
    \/ gaveUp
    \/ ~HasBudget

(* One attempt, its extra upstream calls and its consequences.             *)
Attempt ==
    /\ running /\ ~LoopOver
    /\ \E r \in Results(node), extra \in 0..MaxExtra :
          /\ last' = r
          /\ stepNo' = stepNo + 1 + extra
          /\ answer' = IF chain.answer[node] /\ HasAnswer(r) THEN node ELSE answer
          /\ dead' = IF r = "permanent" THEN dead \cup {chain.provider[node]} ELSE dead
          /\ gaveUp' = (r = "fail" /\ attempt < chain.retries[node]
                                   /\ stepNo + 1 < MaxAttempts /\ cancelled)
    /\ attempt' = attempt + 1
    /\ UNCHANGED <<chain, node, visited, running, cancelled, rows, lastStatus, trail, outcome>>

-----------------------------------------------------------------------------
(* A block's loop is over: execNode returned.                              *)

BlockRows(k, r) == IF Won(k, r) /\ StepRows(k, r) THEN {k} ELSE {}

Report ==
    /\ running' = FALSE
    /\ trail' = Append(trail, <<node, last>>)
    /\ UNCHANGED <<chain, visited, attempt, last, gaveUp, stepNo, dead, cancelled, answer>>

(* first_success: a usable result ends the request.                        *)
Succeed ==
    /\ running /\ LoopOver
    /\ FirstSuccess /\ Won(node, last) /\ ~ContinuesOnSuccess(node)
    /\ rows' = rows \cup BlockRows(node, last)
    /\ outcome' = "ok"
    /\ Report
    /\ UNCHANGED <<node, lastStatus>>

(* first_success: the result is not usable, or on_success asks to go on.   *)
SteerOn ==
    /\ running /\ LoopOver
    /\ FirstSuccess /\ (Won(node, last) => ContinuesOnSuccess(node))
    /\ rows' = rows \cup BlockRows(node, last)
    /\ node' = Next(chain, node, IF Won(node, last) THEN "success" ELSE Outcome(node, last))
    /\ lastStatus' = KindStatus(last)
    /\ Report
    /\ UNCHANGED outcome

(* Legacy full chain: merge what came and go on.                           *)
MergeOn ==
    /\ running /\ LoopOver
    /\ ~FirstSuccess
    /\ rows' = rows \cup BlockRows(node, last)
    /\ node' = NextInFullChain(chain, node)
    /\ lastStatus' = BlockStatus(node, last)
    /\ Report
    /\ UNCHANGED outcome

-----------------------------------------------------------------------------
(* The end of a request.                                                   *)

ExhaustedStatus ==
    CASE rows # {} -> "ok"
      [] rows = {} /\ lastStatus \in {"ok", "empty"} -> lastStatus
      [] OTHER -> "fail"

(* finalize: a generated answer redeems an empty result.                   *)
FinalStatus == IF ExhaustedStatus = "empty" /\ answer # NoKey THEN "ok" ELSE ExhaustedStatus

(* The walk ran out of blocks or budget, or met a block again.             *)
Exhaust ==
    /\ outcome = "running" /\ ~running /\ ~AtBlock
    /\ outcome' = FinalStatus
    /\ UNCHANGED <<chain, node, visited, blockVars, stepNo, dead, cancelled, rows, answer,
                   lastStatus, trail>>

(* CHAIN_TIMEOUT fires or the client goes away.                            *)
Cancel ==
    /\ outcome = "running" /\ ~cancelled
    /\ cancelled' = TRUE
    /\ UNCHANGED <<chain, node, visited, blockVars, stepNo, dead, rows, answer, lastStatus,
                   trail, outcome>>

Terminated == outcome # "running" /\ UNCHANGED vars

Walk == PassLogical \/ Skip \/ Enter \/ Attempt \/ Succeed \/ SteerOn \/ MergeOn \/ Exhaust

NextStep == Walk \/ Cancel \/ Terminated

(* Calls and waits are bounded, so the request's goroutine goes on.        *)
Spec == Init /\ [][NextStep]_vars /\ WF_vars(Walk)

-----------------------------------------------------------------------------
(* Properties.                                                             *)

Ended == outcome # "running"
Visited(i) == trail[i][1]
Result(i) == trail[i][2]
WonAt(i) == Result(i) # "skip" /\ Won(Visited(i), Result(i))

TypeOK ==
    /\ node \in Keys(chain) \cup {NoKey} /\ visited \subseteq Keys(chain)
    /\ {running, gaveUp, cancelled} \subseteq BOOLEAN
    /\ attempt \in Nat /\ stepNo \in Nat
    /\ last \in ResultKinds \cup {"none"}
    /\ rows \subseteq Keys(chain) /\ answer \in Keys(chain) \cup {NoKey}
    /\ lastStatus \in {"", "ok", "empty", "fail", "skip"}
    /\ outcome \in {"running", "ok", "empty", "fail"}

(* Both walkers run one block at a time, so multi-call drivers overrun     *)
(* MAX_ATTEMPTS by the last attempt's extra calls at most, and a block is  *)
(* never entered with the budget spent.                                    *)
SequentialBudget ==
    /\ stepNo < MaxAttempts + 1 + MaxExtra
    /\ \A i \in DOMAIN trail : Result(i) # "none"

(* The graph of a validated chain has no cycle, so neither walker comes    *)
(* back to a block, whatever outcomes steer it; the first_success walker   *)
(* has no other guard against walking for ever.                            *)
NoBlockTwice == \A i, j \in DOMAIN trail : i # j => Visited(i) # Visited(j)

(* README: "The first usable result ends the request", and "on_success     *)
(* stays a no-op" for chains without a Start block.                        *)
MayContinue(k) == HasStartBlock(chain) /\ chain.policy[k].success \in {"next", "edge"}
FirstUsableEnds ==
    FirstSuccess => \A i \in DOMAIN trail :
        WonAt(i) /\ ~MayContinue(Visited(i)) => i = Len(trail) /\ outcome = "ok"

(* No row is lost on the way and none comes in uninvited: the merge has    *)
(* the rows of the blocks that won, an answer block's only if it allows    *)
(* sparse sources.                                                         *)
BringsRows(i) ==
    WonAt(i) /\ HasRows(Result(i)) /\ (chain.answer[Visited(i)] => chain.sparse[Visited(i)])
RowsOfWinners == rows = {Visited(i) : i \in {j \in DOMAIN trail : BringsRows(j)}}

(* Fallback is exhaustive: a first_success request whose blocks use the    *)
(* default policies fails only after a block with no way on, or for want   *)
(* of attempts.  Beyond a Join only neutral edges lead on, so a block that *)
(* leads to a Join may be the last one as well.                            *)
LeadsOn(k) ==
    /\ EdgesOutOf(chain, AllEdges(chain), k) # {}
    /\ \A i \in EdgesOutOf(chain, AllEdges(chain), k) :
          chain.kind[chain.edges[i].to] = "provider"
DefaultPolicies == \A k \in Keys(chain) : \A o \in {"empty", "fail"} : PolicyFor(chain, k, o) = "next"
FallbackExhausted ==
    Ended /\ FirstSuccess /\ DefaultPolicies /\ trail # <<>> /\ HasBudget =>
        WonAt(Len(trail)) \/ ~LeadsOn(Visited(Len(trail)))

(* A request that is not "ok" has nothing to show; one that is has rows,   *)
(* an answer, or a block that may succeed empty.                           *)
OkIsBacked ==
    Ended =>
        /\ rows # {} => outcome = "ok"
        /\ outcome = "ok" => \/ rows # {} \/ answer # NoKey
                             \/ WonAt(Len(trail)) /\ ~chain.treatEmpty[Visited(Len(trail))]

(* What README and the walkers' comments promise of a walk, together.      *)
WalkSound ==
    /\ SequentialBudget /\ NoBlockTwice /\ FirstUsableEnds
    /\ RowsOfWinners /\ FallbackExhausted /\ OkIsBacked

(* engine_test.go, TestExecuteEmptyFinalStatus: a request whose only block *)
(* succeeds without a link ends "empty".                                   *)
EmptyIsEmpty ==
    Ended /\ FirstSuccess /\ Len(trail) = 1 /\ Result(1) \in {"empty", "zero"} /\ ~WonAt(1)
        => outcome = "empty"

(* Each walker ends.                                                       *)
EventuallyFinalized == <>Ended

=============================================================================
