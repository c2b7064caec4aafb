----------------------------- MODULE FullChain -----------------------------
(***************************************************************************)
(* One request walking a full_chain chain with a Start block:              *)
(* Engine.runFullChain of internal/engine/engine.go, its process closure   *)
(* and the attempt loop execNode that every branch runs.                   *)
(*                                                                         *)
(* The walk goes wave by wave.  All blocks whose neutral predecessors have *)
(* finished form a wave; their goroutines run concurrently, sharing the    *)
(* attempt budget (walkState.stepNo), the set of providers marked dead in  *)
(* this request, the provider circuit breaker of the whole engine, and     *)
(* req.Answer.  wg.Wait is the wave barrier.  When no block is ready or    *)
(* the budget is gone, the block results are merged in plan order and the  *)
(* request is finalized.                                                   *)
(*                                                                         *)
(* Every critical section of a branch is one action, except that the       *)
(* settling of an attempt (observe, addSteps, markDead, loop or leave) is  *)
(* one: the sections touch different variables, and what a sibling could   *)
(* read between two of them it also reads before or after the whole.       *)
(*                                                                         *)
(* A definition named Slip... is a plausible mistake in the definition     *)
(* after it; no action uses it.  The runs are required to catch each one.  *)
(*                                                                         *)
(* Left out: rows are only "some" or "none" (their merge is the merger's), *)
(* waiting times, texts, metrics and webhooks.  A concurrency slot that is *)
(* not granted in time is a failed attempt like any other.                 *)
(***************************************************************************)
EXTENDS NodeRun, Breaker

CONSTANTS
    Chains,        \* the chains a request may be bound to
    Offline        \* providers instanceDeadReason rejects, or of unknown driver

(* Chains with a Start block, whose blocks name their provider.            *)
ASSUME ChainsAssumption ==
    \A c \in Chains :
        /\ WellFormed(c)
        /\ c.provider \in [Keys(c) -> Provider]
        /\ HasStartBlock(c) /\ Start(c) \in Keys(c)

(* Chains are validated before they are stored, so they have no cycle.     *)
ASSUME ValidatedAssumption == \A c \in Chains : Acyclic(c, NeutralEdges(c))

VARIABLES
    reachable,  \* its blocks reachable along neutral edges: those that run
    phase,      \* "walk" | "done"
    wave,       \* the blocks of the running wave, {} between waves
    done,       \* blocks whose wave is over
    indeg,      \* unfinished neutral edges into a block
    pc,         \* where a block's goroutine is
    attempt,    \* attempts the block has taken
    result,     \* result of the block's latest attempt
    willSleep,  \* the latest attempt decided to wait for a retry
    status,     \* blockState.status
    idx,        \* trace index of a provider block, -1 before its wave
    nextIdx,    \* next trace index
    stepNo,     \* walkState.stepNo
    dead,       \* walkState.dead
    cancelled,  \* the request context is done (timeout or client gone)
    answer,     \* req.Answer, as the block that generated it
    outcome     \* [status, rows] written by finalize

branchVars == <<pc, attempt, result, willSleep, status>>
walkVars == <<phase, wave, done, indeg, idx, nextIdx>>
chainVars == <<chain, reachable>>
vars == <<chainVars, walkVars, branchVars, stepNo, dead, cancelled, answer, outcome, breakerVars>>

-----------------------------------------------------------------------------
(* Block results.                                                          *)

(* An answer generated for a block in search mode is ignored, so such a    *)
(* block's results are told apart by their rows alone.  The walk asks for  *)
(* rows and never for the kind of a result, so "zero" is left out.         *)
Results(k) ==
    (IF chain.answer[k] THEN ResultKinds ELSE ResultKinds \ {"answer", "answer+rows"}) \ {"zero"}

(* blockState.answer and blockState.rows: a block keeps its answer or its  *)
(* rows, never both.                                                       *)
KeepsAnswer(k) == status[k] = "ok" /\ chain.answer[k] /\ HasAnswer(result[k])
KeepsRows(k) == status[k] = "ok" /\ ~KeepsAnswer(k) /\ StepRows(k, result[k])

-----------------------------------------------------------------------------
(* Budget.                                                                 *)

SlipBudgetOffByOne == stepNo <= MaxAttempts

HasBudget == stepNo < MaxAttempts

-----------------------------------------------------------------------------
(* The walk.                                                               *)

IsProvider(k) == chain.kind[k] = "provider"

(* Neutral edges into k from blocks of the walk: they make its in-degree.  *)
InEdgesFrom(k, S) ==
    {i \in NeutralEdges(chain) : chain.edges[i].to = k /\ chain.edges[i].from \in S}
Preds(k) == {chain.edges[i].from : i \in InEdgesFrom(k, reachable)}

SlipIndegOfWholeGraph ==
    [k \in reachable |->
        IF k = Start(chain) THEN 0 ELSE Cardinality(InEdgesFrom(k, Keys(chain)))]

InitIndeg ==
    [k \in reachable |->
        IF k = Start(chain) THEN 0 ELSE Cardinality(InEdgesFrom(k, reachable))]

SlipReadyOneEarly == {k \in reachable \ done : indeg[k] <= 1}

Ready == {k \in reachable \ done : indeg[k] = 0}

Init ==
    /\ chain \in Chains
    /\ reachable = Reachable(chain)
    /\ phase = "walk"
    /\ wave = {}
    /\ done = {}
    /\ indeg = InitIndeg
    /\ pc = [k \in reachable |-> "idle"]
    /\ attempt = [k \in reachable |-> 0]
    /\ result = [k \in reachable |-> "none"]
    /\ willSleep = [k \in reachable |-> FALSE]
    /\ status = [k \in reachable |-> ""]
    /\ idx = [k \in reachable |-> -1]
    /\ nextIdx = 0
    /\ stepNo = 0
    /\ dead = {}
    /\ cancelled = FALSE
    /\ answer = NoKey
    /\ outcome = [status |-> "running", rows |-> {}]
    /\ BreakerInit

(* Trace indices: the provider blocks of a wave are numbered in plan order.*)
WaveProviders == {k \in Ready : IsProvider(k)}

IdxInWave(k) == nextIdx + Cardinality({j \in WaveProviders : Pos(chain, j) < Pos(chain, k)})

SlipNextIdxPerWave == nextIdx + 1

NextIdx == nextIdx + Cardinality(WaveProviders)

(* Number the blocks of the wave, then launch one                          *)
(* goroutine per block (a lone block runs inline: a wave of one).          *)
StartWave ==
    /\ phase = "walk" /\ wave = {}
    /\ HasBudget
    /\ Ready # {}
    /\ wave' = Ready
    /\ pc' = [k \in reachable |-> IF k \in Ready THEN "resolve" ELSE pc[k]]
    /\ idx' = [k \in reachable |-> IF k \in WaveProviders THEN IdxInWave(k) ELSE idx[k]]
    /\ nextIdx' = NextIdx
    /\ UNCHANGED <<chainVars, phase, done, indeg, attempt, result, willSleep, status, stepNo,
                   dead, cancelled, answer, outcome, breakerVars>>

-----------------------------------------------------------------------------
(* One branch.                                                             *)

(* The goroutine of k returns with the given status.                       *)
Return(k, s) ==
    /\ pc' = [pc EXCEPT ![k] = "over"]
    /\ status' = [status EXCEPT ![k] = s]

(* A Start or Join block carries no provider call.                         *)
PassLogical(k) ==
    /\ k \in wave /\ pc[k] = "resolve"
    /\ ~IsProvider(k)
    /\ Return(k, "ok")
    /\ UNCHANGED <<chainVars, walkVars, attempt, result, willSleep, stepNo, dead, cancelled,
                   answer, outcome, breakerVars>>

(* resolveNode: is the provider offline, marked dead in this request, or   *)
(* cooling down?  The look-up of an expired cooldown deletes it; the model *)
(* lets an open entry be live or expired.                                  *)
Resolve(k) ==
    LET p == chain.provider[k] IN
    /\ k \in wave /\ pc[k] = "resolve"
    /\ IsProvider(k)
    /\ \/ /\ p \in Offline \cup dead \cup open
          /\ Return(k, "skip")
          /\ UNCHANGED breakerVars
       \/ /\ p \notin Offline \cup dead
          /\ pc' = [pc EXCEPT ![k] = "take"]
          /\ IF p \in open THEN Clear(p) ELSE UNCHANGED breakerVars
          /\ UNCHANGED status
    /\ UNCHANGED <<chainVars, walkVars, attempt, result, willSleep, stepNo, dead, cancelled,
                   answer, outcome>>

(* takeStep: reserve one attempt, atomically with the budget check.        *)
TakeStep(k) ==
    /\ k \in wave /\ pc[k] = "take"
    /\ HasBudget
    /\ stepNo' = stepNo + 1
    /\ attempt' = [attempt EXCEPT ![k] = @ + 1]
    /\ pc' = [pc EXCEPT ![k] = "call"]
    /\ UNCHANGED <<chainVars, walkVars, result, willSleep, status, dead, cancelled, answer,
                   outcome, breakerVars>>

(* takeStep finds the budget exhausted: the block leaves with the result   *)
(* it has, or as skipped if it never made an attempt.                      *)
OutOfBudget(k) ==
    /\ k \in wave /\ pc[k] = "take"
    /\ ~HasBudget
    /\ Return(k, BlockStatus(k, result[k]))
    /\ UNCHANGED <<chainVars, walkVars, attempt, result, willSleep, stepNo, dead, cancelled,
                   answer, outcome, breakerVars>>

(* The provider answers, times out, or no slot was free.  A generated      *)
(* answer goes straight to the shared req.Answer.                          *)
Call(k) ==
    /\ k \in wave /\ pc[k] = "call"
    /\ \E r \in Results(k) :
          /\ result' = [result EXCEPT ![k] = r]
          /\ answer' = IF chain.answer[k] /\ HasAnswer(r) THEN k ELSE answer
          /\ willSleep' = [willSleep EXCEPT ![k] =
                /\ r = "fail"
                /\ attempt[k] <= chain.retries[k]
                /\ HasBudget]
    /\ pc' = [pc EXCEPT ![k] = "settle"]
    /\ UNCHANGED <<chainVars, walkVars, attempt, status, stepNo, dead, cancelled, outcome,
                   breakerVars>>

(* The attempt loop goes on: the result is not final, attempts are left,   *)
(* and a wait before the retry was not cut short by the context.           *)
Retries(k) ==
    /\ ~Won(k, result[k])
    /\ result[k] # "permanent"
    /\ attempt[k] <= chain.retries[k]
    /\ ~(willSleep[k] /\ cancelled)

(* After the call: the breaker observes the outcome, extra upstream calls  *)
(* are charged to the budget whatever is left of it, a permanent failure   *)
(* marks the provider dead for the request.                                *)
Settle(k) ==
    /\ k \in wave /\ pc[k] = "settle"
    /\ Observe(chain.provider[k], OK(result[k]))
    /\ \E extra \in 0..MaxExtra : stepNo' = stepNo + extra
    /\ dead' = IF result[k] = "permanent" THEN dead \cup {chain.provider[k]} ELSE dead
    /\ IF Retries(k)
       THEN /\ pc' = [pc EXCEPT ![k] = "take"]
            /\ UNCHANGED status
       ELSE Return(k, BlockStatus(k, result[k]))
    /\ UNCHANGED <<chainVars, walkVars, attempt, result, willSleep, cancelled, answer, outcome>>

Branch(k) ==
    \/ PassLogical(k) \/ Resolve(k) \/ TakeStep(k) \/ OutOfBudget(k) \/ Call(k) \/ Settle(k)

-----------------------------------------------------------------------------
(* wg.Wait returned: the wave is done, its edges are taken.                *)
EndWave ==
    /\ wave # {}
    /\ \A k \in wave : pc[k] = "over"
    /\ done' = done \cup wave
    /\ indeg' = [k \in reachable |-> indeg[k] - Cardinality(InEdgesFrom(k, wave))]
    /\ wave' = {}
    /\ UNCHANGED <<chainVars, phase, branchVars, idx, nextIdx, stepNo, dead, cancelled, answer,
                   outcome, breakerVars>>

(* The merge pass and the outcome, in plan order.                          *)
Reported == {k \in reachable : IsProvider(k) /\ status[k] # ""}
Merged == {k \in Reported : KeepsRows(k)}
Answered == {k \in Reported : KeepsAnswer(k)}

LastStatus == IF Reported = {} THEN "" ELSE status[LastInOrder(chain, Reported)]

WalkStatus ==
    CASE Merged # {} -> "ok"
      [] Merged = {} /\ LastStatus \in {"ok", "empty"} -> LastStatus
      [] OTHER -> "fail"

SlipAnswerAsWritten == answer

FinalAnswer == IF Answered = {} THEN answer ELSE LastInOrder(chain, Answered)

SlipEmptyIsOk == IF WalkStatus = "empty" THEN "ok" ELSE WalkStatus

(* finalize: a generated answer redeems an empty result.                   *)
FinalStatus == IF WalkStatus = "empty" /\ FinalAnswer # NoKey THEN "ok" ELSE WalkStatus

SlipEndsWhenDrained == Ready = {}

(* The wave loop ends: no budget, or no block is ready.                    *)
WalkEnds == ~HasBudget \/ Ready = {}

Finish ==
    /\ phase = "walk" /\ wave = {}
    /\ WalkEnds
    /\ phase' = "done"
    /\ answer' = FinalAnswer
    /\ outcome' = [status |-> FinalStatus, rows |-> Merged]
    /\ UNCHANGED <<chainVars, wave, done, indeg, branchVars, idx, nextIdx, stepNo, dead,
                   cancelled, breakerVars>>

-----------------------------------------------------------------------------
(* The rest of the engine.                                                 *)

(* CHAIN_TIMEOUT fires or the client goes away.                            *)
Cancel ==
    /\ phase = "walk" /\ ~cancelled
    /\ cancelled' = TRUE
    /\ UNCHANGED <<chainVars, walkVars, branchVars, stepNo, dead, answer, outcome, breakerVars>>

(* Another request's attempt is observed by the shared breaker.            *)
OtherRequest(p) ==
    /\ phase = "walk"
    /\ \E ok \in BOOLEAN : Observe(p, ok)
    /\ UNCHANGED <<chainVars, walkVars, branchVars, stepNo, dead, cancelled, answer, outcome>>

Terminated == phase = "done" /\ UNCHANGED vars

Walk == StartWave \/ (\E k \in reachable : Branch(k)) \/ EndWave \/ Finish

NextStep == Walk \/ Cancel \/ (\E p \in Provider : OtherRequest(p)) \/ Terminated

(* A goroutine that can run does: provider calls are bounded by the        *)
(* block's timeout and waits by their cap.                                 *)
Fairness ==
    /\ WF_vars(StartWave) /\ WF_vars(EndWave) /\ WF_vars(Finish)
    /\ \A k \in UNION {Keys(c) : c \in Chains} : WF_vars(k \in reachable /\ Branch(k))

Spec == Init /\ [][NextStep]_vars /\ Fairness

-----------------------------------------------------------------------------
(* Properties.                                                             *)

(* Types of the variables: the walk's own, those of its branches, what     *)
(* branches and requests share.                                            *)
WalkTypeOK ==
    /\ reachable \subseteq Keys(chain)
    /\ phase \in {"walk", "done"}
    /\ wave \subseteq reachable /\ done \subseteq reachable
    /\ indeg \in [reachable -> Int]
    /\ idx \in [reachable -> Int] /\ nextIdx \in Nat

BranchTypeOK ==
    /\ pc \in [reachable -> {"idle", "resolve", "take", "call", "settle", "over"}]
    /\ attempt \in [reachable -> Nat]
    /\ result \in [reachable -> ResultKinds \cup {"none"}]
    /\ willSleep \in [reachable -> BOOLEAN]
    /\ status \in [reachable -> {"", "ok", "empty", "fail", "skip"}]

SharedTypeOK ==
    /\ stepNo \in Nat
    /\ dead \subseteq Provider
    /\ cancelled \in BOOLEAN
    /\ answer \in reachable \cup {NoKey}
    /\ outcome \in [status : {"running", "ok", "empty", "fail"}, rows : SUBSET reachable]

TypeOK == WalkTypeOK /\ BranchTypeOK /\ SharedTypeOK /\ BreakerTypeOK

(* A block that left "idle" was launched.                                  *)
Launched == {k \in reachable : pc[k] # "idle"}

(* Rendezvous (runFullChain's wave barrier and in-degree bookkeeping): no  *)
(* goroutine of a block exists before every neutral predecessor of the     *)
(* block has finished; a join in particular waits for all its branches.    *)
JoinWaits == \A k \in Launched : k = Start(chain) \/ Preds(k) \subseteq done

(* The in-degree counters, decremented wave by wave, always count exactly  *)
(* the edges from blocks not yet done, so none is ever skipped or taken    *)
(* twice: what makes the rendezvous hold.                                  *)
IndegCounts ==
    \A k \in reachable \ {Start(chain)} :
        indeg[k] = Cardinality(InEdgesFrom(k, reachable \ done))

(* With budget to spare the walk does not stall: when it ends, every block *)
(* connected by neutral edges has had its wave.                            *)
NoBlockLeftBehind == phase = "done" /\ HasBudget => done = reachable

(* Stored steps are numbered chronologically (engine.go, idxByKey): no two *)
(* blocks share an index, and a block's index is above those of all its    *)
(* predecessors.                                                           *)
ChronologicalIdx ==
    \A k \in reachable : idx[k] >= 0 =>
        /\ \A j \in reachable \ {k} : idx[j] # idx[k]
        /\ \A j \in Preds(k) : IsProvider(j) => idx[j] \in 0..(idx[k] - 1)

(* MAX_ATTEMPTS under concurrent branches: the attempts taken never exceed *)
(* it.                                                                     *)
Attempts == UNION {{k} \X (1..attempt[k]) : k \in reachable}
AttemptsWithinBudget == Cardinality(Attempts) <= MaxAttempts

(* stepNo itself may pass the budget, since addSteps charges without       *)
(* asking; but only once per block after the limit, because no block takes *)
(* a further attempt.                                                      *)
StepsBound ==
    stepNo <= MaxAttempts + MaxExtra * Cardinality({k \in reachable : IsProvider(k)})

BudgetBound == AttemptsWithinBudget /\ StepsBound

(* Branches race to write req.Answer; the merge pass still makes the       *)
(* answer that of the last answering block of the plan, whatever the       *)
(* order the branches finished in.                                         *)
AnswerIsLast ==
    phase = "done" =>
        answer = LastInOrder(chain, {k \in reachable : IsProvider(k) /\ chain.answer[k]
                                                   /\ HasAnswer(result[k])})

(* No search block's rows are lost in the merge, and no source of an       *)
(* answer block enters it uninvited.                                       *)
SearchRowsMerged ==
    phase = "done" => \A k \in reachable : IsProvider(k) =>
        /\ ~chain.answer[k] => (k \in outcome.rows <=> HasRows(result[k]))
        /\ chain.answer[k] /\ ~chain.sparse[k] => k \notin outcome.rows

(* The recorded outcome is not better than what was found: an "ok" request *)
(* has rows or an answer, and one with rows is "ok".                       *)
OutcomeBacked ==
    phase = "done" =>
        /\ outcome.status = "ok" => outcome.rows # {} \/ answer # NoKey
        /\ outcome.rows # {} => outcome.status = "ok"

(* What is recorded of a walk is sound: the indexes of its steps, the rows *)
(* of its blocks and its outcome.                                          *)
RecordSound == ChronologicalIdx /\ SearchRowsMerged /\ OutcomeBacked

(* engine.go, finalize: "A generated answer is a valid outcome even when   *)
(* no Row was collected."                                                  *)
AnswerIsValidOutcome == phase = "done" /\ answer # NoKey => outcome.status = "ok"

(* config.go: allow_sparse_sources "lets answer-node sources (link+title,  *)
(* often no snippet) be mixed into the Row result as sparse rows."         *)
SparseSourcesMixedIn ==
    phase = "done" => \A k \in reachable :
        IsProvider(k) /\ chain.sparse[k] /\ HasRows(result[k]) => k \in outcome.rows

(* The request is finalized in the end, whatever the providers return and  *)
(* even when its context is cancelled half way.                            *)
EventuallyFinalized == <>(phase = "done")

(* What the walk promises, without counters, goroutines or retries: see    *)
(* DagWalk.                                                                *)
Dag == INSTANCE DagWalk WITH walk <- reachable, ran <- done, over <- phase = "done", budget <- HasBudget
ImplementsDagWalk == Dag!Spec

=============================================================================
