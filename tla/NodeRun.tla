------------------------------ MODULE NodeRun ------------------------------
(***************************************************************************)
(* The results of provider attempts and what Engine.execNode of            *)
(* internal/engine/engine.go makes of them, for the walkers: FullChain and *)
(* LinearWalk.                                                             *)
(*                                                                         *)
(* Rows are only "some" or "none": their merge is the merger's business.   *)
(* A definition named Slip... is a plausible mistake in the definition     *)
(* after it; nothing uses it.  The runs are required to catch each one.    *)
(***************************************************************************)
EXTENDS ChainPlan

CONSTANTS
    MaxAttempts,   \* MAX_ATTEMPTS
    MaxExtra       \* upstream calls beyond the first that one attempt may report

ASSUME BudgetAssumption == MaxAttempts \in Nat \ {0} /\ MaxExtra \in Nat

VARIABLE chain     \* the request's chain, fixed

-----------------------------------------------------------------------------
(* Results of one attempt.  "empty" and "zero" both succeed without a row: *)
(* most drivers then report KindEmpty, a few (searxng, google_cse) KindOK. *)

ResultKinds == {"rows", "answer", "answer+rows", "empty", "zero", "fail", "permanent"}

OK(r) == r \in {"rows", "answer", "answer+rows", "empty", "zero"}
HasRows(r) == r \in {"rows", "answer+rows"}
HasAnswer(r) == r \in {"answer", "answer+rows"}

SlipStepRowsAlways(k, r) == HasRows(r)

(* stepRows: the sources of an answer block count only when allowed.       *)
StepRows(k, r) == HasRows(r) /\ (chain.answer[k] => chain.sparse[k])

(* execNode returns from its loop with won set.                            *)
Won(k, r) ==
    /\ OK(r)
    /\ IF chain.answer[k]
       THEN HasAnswer(r) \/ StepRows(k, r)
       ELSE HasRows(r) \/ ~chain.treatEmpty[k]

SlipStatusIsKind(k, r) ==
    CASE r = "none" -> "skip"
      [] OK(r) -> "ok"
      [] OTHER -> r

(* process: the status of a block whose attempt loop ended with r.         *)
BlockStatus(k, r) ==
    IF r = "none" THEN "skip"
    ELSE IF ~OK(r) THEN "fail"
    ELSE IF (chain.answer[k] /\ HasAnswer(r)) \/ StepRows(k, r) THEN "ok" ELSE "empty"

=============================================================================
