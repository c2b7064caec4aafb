----------------------------- MODULE RequestLife -----------------------------
(***************************************************************************)
(* The life of search requests in the store: Engine.Execute and Start      *)
(* (engine/engine.go) create the row, run the chain and finalize it, while *)
(* an administrator clears the history, the cleanup job prunes it and the  *)
(* process stops and starts again. The walk of the chain is modelled by    *)
(* FullChain and LinearWalk; here it saves some steps and ends with a      *)
(* status. A call with a context that has expired (lost client,            *)
(* CHAIN_TIMEOUT, the ten minutes of Start) fails, whatever it was to do.  *)
(***************************************************************************)
EXTENDS Naturals, FiniteSets

CONSTANTS
    Requests,       \* requests that may be made
    Finals,         \* the outcomes of a walk: ok, empty, fail
    HistoryDays,    \* history_retention_days, 0 disables
    MaxDay,         \* bound: the last UTC day
    MaxSteps,       \* bound: steps a walk saves
    MaxFaults,      \* bound: store calls that fail with a live context
    MaxStops,       \* bound: times the process stops
    MaxClears       \* bound: times the history is cleared

ASSUME LifeAssumption ==
    /\ IsFiniteSet(Requests)
    /\ Finals \subseteq {"ok", "empty", "fail"}
    /\ {HistoryDays, MaxDay, MaxSteps, MaxFaults, MaxStops, MaxClears} \subseteq Nat

Days == 0 .. MaxDay

VARIABLES
    today,          \* the UTC day of the clock
    up,             \* the process runs
    row,            \* requests.status, or "absent"
    created,        \* the day of requests.created_at
    steps,          \* the number of rows of request_steps
    pc,             \* where the request is
    expired,        \* its context has expired
    status,         \* req.Status of the running request
    done,           \* history: request_done events published
    cause,          \* history: why the row was left as it is
    faults, stops, clears

tables == <<row, created, steps>>
run == <<pc, expired, status>>
counts == <<faults, stops, clears>>
vars == <<today, up, tables, run, done, cause, counts>>

Ended == {"new", "refused", "aborted", "returned", "killed"}

(* The request goes on at l; a context is of no interest once it has ended. *)
Goto(r, l) ==
    /\ pc' = [pc EXCEPT ![r] = l]
    /\ expired' = [expired EXCEPT ![r] = @ /\ l \notin Ended]

(* A store call of the request with its context: it succeeds, or it fails  *)
(* because the context has expired or by a fault of the store.             *)
Succeeds(r) == ~expired[r] /\ UNCHANGED faults
Fails(r) == \/ expired[r] /\ UNCHANGED faults
            \/ ~expired[r] /\ faults < MaxFaults /\ faults' = faults + 1

-----------------------------------------------------------------------------
(* prepare: the chain is resolved, the row is created, request_created is  *)
(* published; then the providers and the proxies are listed.               *)

CreateRequest(r) ==
    /\ up /\ pc[r] = "new"
    /\ \/ /\ Succeeds(r)
          /\ row' = [row EXCEPT ![r] = "running"]
          /\ created' = [created EXCEPT ![r] = today]
          /\ Goto(r, "prepare")
       \/ /\ Fails(r)
          /\ Goto(r, "refused")
          /\ UNCHANGED <<row, created>>
    /\ UNCHANGED <<today, up, steps, status, done, cause, stops, clears>>

ListProviders(r) ==
    /\ up /\ pc[r] = "prepare"
    /\ \/ /\ Succeeds(r)
          /\ Goto(r, "walk")
          /\ UNCHANGED cause
       \/ /\ Fails(r)
          /\ Goto(r, "aborted")
          /\ cause' = [cause EXCEPT ![r] = "listing"]
    /\ UNCHANGED <<today, up, tables, status, done, stops, clears>>

(* SaveStep: the foreign key refuses a step of a request that is gone; an  *)
(* error is logged and the walk goes on.                                   *)
AddStep(r) ==
    /\ up /\ pc[r] = "walk" /\ steps[r] < MaxSteps
    /\ Succeeds(r) /\ row[r] # "absent"
    /\ steps' = [steps EXCEPT ![r] = @ + 1]
    /\ UNCHANGED <<today, up, row, created, run, done, cause, stops, clears>>

(* A slip for the checks: the row is updated after the event. *)
SlipPublishFirst == "publish"

AfterWalk == "update"

(* A slip for the checks: req.Status is left as it was. *)
SlipForgetsStatus(r, s) == status

EndedWith(r, s) == [status EXCEPT ![r] = s]

(* The walker returns to finalize, which settles the status. *)
EndWalk(r) ==
    /\ up /\ pc[r] = "walk"
    /\ \E s \in Finals : status' = EndedWith(r, s)
    /\ Goto(r, AfterWalk)
    /\ UNCHANGED <<today, up, tables, done, cause, counts>>

(* A slip for the checks: the update inserts the row when it is missing. *)
SlipUpsertStatus(r) == [row EXCEPT ![r] = status[r]]

(* A slip for the checks: only the other columns are written. *)
SlipKeepsStatus(r) == row

(* UPDATE requests ... WHERE id = ?: nothing when the row is gone. *)
UpdatedRow(r) == IF row[r] = "absent" THEN row ELSE [row EXCEPT ![r] = status[r]]

UpdateRequest(r) ==
    /\ up /\ pc[r] = "update"
    /\ \/ /\ Succeeds(r)
          /\ row' = UpdatedRow(r)
          /\ UNCHANGED cause
       \/ /\ Fails(r)
          /\ cause' = [cause EXCEPT ![r] = IF expired[r] THEN "expired" ELSE "fault"]
          /\ UNCHANGED row
    /\ Goto(r, "publish")
    /\ UNCHANGED <<today, up, created, steps, status, done, stops, clears>>

PublishDone(r) ==
    /\ up /\ pc[r] = "publish"
    /\ done' = [done EXCEPT ![r] = @ + 1]
    /\ Goto(r, "returned")
    /\ UNCHANGED <<today, up, tables, status, cause, counts>>

(* The client goes away, or the deadline passes. *)
Expire(r) ==
    /\ up /\ pc[r] \notin Ended /\ ~expired[r]
    /\ expired' = [expired EXCEPT ![r] = TRUE]
    /\ UNCHANGED <<today, up, tables, pc, status, done, cause, counts>>

-----------------------------------------------------------------------------
(* A slip for the checks: deleting a request leaves its steps. *)
SlipWithoutCascade(gone) == steps

(* ON DELETE CASCADE of request_steps. *)
StepsWithout(gone) == [r \in Requests |-> IF r \in gone THEN 0 ELSE steps[r]]

Delete(gone) ==
    /\ row' = [r \in Requests |-> IF r \in gone THEN "absent" ELSE row[r]]
    /\ steps' = StepsWithout(gone)

ClearHistory ==
    /\ up /\ clears < MaxClears
    /\ clears' = clears + 1
    /\ Delete(Requests)
    /\ UNCHANGED <<today, up, created, run, done, cause, faults, stops>>

(* Cleanup deletes the requests created before now - historyDays. Of the   *)
(* day in which that moment lies some are older than it and some are not.  *)
AtCutoff == {r \in Requests : created[r] + HistoryDays = today}
PastRetention == {r \in Requests : created[r] + HistoryDays < today}

Cleanup ==
    /\ up /\ HistoryDays > 0
    /\ \E some \in SUBSET AtCutoff : Delete(PastRetention \cup some)
    /\ UNCHANGED <<today, up, created, run, done, cause, counts>>

Midnight ==
    /\ today < MaxDay
    /\ today' = today + 1
    /\ UNCHANGED <<up, tables, run, done, cause, counts>>

(* The process ends with requests in flight, asynchronous ones also in an  *)
(* orderly shutdown; nothing looks at their rows when it starts again.     *)
Stop ==
    /\ up /\ stops < MaxStops
    /\ up' = FALSE /\ stops' = stops + 1
    /\ pc' = [r \in Requests |-> IF pc[r] \in Ended THEN pc[r] ELSE "killed"]
    /\ cause' = [r \in Requests |-> IF pc[r] \in Ended \/ cause[r] # "none" THEN cause[r]
                                    ELSE "stopped"]
    /\ expired' = [r \in Requests |-> FALSE]
    /\ UNCHANGED <<today, tables, status, done, faults, clears>>

Restart ==
    /\ ~up /\ up' = TRUE
    /\ UNCHANGED <<today, tables, run, done, cause, counts>>

-----------------------------------------------------------------------------
Init ==
    /\ today = 0 /\ up = TRUE
    /\ row = [r \in Requests |-> "absent"] /\ steps = [r \in Requests |-> 0]
    /\ created = [r \in Requests |-> 0]
    /\ pc = [r \in Requests |-> "new"]
    /\ expired = [r \in Requests |-> FALSE]
    /\ status = [r \in Requests |-> "running"]
    /\ done = [r \in Requests |-> 0]
    /\ cause = [r \in Requests |-> "none"]
    /\ faults = 0 /\ stops = 0 /\ clears = 0

Advance(r) ==
    \/ CreateRequest(r) \/ ListProviders(r) \/ EndWalk(r) \/ UpdateRequest(r)
    \/ PublishDone(r)

Next ==
    \/ \E r \in Requests : Advance(r) \/ AddStep(r) \/ Expire(r)
    \/ Cleanup \/ ClearHistory \/ Midnight \/ Stop \/ Restart

(* A request that has begun is executed to its end, and the process is     *)
(* restarted.                                                              *)
Fairness ==
    /\ \A r \in Requests : WF_vars(pc[r] # "new" /\ Advance(r))
    /\ WF_vars(Restart)

Spec == Init /\ [][Next]_vars /\ Fairness

-----------------------------------------------------------------------------
(* Properties *)

Statuses == Finals \cup {"running"}

RowTypes ==
    /\ today \in Days /\ up \in BOOLEAN
    /\ created \in [Requests -> Days]
    /\ row \in [Requests -> Statuses \cup {"absent"}]
    /\ steps \in [Requests -> 0 .. MaxSteps]
    /\ pc \in [Requests -> Ended \cup {"prepare", "walk", "update", "publish"}]
    /\ expired \in [Requests -> BOOLEAN]
    /\ status \in [Requests -> Statuses]
    /\ done \in [Requests -> Nat]
    /\ cause \in [Requests -> {"none", "listing", "expired", "fault", "stopped"}]
    /\ faults \in Nat /\ stops \in Nat /\ clears \in Nat

(* Types; the status of a walk that is over is one of its outcomes. *)
TypeOK ==
    /\ RowTypes
    /\ \A r \in Requests : pc[r] \in {"update", "publish", "returned"} => status[r] \in Finals

(* No step without its request: neither the steps a walk saves after the   *)
(* history was cleared, nor those saved before it, stay behind.            *)
NoOrphanSteps == \A r \in Requests : row[r] = "absent" => steps[r] = 0

(* A client that sees request_done reads the final row: the event comes    *)
(* once, and after the update, unless the update was lost or the row       *)
(* deleted.                                                                *)
DoneTellsTheRow ==
    \A r \in Requests :
        /\ done[r] <= 1
        /\ done[r] = 1 => \/ row[r] \in {status[r], "absent"}
                          \/ cause[r] \in {"expired", "fault"}

(* A row that still says "running" when nobody works on it was left by one *)
(* of four causes: prepare gave up, the context expired, the store failed, *)
(* the process stopped. With none of them every row is settled.            *)
RunningIsExplained ==
    \A r \in Requests :
        row[r] = "running" /\ pc[r] \in Ended => cause[r] # "none"

(* However requests, the job, clearing and crashes interleave, a stored    *)
(* row, its steps and its events agree, or one of the four causes is known. *)
RowsAgree == NoOrphanSteps /\ DoneTellsTheRow /\ RunningIsExplained

(* Clearing the history is final: no walk that goes on brings its request  *)
(* back.                                                                   *)
ClearedStaysCleared ==
    [][\A r \in Requests :
          row[r] = "absent" /\ pc[r] # "new" => row'[r] = "absent"]_vars

(* Every request that was created is settled, or one of the four causes    *)
(* has left it for good.                                                   *)
EventuallySettled ==
    \A r \in Requests :
        row[r] = "running" ~> (row[r] # "running" \/ cause[r] # "none")

-----------------------------------------------------------------------------
(* Execute "runs a search synchronously and returns the persisted request" *)
(* (engine.go:146): what it returned is what the store holds.              *)
ReturnedIsPersisted ==
    \A r \in Requests : pc[r] = "returned" => row[r] \in {status[r], "absent"}
=============================================================================
