--------------------------- MODULE RequestProofs ---------------------------
(***************************************************************************)
(* Safety of what a request leaves behind: its row, its steps and its      *)
(* live trace.                                                             *)
(*                                                                         *)
(* Part 1, RequestLife, for every finite set of requests and any number of *)
(* steps, faults, stops and clears:                                        *)
(*                                                                         *)
(*   LifeTypes        types                                                *)
(*   RowsSound        rows, steps and events agree or a cause is known     *)
(*   ClearingLasts    a cleared request does not come back                 *)
(*                                                                         *)
(* RowsAgree is not inductive: whether a row may differ from what the      *)
(* client was told is decided where the request is. Stage says, for every  *)
(* place in Execute, what the row and the events are there.                *)
(*                                                                         *)
(* Part 2, SseStream, for any branches, steps, other requests, connections *)
(* and any bounds of the hub:                                              *)
(*                                                                         *)
(*   StreamTypes      types, bounds of the channels, live subscribers      *)
(*   TracesDelivered  what one connection delivers                         *)
(*                                                                         *)
(* Deliveries speaks of what the client has seen; what it will see is in   *)
(* the buffer, in the replay it was given, in its channel and in the hands *)
(* of goroutines between the halves of Publish. StreamInv says of those    *)
(* places that no id is in two of them, that request_done is the last one  *)
(* in each and that together they miss nothing that was published.         *)
(***************************************************************************)
EXTENDS RequestLife, SseStream, FiniteSetTheorems, WellFoundedInduction, TLAPS

-----------------------------------------------------------------------------
(* Part 1: the life of requests.                                           *)

(* What is true of a request at each place in Execute and where it ended.  *)
Stage(r) ==
    /\ pc[r] \in {"new", "refused"} => row[r] = "absent"
    /\ pc[r] \in {"new", "refused", "prepare", "aborted", "walk", "update", "publish"} => done[r] = 0
    /\ done[r] \in {0, 1}
    /\ pc[r] \in {"update", "publish", "returned"} => status[r] \in Finals
    /\ pc[r] \in {"publish", "returned"} \/ done[r] = 1 =>
          row[r] \in {status[r], "absent"} \/ cause[r] \in {"expired", "fault"}
    /\ pc[r] \in {"aborted", "killed"} => cause[r] # "none"
    /\ row[r] = "absent" => steps[r] = 0

(* The inductive invariant.                                                *)
Inv == RowTypes /\ \A r \in Requests : Stage(r)

-----------------------------------------------------------------------------
(* The bounds are numbers, and a status is the outcome of a walk.          *)
LEMMA Constants ==
    /\ MaxSteps \in Nat /\ MaxDay \in Nat /\ MaxFaults \in Nat /\ MaxStops \in Nat /\ MaxClears \in Nat
    /\ "running" \notin Finals /\ "absent" \notin Finals
BY LifeAssumption

-----------------------------------------------------------------------------
(* The values of pc.                                                       *)
Places == Ended \cup {"prepare", "walk", "update", "publish"}

(* Going on keeps the types of the places and of the contexts.             *)
LEMMA GotoTypes ==
    ASSUME RowTypes, NEW r \in Requests, NEW l \in Places, Goto(r, l)
    PROVE  pc' \in [Requests -> Places] /\ expired' \in [Requests -> BOOLEAN]
<1>1. pc' \in [Requests -> Places]
  BY DEF RowTypes, Goto, Places
<1>2. expired \in [Requests -> BOOLEAN]
  BY DEF RowTypes
<1>3. expired' \in [Requests -> BOOLEAN]
  BY <1>2, Zenon DEF Goto
<1> QED BY <1>1, <1>3

(* Each step of a request, the job or the process keeps the types.         *)
LEMMA TypeStep == RowTypes /\ [Next]_vars => RowTypes'
<1> SUFFICES ASSUME RowTypes, [Next]_vars PROVE RowTypes'
  OBVIOUS
<1> USE Constants
<1>1. ASSUME NEW r \in Requests, CreateRequest(r) PROVE RowTypes'
  <2>1. Goto(r, "prepare") \/ Goto(r, "refused")
    BY <1>1 DEF CreateRequest
  <2>2. pc' \in [Requests -> Places] /\ expired' \in [Requests -> BOOLEAN]
    BY <2>1, GotoTypes DEF Places, Ended
  <2> QED
    BY <1>1, <2>2 DEF RowTypes, Places, Statuses, CreateRequest, Succeeds, Fails
<1>2. ASSUME NEW r \in Requests, ListProviders(r) PROVE RowTypes'
  <2>1. Goto(r, "walk") \/ Goto(r, "aborted")
    BY <1>2 DEF ListProviders
  <2>2. pc' \in [Requests -> Places] /\ expired' \in [Requests -> BOOLEAN]
    BY <2>1, GotoTypes DEF Places, Ended
  <2> QED
    BY <1>2, <2>2 DEF RowTypes, Places, Statuses, ListProviders, Succeeds, Fails, tables
<1>3. ASSUME NEW r \in Requests, AddStep(r) PROVE RowTypes'
  BY <1>3 DEF RowTypes, Statuses, AddStep, Succeeds, run
<1>4. ASSUME NEW r \in Requests, EndWalk(r) PROVE RowTypes'
  <2>1. Goto(r, "update")
    BY <1>4 DEF EndWalk, AfterWalk, EndedWith
  <2>2. pc' \in [Requests -> Places] /\ expired' \in [Requests -> BOOLEAN]
    BY <2>1, GotoTypes DEF Places, Ended
  <2>3. status' \in [Requests -> Statuses]
    BY <1>4 DEF RowTypes, Statuses, EndWalk, EndedWith
  <2>4. UNCHANGED <<today, up, row, created, steps, done, cause, faults, stops, clears>>
    BY <1>4 DEF EndWalk, tables, counts
  <2> QED
    BY <2>2, <2>3, <2>4 DEF RowTypes, Places
<1>5. ASSUME NEW r \in Requests, UpdateRequest(r) PROVE RowTypes'
  <2>1. Goto(r, "publish")
    BY <1>5 DEF UpdateRequest
  <2>2. pc' \in [Requests -> Places] /\ expired' \in [Requests -> BOOLEAN]
    BY <2>1, GotoTypes DEF Places, Ended
  <2> QED
    BY <1>5, <2>2 DEF RowTypes, Places, Statuses, UpdateRequest, UpdatedRow, Succeeds, Fails
<1>6. ASSUME NEW r \in Requests, PublishDone(r) PROVE RowTypes'
  <2>1. Goto(r, "returned")
    BY <1>6 DEF PublishDone
  <2>2. pc' \in [Requests -> Places] /\ expired' \in [Requests -> BOOLEAN]
    BY <2>1, GotoTypes DEF Places, Ended
  <2>3. done' \in [Requests -> Nat]
    BY <1>6 DEF RowTypes, PublishDone
  <2>4. UNCHANGED <<today, up, row, created, steps, status, cause, faults, stops, clears>>
    BY <1>6 DEF PublishDone, tables, counts
  <2> QED
    BY <2>2, <2>3, <2>4 DEF RowTypes, Places
<1>7. ASSUME NEW r \in Requests, Expire(r) PROVE RowTypes'
  <2>1. expired \in [Requests -> BOOLEAN] /\ expired' = [expired EXCEPT ![r] = TRUE]
    BY <1>7 DEF RowTypes, Expire
  <2>2. expired' \in [Requests -> BOOLEAN]
    BY <2>1, Zenon
  <2>3. UNCHANGED <<today, up, row, created, steps, pc, status, done, cause, faults,
                    stops, clears>>
    BY <1>7 DEF Expire, tables, counts
  <2> QED
    BY <2>2, <2>3 DEF RowTypes
<1>8. CASE Cleanup
  BY <1>8 DEF RowTypes, Statuses, Ended, Cleanup, Delete, StepsWithout, run, counts
<1>9. CASE Midnight
  BY <1>9 DEF RowTypes, Days, Midnight, tables, run, counts
<1>10. CASE ClearHistory
  BY <1>10 DEF RowTypes, Statuses, Ended, ClearHistory, Delete, StepsWithout, run
<1>11. CASE Stop
  <2>1. pc' \in [Requests -> Places]
    BY <1>11 DEF RowTypes, Places, Ended, Stop
  <2>2. cause' \in [Requests -> {"none", "listing", "expired", "fault", "stopped"}]
    BY <1>11 DEF RowTypes, Stop
  <2>3. up' \in BOOLEAN
    BY <1>11, Zenon DEF Stop
  <2>4. expired' = [r \in Requests |-> FALSE]
    BY <1>11 DEF Stop
  <2>5. expired' \in [Requests -> BOOLEAN]
    BY <2>4, Zenon
  <2>6. stops' \in Nat
    BY <1>11 DEF RowTypes, Stop
  <2>7. UNCHANGED <<today, row, created, steps, status, done, faults, clears>>
    BY <1>11 DEF Stop, tables
  <2> QED
    BY <2>1, <2>2, <2>3, <2>5, <2>6, <2>7 DEF RowTypes, Places
<1>12. CASE Restart
  BY <1>12 DEF RowTypes, Restart, tables, run, counts
<1>13. CASE UNCHANGED vars
  BY <1>13 DEF RowTypes, vars, tables, run, counts
<1> QED
  BY <1>1, <1>2, <1>3, <1>4, <1>5, <1>6, <1>7, <1>8, <1>9, <1>10, <1>11, <1>12, <1>13
     DEF Next, Advance

(* Wherever a request is in Execute, or where it ended, its row, its steps *)
(* and its events are as Stage says, whoever acts.                         *)
LEMMA StageStep == Inv /\ [Next]_vars => \A r \in Requests : Stage(r)'
<1> SUFFICES ASSUME Inv, [Next]_vars, NEW q \in Requests PROVE Stage(q)'
  OBVIOUS
<1> USE Constants
<1>1. ASSUME NEW r \in Requests, CreateRequest(r) PROVE Stage(q)'
  BY <1>1 DEF Inv, RowTypes, Stage, CreateRequest, Succeeds, Fails, Goto
<1>2. ASSUME NEW r \in Requests, ListProviders(r) PROVE Stage(q)'
  BY <1>2 DEF Inv, RowTypes, Stage, ListProviders, Succeeds, Fails, Goto, tables
<1>3. ASSUME NEW r \in Requests, AddStep(r) PROVE Stage(q)'
  BY <1>3 DEF Inv, RowTypes, Stage, AddStep, Succeeds, run
<1>4. ASSUME NEW r \in Requests, EndWalk(r) PROVE Stage(q)'
  BY <1>4 DEF Inv, RowTypes, Stage, EndWalk, AfterWalk, EndedWith, Goto, tables, counts
<1>5. ASSUME NEW r \in Requests, UpdateRequest(r) PROVE Stage(q)'
  BY <1>5 DEF Inv, RowTypes, Stage, UpdateRequest, UpdatedRow, Succeeds, Fails, Goto
<1>6. ASSUME NEW r \in Requests, PublishDone(r) PROVE Stage(q)'
  BY <1>6 DEF Inv, RowTypes, Stage, PublishDone, Goto, tables, counts
<1>7. ASSUME NEW r \in Requests, Expire(r) PROVE Stage(q)'
  BY <1>7 DEF Inv, Stage, Expire, tables, counts
<1>8. CASE Cleanup
  BY <1>8 DEF Inv, RowTypes, Stage, Cleanup, Delete, StepsWithout, run, counts
<1>9. CASE Midnight
  BY <1>9 DEF Inv, Stage, Midnight, tables, run, counts
<1>10. CASE ClearHistory
  BY <1>10 DEF Inv, RowTypes, Stage, ClearHistory, Delete, StepsWithout, run
<1>11. CASE Stop
  BY <1>11 DEF Inv, RowTypes, Stage, Ended, Stop, tables
<1>12. CASE Restart
  BY <1>12 DEF Inv, Stage, Restart, tables, run, counts
<1>13. CASE UNCHANGED vars
  BY <1>13 DEF Inv, Stage, vars, tables, run, counts
<1> QED
  BY <1>1, <1>2, <1>3, <1>4, <1>5, <1>6, <1>7, <1>8, <1>9, <1>10, <1>11, <1>12, <1>13
     DEF Next, Advance

(* The invariant holds in every reachable state.                           *)
LEMMA Invariant == Spec => []Inv
<1>1. Init => Inv
  BY Constants DEF Init, Inv, RowTypes, Stage, Statuses, Ended, Days
<1>2. Inv /\ [Next]_vars => Inv'
  BY TypeStep, StageStep DEF Inv
<1> QED BY <1>1, <1>2, PTL DEF Spec

-----------------------------------------------------------------------------
(* Rows, contexts and causes keep their types, for any number of requests. *)
THEOREM LifeTypes == Spec => []TypeOK
<1>1. Inv => TypeOK
  BY DEF Inv, Stage, TypeOK
<1> QED BY <1>1, Invariant, PTL

(* finalize publishes what it stored, deleting takes the steps along, and  *)
(* a row that is left "running" has one of the four causes.                *)
THEOREM RowsSound == Spec => []RowsAgree
<1>1. ASSUME Inv PROVE RowsAgree
  <2>1. NoOrphanSteps
    BY <1>1 DEF Inv, Stage, NoOrphanSteps
  <2>2. DoneTellsTheRow
    BY <1>1 DEF Inv, Stage, DoneTellsTheRow
  <2>3. RunningIsExplained
    BY <1>1, Constants DEF Inv, RowTypes, Stage, RunningIsExplained, Ended
  <2> QED BY <2>1, <2>2, <2>3 DEF RowsAgree
<1> QED BY <1>1, Invariant, PTL

(* UpdateRequest finds no row to update: a walk that goes on after the     *)
(* history was cleared does not bring its request back.                    *)
THEOREM ClearingLasts == Spec => ClearedStaysCleared
<1> DEFINE Kept == \A r \in Requests : row[r] = "absent" /\ pc[r] # "new" => row'[r] = "absent"
<1>1. ASSUME Inv, [Next]_vars, NEW r \in Requests, row[r] = "absent", pc[r] # "new"
      PROVE  row'[r] = "absent"
  <2>1. ASSUME NEW q \in Requests, Advance(q) \/ AddStep(q) \/ Expire(q) PROVE row'[r] = "absent"
    BY <1>1, <2>1 DEF Inv, RowTypes, Advance, CreateRequest, ListProviders, EndWalk, UpdateRequest,
       UpdatedRow, PublishDone, AddStep, Expire, tables
  <2>2. CASE Cleanup \/ ClearHistory \/ Midnight \/ Stop \/ Restart
    BY <1>1, <2>2 DEF Cleanup, Midnight, ClearHistory, Delete, Stop, Restart, tables
  <2>3. CASE UNCHANGED vars
    BY <1>1, <2>3 DEF vars, tables
  <2> QED BY <1>1, <2>1, <2>2, <2>3 DEF Next
<1>2. Inv /\ [Next]_vars => [Kept]_vars
  BY <1>1
<1> QED BY <1>2, Invariant, PTL DEF Spec, ClearedStaysCleared

-----------------------------------------------------------------------------
(* Part 2: the live trace.                                                 *)

(* The goroutines of the request, and the keys of the hub.                 *)
Walkers == Branches \cup {Main}
Keys == {Req} \cup OtherKeys

(* Published events, and an event on its way to the subscribers.           *)
Contents == StepEvents \cup {Done}
Events == [id : Nat \ {0}, content : Contents]
Flights == [ev : [id : Nat, content : Contents], to : SUBSET (1..conn), sent : SUBSET (1..conn)]

(* Of a sequence of events: what it tells, that its ids ascend, and that   *)
(* none of them exceeds n.                                                 *)
Told(s) == {s[i].content : i \in DOMAIN s}
Rising(s) == \A i, j \in DOMAIN s : i < j => s[i].id < s[j].id
UpTo(s, n) == \A i \in DOMAIN s : s[i].id <= n

(* Done comes last or not at all.                                          *)
DoneLast(s) == \A i \in DOMAIN s : s[i].content = Done => i = Len(s)

(* The hub.                                                                *)
HubTypes ==
    /\ seq \in Nat /\ closed \in BOOLEAN
    /\ order \in Seq(Keys)
    /\ buffers \in [ToSet(order) -> Seq(Events)]
    /\ subs \in [Keys -> SUBSET (1..conn)]
    /\ \A k \in OtherKeys : subs[k] = {}
    /\ chan \in [1..conn -> Seq(Events)]
    /\ \A c \in 1..conn : Len(chan[c]) <= ChanCap
    /\ shut \subseteq 1..conn

(* The goroutines and the store.                                           *)
WalkTypes ==
    /\ published \in [Publishers -> Nat]
    /\ \A p \in Branches : published[p] <= Steps
    /\ \A p \in OtherKeys \cup {Main} : published[p] <= 1
    /\ inflight \in [Publishers -> Flights]
    /\ saved \subseteq StepEvents
    /\ stored \in {"running", "finished", "update_failed"}
    /\ crashed \in BOOLEAN
    /\ lost \subseteq {"dropped", "forgotten", "early"}

(* The client.                                                             *)
ClientTypes ==
    /\ state \in {"off", "joined", "replay", "live", "ended"}
    /\ conn \in 0..MaxConnects /\ lastID \in 0..seq
    /\ past \in Seq(Events) /\ got \subseteq Contents /\ inConn \in Seq(Nat)

(* The buffers and the queue of keys keep their bounds, and in a buffer    *)
(* ids ascend.                                                             *)
BuffersInv ==
    /\ Len(order) <= MaxKeys /\ IsInjective(order)
    /\ \A k \in ToSet(order) :
          Len(buffers[k]) \in 1..MaxBuf /\ Rising(buffers[k]) /\ UpTo(buffers[k], seq)

(* Every event has an id of its own, no later than the last.               *)
FlightsInv ==
    /\ \A p \in Publishers : inflight[p].ev.id <= seq
    /\ \A p \in Publishers : inflight[p].to # {} => inflight[p].ev.id # 0
    /\ \A k \in OtherKeys : inflight[k].to = {}
    /\ \A p, q \in Publishers :
          p # q /\ inflight[p].ev.id # 0 => inflight[p].ev.id # inflight[q].ev.id

(* The client's connection has still to be sent a publisher's event.       *)
Pending(p) == conn \in Recipients(p)

(* What this connection has seen, what it has still to replay and what it  *)
(* may still be sent have different ids.                                   *)
OnceInv ==
    /\ IsInjective(inConn) /\ \A i \in DOMAIN inConn : inConn[i] <= seq
    /\ Rising(past) /\ UpTo(past, seq)
    /\ \A i \in DOMAIN inConn, j \in DOMAIN past : inConn[i] # past[j].id
    /\ \A p \in Publishers : Pending(p) =>
          /\ \A i \in DOMAIN inConn : inConn[i] # inflight[p].ev.id
          /\ \A j \in DOMAIN past : past[j].id # inflight[p].ev.id
    /\ state = "live" => past = <<>>
    /\ conn = 0 => state = "off"

(* What is in its channel has ids of its own, too.                         *)
ChannelInv ==
    conn > 0 =>
    /\ UpTo(chan[conn], seq)
    /\ \A i, j \in DOMAIN chan[conn] : i # j => chan[conn][i].id # chan[conn][j].id
    /\ \A i \in DOMAIN inConn, j \in DOMAIN chan[conn] : inConn[i] # chan[conn][j].id
    /\ \A i \in DOMAIN past, j \in DOMAIN chan[conn] : past[i].id # chan[conn][j].id
    /\ \A p \in Publishers : Pending(p) =>
          \A j \in DOMAIN chan[conn] : chan[conn][j].id # inflight[p].ev.id

(* request_done has been published while the hub was open.                 *)
Announced == inflight[Main].ev.id # 0

(* How far the request is: a step is saved when it is published, the       *)
(* outcome is stored after the branches, request_done is published after   *)
(* that.                                                                   *)
ProgressInv ==
    /\ \A b \in Branches, n \in 1..Steps : <<b, n>> \in saved <=> n <= published[b]
    /\ stored # "running" => BranchesOver
    /\ published[Main] = 1 => stored # "running"
    /\ Announced => published[Main] = 1
    /\ inflight[Main].ev.content = Done
    /\ \A b \in Branches : inflight[b].ev.id # 0 => inflight[b].ev.content \in StepEvents

(* request_done is the last event wherever it is, and a handler that goes  *)
(* on is subscribed as long as the hub is open.                            *)
DoneInv ==
    /\ DoneLast(Buffer(Req)) /\ (Done \in Told(Buffer(Req)) => Announced)
    /\ DoneLast(past) /\ (Done \in Told(past) => Announced)
    /\ conn > 0 =>
          /\ DoneLast(chan[conn])
          /\ Done \in Told(chan[conn]) => Announced /\ conn \in inflight[Main].sent
    /\ state \in {"joined", "replay", "live"} => conn \in subs[Req] \/ closed

(* The first connection, as long as nothing was lost on it.                *)
FirstSound == ~crashed /\ conn <= 1 /\ lost \subseteq {"forgotten"}

(* The events the request has published, and those a goroutine has still   *)
(* to send to the client.                                                  *)
OutThere == {e \in Walkers \X Nat : e[2] \in 1..published[e[1]]}
InFlight == {inflight[p].ev.content : p \in {q \in Walkers : Pending(q)}}

(* What was published before the first connection is in the buffer; what   *)
(* was published before or during it has been seen, is to be replayed, is  *)
(* in the channel or in the hands of a goroutine.                          *)
CoverInv ==
    /\ conn = 0 => lastID = 0
    /\ FirstSound /\ (~closed \/ Announced) =>
          /\ conn = 0 => OutThere \subseteq Told(Buffer(Req))
          /\ conn = 1 /\ state \in {"joined", "replay", "live"} =>
                OutThere \subseteq got \cup Told(past) \cup Told(chan[1]) \cup InFlight
    /\ FirstSound /\ conn = 1 /\ state \in {"joined", "replay"} /\ Done \in Told(past) =>
          StepEvents \subseteq got \cup Told(past)
    /\ FirstConnectionComplete

(* The inductive invariant.                                                *)
StreamInv ==
    /\ HubTypes /\ WalkTypes /\ ClientTypes /\ BuffersInv /\ FlightsInv
    /\ OnceInv /\ ChannelInv /\ ProgressInv /\ DoneInv /\ CoverInv

-----------------------------------------------------------------------------
(* Sequences.                                                              *)

(* A sequence without its first d elements.                                *)
LEMMA SuffixElements ==
    ASSUME NEW S, NEW s \in Seq(S), NEW d \in 0..Len(s)
    PROVE  LET r == SubSeq(s, d + 1, Len(s))
           IN  r \in Seq(S) /\ Len(r) = Len(s) - d /\ \A i \in 1..Len(r) : r[i] = s[i + d]
OBVIOUS

(* Newest drops the oldest elements.                                       *)
Dropped(s, n) == IF Len(s) > n THEN Len(s) - n ELSE 0

(* The elements that are left.                                             *)
LEMMA NewestElements ==
    ASSUME NEW S, NEW s \in Seq(S), NEW n \in Nat \ {0}
    PROVE  /\ Dropped(s, n) \in 0..Len(s)
           /\ Newest(s, n) \in Seq(S) /\ Len(Newest(s, n)) = Len(s) - Dropped(s, n)
           /\ \A i \in 1..Len(Newest(s, n)) : Newest(s, n)[i] = s[i + Dropped(s, n)]
<1>1. /\ Dropped(s, n) \in 0..Len(s) /\ Dropped(s, n) + 1 \in 1..Len(s) + 1
      /\ Newest(s, n) = SubSeq(s, Dropped(s, n) + 1, Len(s))
  <2>1. CASE Len(s) > n
    <3>1. Dropped(s, n) = Len(s) - n /\ Dropped(s, n) + 1 = Len(s) - n + 1
      BY <2>1 DEF Dropped
    <3> QED BY <2>1, <3>1 DEF Newest
  <2>2. CASE ~(Len(s) > n)
    BY <2>2 DEF Newest, Dropped
  <2> QED BY <2>1, <2>2
<1> QED BY <1>1

(* Appending an event with a new id.                                       *)
LEMMA AppendEvent ==
    ASSUME NEW s \in Seq(Events), NEW e \in Events
    PROVE  /\ Append(s, e) \in Seq(Events) /\ Len(Append(s, e)) = Len(s) + 1
           /\ DOMAIN Append(s, e) = DOMAIN s \cup {Len(s) + 1}
           /\ \A i \in DOMAIN s : Append(s, e)[i] = s[i]
           /\ Append(s, e)[Len(s) + 1] = e
           /\ Told(Append(s, e)) = Told(s) \cup {e.content}
<1>1. /\ Append(s, e) \in Seq(Events) /\ Len(Append(s, e)) = Len(s) + 1
      /\ DOMAIN Append(s, e) = DOMAIN s \cup {Len(s) + 1}
      /\ \A i \in DOMAIN s : Append(s, e)[i] = s[i]
      /\ Append(s, e)[Len(s) + 1] = e
  OBVIOUS
<1> QED BY <1>1 DEF Told

(* Taking the first event.                                                 *)
LEMMA TakeEvent ==
    ASSUME NEW s \in Seq(Events), s # <<>>
    PROVE  /\ Head(s) \in Events /\ Head(s) = s[1] /\ 1 \in DOMAIN s
           /\ Tail(s) \in Seq(Events) /\ Len(Tail(s)) = Len(s) - 1
           /\ \A i \in DOMAIN Tail(s) : i + 1 \in DOMAIN s /\ Tail(s)[i] = s[i + 1]
           /\ Told(s) = {Head(s).content} \cup Told(Tail(s))
<1>0. Len(s) \in Nat \ {0} /\ 1 \in DOMAIN s /\ DOMAIN s = 1..Len(s)
  OBVIOUS
<1>1. Head(s) = s[1] /\ s[1] \in Events
  BY <1>0
<1>3. Tail(s) \in Seq(Events) /\ Len(Tail(s)) = Len(s) - 1
  BY <1>0
<1>4. \A i \in DOMAIN Tail(s) : i + 1 \in DOMAIN s /\ Tail(s)[i] = s[i + 1]
  BY <1>0
<1>2. \A j \in DOMAIN s : j = 1 \/ (j - 1 \in DOMAIN Tail(s) /\ Tail(s)[j - 1] = s[j])
  BY <1>0, <1>3, <1>4
<1>5. \A x \in Told(s) : x = Head(s).content \/ x \in Told(Tail(s))
  BY <1>1, <1>2 DEF Told
<1>6. Head(s).content \in Told(s) /\ Told(Tail(s)) \subseteq Told(s)
  BY <1>0, <1>1, <1>4 DEF Told
<1> QED BY <1>0, <1>1, <1>3, <1>4, <1>5, <1>6

(* The first number from which a property of numbers fails, without an     *)
(* induction: the newer events of a buffer are its last ones.              *)
LEMMA NewerAreLast ==
    ASSUME NEW s \in Seq(Events), Rising(s), NEW n \in Nat
    PROVE  \E m \in 0..Len(s) : \A i \in DOMAIN s : s[i].id > n <=> i > m
<1> DEFINE T == {i \in 1..Len(s) + 1 : \A j \in DOMAIN s : j >= i => s[j].id > n}
<1>1. Len(s) + 1 \in T /\ T \subseteq Nat
  OBVIOUS
<1> HIDE DEF T
<1>2. PICK x \in T : \A y \in T : ~(<<y, x>> \in OpToRel(<, Nat))
  BY <1>1, NatLessThanWellFounded, WFMin
<1>3. ASSUME NEW y \in T PROVE ~(y < x)
  BY <1>1, <1>2, <1>3 DEF OpToRel
<1> USE DEF T
<1>4. x - 1 \in 0..Len(s)
  OBVIOUS
<1>5. ASSUME NEW i \in DOMAIN s, s[i].id > n PROVE i > x - 1
  <2>1. SUFFICES ASSUME i < x PROVE FALSE
    BY <1>4
  <2>2. ASSUME NEW j \in DOMAIN s, j >= i PROVE s[j].id > n
    <3>1. s[i] \in Events /\ s[j] \in Events
      OBVIOUS
    <3>3. s[i].id \in Nat /\ s[j].id \in Nat
      BY <3>1 DEF Events
    <3>2. i < j => s[i].id < s[j].id
      BY DEF Rising
    <3> QED BY <1>5, <2>2, <3>3, <3>2
  <2>3. i \in T
    BY <2>2
  <2> QED BY <1>3, <2>1, <2>3
<1>6. ASSUME NEW i \in DOMAIN s, i > x - 1 PROVE s[i].id > n
  BY <1>6
<1>7. \A i \in DOMAIN s : s[i].id > n <=> i > x - 1
  BY <1>5, <1>6
<1> QED BY <1>4, <1>7

-----------------------------------------------------------------------------
(* The locked half of Publish.                                             *)

(* The bounds of the hub are positive numbers.                             *)
LEMMA HubConstants == MaxBuf \in Nat \ {0} /\ MaxKeys \in Nat \ {0} /\ ChanCap \in Nat \ {0}
BY HubAssumption

(* A key joins the queue of keys once, and what leaves it is evicted.      *)
LEMMA OrderStep ==
    ASSUME HubTypes, BuffersInv, NEW k \in Keys
    PROVE  /\ Newest(OrderWith(k), MaxKeys) \in Seq(Keys)
           /\ Len(Newest(OrderWith(k), MaxKeys)) <= MaxKeys
           /\ IsInjective(Newest(OrderWith(k), MaxKeys))
           /\ ToSet(Newest(OrderWith(k), MaxKeys)) = (ToSet(order) \cup {k}) \ Evicted(k)
           /\ k \notin Evicted(k)
<1> DEFINE o == OrderWith(k)
<1>1. order \in Seq(Keys) /\ DOMAIN buffers = ToSet(order) /\ Len(order) <= MaxKeys
  BY DEF HubTypes, BuffersInv
<1>2. \A i, j \in 1..Len(order) : order[i] = order[j] => i = j
  BY <1>1 DEF BuffersInv, IsInjective
<1>3. /\ o \in Seq(Keys)
      /\ \A i, j \in 1..Len(o) : o[i] = o[j] => i = j
      /\ ToSet(o) = ToSet(order) \cup {k}
      /\ \E i \in 1..Len(o) : o[i] = k /\ i > Len(o) - MaxKeys
  <2>1. CASE k \in ToSet(order)
    <3>1. o = order
      BY <1>1, <2>1 DEF OrderWith
    <3>2. PICK i \in 1..Len(order) : order[i] = k
      BY <1>1, <2>1 DEF ToSet
    <3> QED BY <1>1, <1>2, <2>1, <3>1, <3>2, HubConstants
  <2>2. CASE k \notin ToSet(order)
    <3>1. o = Append(order, k)
      BY <1>1, <2>2 DEF OrderWith
    <3>2. /\ o \in Seq(Keys) /\ Len(o) = Len(order) + 1 /\ o[Len(o)] = k
          /\ \A i \in 1..Len(order) : o[i] = order[i] /\ o[i] # k
      BY <1>1, <2>2, <3>1 DEF ToSet
    <3>3. \A i, j \in 1..Len(o) : o[i] = o[j] => i = j
      BY <1>1, <1>2, <3>2
    <3>4. ToSet(o) = ToSet(order) \cup {k}
      BY <1>1, <3>2 DEF ToSet
    <3> QED BY <1>1, <3>2, <3>3, <3>4, HubConstants
  <2> QED BY <2>1, <2>2
<1> HIDE DEF o
<1> DEFINE d == Dropped(o, MaxKeys)
           n == Newest(o, MaxKeys)
<1>7. n \in Seq(Keys) /\ Len(n) = Len(o) - d /\ \A i \in 1..Len(n) : n[i] = o[i + d]
  BY <1>3, HubConstants, NewestElements
<1>4. d \in 0..Len(o) /\ Len(o) \in Nat
  BY <1>3, HubConstants, NewestElements
<1>11. d = IF Len(o) > MaxKeys THEN Len(o) - MaxKeys ELSE 0
  BY DEF Dropped
<1>12. Len(n) \in Nat /\ DOMAIN n = 1..Len(n)
  BY <1>7
<1> HIDE DEF n, d
<1>5. Evicted(k) = {o[i] : i \in 1..d}
  <2>1. 1..d = 1..Len(o) - MaxKeys
    BY <1>4, <1>11, HubConstants
  <2> QED BY <2>1 DEF Evicted, o
<1>6. k \notin Evicted(k)
  BY <1>3, <1>4, <1>5, <1>11, HubConstants
<1>8. Len(n) <= MaxKeys
  BY <1>4, <1>7, <1>11, HubConstants
<1>9. IsInjective(n)
  <2>1. ASSUME NEW i \in 1..Len(n), NEW j \in 1..Len(n), n[i] = n[j] PROVE i = j
    <3>1. i + d \in 1..Len(o) /\ j + d \in 1..Len(o) /\ o[i + d] = o[j + d]
      BY <1>4, <1>7, <1>12, <2>1
    <3>2. i + d = j + d
      BY <1>3, <3>1
    <3> QED BY <1>4, <1>12, <3>2
  <2> QED BY <1>12, <2>1 DEF IsInjective
<1>10. ToSet(n) = ToSet(o) \ Evicted(k)
  <2>1. ASSUME NEW i \in 1..Len(n) PROVE n[i] \in ToSet(o) \ Evicted(k)
    <3>1. i + d \in 1..Len(o) /\ i + d > d /\ n[i] = o[i + d]
      BY <1>4, <1>7, <1>12
    <3>2. \A j \in 1..d : j \in 1..Len(o) /\ o[j] # o[i + d]
      BY <1>3, <1>4, <3>1
    <3> QED BY <1>3, <1>5, <3>1, <3>2 DEF ToSet
  <2>2. ASSUME NEW x \in ToSet(o) \ Evicted(k) PROVE x \in ToSet(n)
    <3>1. PICK i \in 1..Len(o) : o[i] = x
      BY <1>3 DEF ToSet
    <3>2. i > d
      BY <1>4, <1>5, <2>2, <3>1
    <3>3. i - d \in 1..Len(n) /\ (i - d) + d = i
      BY <1>4, <1>7, <1>12, <3>1, <3>2
    <3>4. n[i - d] = x
      BY <1>7, <3>1, <3>3
    <3> QED BY <1>12, <3>3, <3>4 DEF ToSet
  <2> QED BY <1>7, <2>1, <2>2 DEF ToSet
<1> QED BY <1>3, <1>6, <1>7, <1>8, <1>9, <1>10 DEF o, n

(* The buffer of a key after an event of its own.                          *)
LEMMA GrownBuffer ==
    ASSUME NEW s \in Seq(Events), Rising(s), UpTo(s, seq), seq \in Nat, NEW c \in Contents
    PROVE  LET e == [id |-> seq + 1, content |-> c]
               b == Newest(Append(s, e), MaxBuf)
           IN  /\ b \in Seq(Events) /\ Len(b) \in 1..MaxBuf /\ b[Len(b)] = e
               /\ Rising(b) /\ UpTo(b, seq + 1)
               /\ \A i \in DOMAIN b : i # Len(b) => b[i].content \in Told(s)
               /\ Len(s) < MaxBuf => Told(b) = Told(s) \cup {c}
<1> DEFINE e == [id |-> seq + 1, content |-> c]
           a == Append(s, e)
           b == Newest(a, MaxBuf)
<1>1. e \in Events /\ e.id = seq + 1 /\ e.content = c
  BY DEF Events
<1> HIDE DEF e
<1>2. /\ a \in Seq(Events) /\ Len(a) = Len(s) + 1 /\ a[Len(a)] = e
      /\ \A i \in DOMAIN s : a[i] = s[i]
      /\ Told(a) = Told(s) \cup {c}
  BY <1>1, AppendEvent
<1>3. \A i \in DOMAIN s : s[i].id \in Nat /\ s[i].id <= seq
  <2>1. \A i \in DOMAIN s : s[i] \in Events
    OBVIOUS
  <2> QED BY <2>1 DEF UpTo, Events
<1> HIDE DEF a
<1>4. Rising(a) /\ UpTo(a, seq + 1)
  BY <1>1, <1>2, <1>3 DEF Rising, UpTo
<1> DEFINE d == Dropped(a, MaxBuf)
<1>5. b \in Seq(Events) /\ Len(b) = Len(a) - d /\ \A i \in 1..Len(b) : b[i] = a[i + d]
  BY <1>2, HubConstants, NewestElements
<1>11. d \in 0..Len(a) /\ Len(a) \in Nat /\ d = IF Len(a) > MaxBuf THEN Len(a) - MaxBuf ELSE 0
  BY <1>2, HubConstants, NewestElements DEF Dropped
<1>12. Len(b) \in Nat /\ DOMAIN b = 1..Len(b)
  BY <1>5
<1> HIDE DEF b, d
<1>6. Len(b) \in 1..MaxBuf /\ b[Len(b)] = e
  <2>1. Len(b) \in 1..MaxBuf
    BY <1>2, <1>5, <1>11, <1>12, HubConstants
  <2>2. Len(b) + d = Len(a)
    BY <1>5, <1>11, <1>12
  <2> QED BY <1>2, <1>5, <2>1, <2>2
<1>7. Rising(b)
  <2>1. \A i \in DOMAIN b : i + d \in DOMAIN a /\ b[i] = a[i + d] /\ i \in Nat
    BY <1>2, <1>5, <1>11, <1>12
  <2>2. ASSUME NEW i \in DOMAIN b, NEW j \in DOMAIN b, i < j PROVE b[i].id < b[j].id
    <3>1. i + d < j + d
      BY <1>11, <1>12, <2>2
    <3> QED BY <1>4, <2>1, <3>1 DEF Rising
  <2> QED BY <2>2 DEF Rising
<1>8. UpTo(b, seq + 1)
  <2>1. \A i \in DOMAIN b : i + d \in DOMAIN a /\ b[i] = a[i + d] /\ i \in Nat
    BY <1>2, <1>5, <1>11, <1>12
  <2> QED BY <1>4, <2>1 DEF UpTo
<1>9. ASSUME NEW i \in DOMAIN b, i # Len(b) PROVE b[i].content \in Told(s)
  <2>1. i + d \in DOMAIN s /\ b[i] = s[i + d]
    BY <1>2, <1>5, <1>9, <1>11
  <2> QED BY <2>1 DEF Told
<1>10. ASSUME Len(s) < MaxBuf PROVE Told(b) = Told(s) \cup {c}
  <2>3. ~(Len(a) > MaxBuf)
    BY <1>2, <1>10, HubConstants
  <2>4. d = 0
    BY <1>11, <2>3
  <2>1. d = 0 /\ Len(b) = Len(a) /\ DOMAIN b = DOMAIN a
    BY <1>2, <1>5, <1>11, <1>12, <2>4
  <2>2. \A i \in DOMAIN a : b[i] = a[i]
    BY <1>2, <1>5, <2>1
  <2> QED BY <1>2, <2>1, <2>2 DEF Told
<1> QED BY <1>5, <1>6, <1>7, <1>8, <1>9, <1>10 DEF b, a, e

(* What a key's buffer holds.                                              *)
LEMMA BufferTypes ==
    ASSUME HubTypes, BuffersInv, NEW k
    PROVE  /\ Buffer(k) \in Seq(Events) /\ Rising(Buffer(k)) /\ UpTo(Buffer(k), seq)
           /\ Len(Buffer(k)) <= MaxBuf
<1>1. CASE k \in DOMAIN buffers
  BY <1>1, HubConstants DEF HubTypes, BuffersInv, Buffer
<1>2. CASE k \notin DOMAIN buffers
  BY <1>2, HubConstants DEF Buffer, Rising, UpTo
<1> QED BY <1>1, <1>2

(* The event is the last of its key's buffer; the other keys keep their    *)
(* buffers but for the evicted ones.                                       *)
LEMMA EnterEffect ==
    ASSUME HubTypes, BuffersInv, NEW k \in Keys, NEW c \in Contents, Enter(k, c)
    PROVE  /\ seq' = seq + 1 /\ UNCHANGED <<subs, chan, closed, shut>>
           /\ order' \in Seq(Keys) /\ buffers' \in [ToSet(order') -> Seq(Events)]
           /\ BuffersInv'
           /\ \A i \in DOMAIN Buffer(k)' :
                 i # Len(Buffer(k)') => Buffer(k)'[i].content \in Told(Buffer(k))
           /\ Buffer(k)'[Len(Buffer(k)')].content = c
           /\ Len(Buffer(k)) # MaxBuf => Told(Buffer(k)') = Told(Buffer(k)) \cup {c}
           /\ \A j \in Keys \ {k} : ~(j \in Evicted(k) /\ j \in DOMAIN buffers) => Buffer(j)' = Buffer(j)
           /\ \A j \in Keys \ {k} : Buffer(j)' = Buffer(j) \/ Buffer(j)' = <<>>
<1> DEFINE ev == [id |-> seq + 1, content |-> c]
           b == Newest(Append(Buffer(k), ev), MaxBuf)
<1>1. seq' = seq + 1 /\ UNCHANGED <<subs, chan, closed, shut>> /\ seq \in Nat
  BY DEF Enter, HubTypes
<1>2. /\ b \in Seq(Events) /\ Len(b) \in 1..MaxBuf /\ b[Len(b)].content = c
      /\ Rising(b) /\ UpTo(b, seq + 1)
      /\ \A i \in DOMAIN b : i # Len(b) => b[i].content \in Told(Buffer(k))
      /\ Len(Buffer(k)) < MaxBuf => Told(b) = Told(Buffer(k)) \cup {c}
  BY <1>1, BufferTypes, GrownBuffer
<1>3. /\ order' \in Seq(Keys) /\ Len(order') <= MaxKeys /\ IsInjective(order')
      /\ ToSet(order') = (ToSet(order) \cup {k}) \ Evicted(k)
      /\ k \notin Evicted(k)
  BY OrderStep DEF Enter
<1>4. buffers' = [x \in ToSet(order') |-> IF x = k THEN b ELSE buffers[x]]
  <2>1. DOMAIN buffers = ToSet(order)
    BY DEF HubTypes
  <2>2. buffers' = Restrict([x \in DOMAIN buffers \cup {k} |-> IF x = k THEN b ELSE buffers[x]],
                            (DOMAIN buffers \cup {k}) \ Evicted(k))
    BY DEF Enter
  <2> HIDE DEF b
  <2>3. ToSet(order') = (DOMAIN buffers \cup {k}) \ Evicted(k)
    BY <1>3, <2>1
  <2> QED BY <2>2, <2>3 DEF Restrict
<1> HIDE DEF b
<1>5. \A x \in ToSet(order') \ {k} : x \in ToSet(order) /\ buffers'[x] = buffers[x]
  BY <1>3, <1>4
<1>6. buffers'[k] = b /\ k \in ToSet(order') /\ DOMAIN buffers' = ToSet(order')
  BY <1>3, <1>4
<1>7. buffers' \in [ToSet(order') -> Seq(Events)]
  BY <1>2, <1>4, <1>5 DEF HubTypes
<1>8. BuffersInv'
  <2>1. ASSUME NEW x \in ToSet(order')
        PROVE  Len(buffers'[x]) \in 1..MaxBuf /\ Rising(buffers'[x]) /\ UpTo(buffers'[x], seq')
    <3>1. CASE x = k
      BY <1>1, <1>2, <1>6, <3>1
    <3>2. CASE x # k
      <4>1. /\ Len(buffers'[x]) \in 1..MaxBuf /\ Rising(buffers'[x]) /\ UpTo(buffers'[x], seq)
            /\ buffers'[x] \in Seq(Events)
        BY <1>5, <3>2 DEF BuffersInv, HubTypes
      <4>2. \A i \in DOMAIN buffers'[x] : buffers'[x][i].id \in Nat
        <5>1. \A i \in DOMAIN buffers'[x] : buffers'[x][i] \in Events
          BY <4>1
        <5> QED BY <5>1 DEF Events
      <4>3. UpTo(buffers'[x], seq')
        BY <1>1, <4>1, <4>2 DEF UpTo
      <4> QED BY <4>1, <4>3
    <3> QED BY <3>1, <3>2
  <2> QED BY <1>3, <2>1 DEF BuffersInv
<1>9. Buffer(k)' = b
  BY <1>6 DEF Buffer
<1>10. ASSUME NEW j \in Keys \ {k}
       PROVE  /\ ~(j \in Evicted(k) /\ j \in DOMAIN buffers) => Buffer(j)' = Buffer(j)
              /\ Buffer(j)' = Buffer(j) \/ Buffer(j)' = <<>>
  BY <1>3, <1>5, <1>6 DEF Buffer, HubTypes
<1>11. Len(Buffer(k)) # MaxBuf => Len(Buffer(k)) < MaxBuf
  <2>1. Len(Buffer(k)) \in Nat /\ Len(Buffer(k)) <= MaxBuf
    BY BufferTypes
  <2> QED BY <2>1, HubConstants
<1> QED BY <1>1, <1>2, <1>3, <1>7, <1>8, <1>9, <1>10, <1>11

-----------------------------------------------------------------------------
(* Types and bounds.                                                       *)

(* Goroutines, requests and contents are told apart.                       *)
LEMMA StreamConstants ==
    /\ Steps \in Nat /\ MaxConnects \in Nat
    /\ Main \notin Branches /\ Main \notin OtherKeys
    /\ Req \notin OtherKeys /\ Branches \cap OtherKeys = {}
    /\ Publishers = Walkers \cup OtherKeys
    /\ \A p \in Publishers : Key(p) \in Keys
    /\ \A p \in Walkers : Key(p) = Req
    /\ Done \in Contents /\ StepEvents \subseteq Contents
    /\ Done \notin StepEvents
BY StreamAssumption DEF Publishers, Walkers, Key, Keys, Contents, Done, StepEvents

(* What an action publishes.                                               *)
Publishing(p, c) ==
    \/ p \in Branches /\ PublishStep(p) /\ c = <<p, published[p] + 1>>
    \/ p \in OtherKeys /\ PublishOther(p) /\ c = Done
    \/ p = Main /\ PublishRequestDone /\ c = Done

(* Publishing an event counts it and, for a step, follows saving it.       *)
LEMMA PublishingIs ==
    ASSUME WalkTypes, NEW p, NEW c, Publishing(p, c)
    PROVE  /\ p \in Publishers /\ c \in Contents /\ Publish(p, c)
           /\ UNCHANGED <<stored, crashed, handlerVars>>
           /\ p \in OtherKeys \cup {Main} => published[p] = 0 /\ UNCHANGED saved
           /\ p \in Branches => c \in StepEvents /\ published[p] < Steps /\ saved' = saved \cup {c}
<1>1. CASE p \in Branches /\ PublishStep(p) /\ c = <<p, published[p] + 1>>
  <2>1. published[p] \in Nat
    BY <1>1 DEF WalkTypes, Publishers
  <2>2. c \in StepEvents
    BY <1>1, <2>1, StreamConstants DEF PublishStep, StepEvents
  <2> QED BY <1>1, <2>2, StreamConstants DEF PublishStep, Walkers
<1>2. CASE p \in OtherKeys /\ PublishOther(p) /\ c = Done
  BY <1>2, StreamConstants DEF PublishOther, Walkers
<1>3. CASE p = Main /\ PublishRequestDone /\ c = Done
  BY <1>3, StreamConstants DEF PublishRequestDone, Walkers
<1> QED BY <1>1, <1>2, <1>3 DEF Publishing

(* The actions, with the three kinds of publishing as one.                 *)
LEMMA StreamCases ==
    ASSUME [StreamNext]_streamVars
    PROVE  \/ \E p, c : Publishing(p, c)
           \/ StoreOutcome
           \/ \E p \in Publishers : SendOne(p)
           \/ Connect \/ ReadRequest \/ WriteReplay \/ WriteLive \/ HangUp
           \/ Disconnect \/ Shutdown
           \/ \E c \in 1..conn : Leave(c)
           \/ UNCHANGED streamVars
BY DEF StreamNext, Engine, Handler, Finished, Publishing

(* Most actions leave the buffers alone.                                   *)
LEMMA BuffersKept ==
    ASSUME BuffersInv, UNCHANGED <<seq, buffers, order>>
    PROVE  BuffersInv'
BY DEF BuffersInv

(* A publisher sends a numbered event to connections there have been.      *)
LEMMA FlightSent ==
    ASSUME WalkTypes, FlightsInv, NEW p \in Publishers, NEW s \in Recipients(p)
    PROVE  /\ s \in 1..conn /\ inflight[p].ev \in Events /\ inflight[p].ev.id # 0
           /\ s \in inflight[p].to /\ s \notin inflight[p].sent
<1>1. inflight[p] \in Flights /\ s \in inflight[p].to /\ s \notin inflight[p].sent
  BY DEF WalkTypes, Recipients
<1>2. inflight[p].ev.id # 0
  BY <1>1 DEF FlightsInv
<1> QED BY <1>1, <1>2 DEF Flights, Events

(* Each step keeps the types and bounds of the hub.                        *)
LEMMA HubStep ==
    ASSUME HubTypes, WalkTypes, ClientTypes, BuffersInv, FlightsInv, OnceInv, [StreamNext]_streamVars
    PROVE  HubTypes' /\ BuffersInv'
<1>1. ASSUME NEW p, NEW c, Publishing(p, c) PROVE HubTypes' /\ BuffersInv'
  <2>1. p \in Publishers /\ c \in Contents /\ Publish(p, c) /\ conn' = conn
    BY <1>1, PublishingIs DEF handlerVars
  <2>2. CASE closed
    <3>1. UNCHANGED hubVars
      BY <2>1, <2>2 DEF Publish
    <3> QED BY <2>1, <3>1, BuffersKept DEF hubVars, HubTypes
  <2>3. CASE ~closed
    <3>1. Enter(Key(p), c) /\ Key(p) \in Keys
      BY <2>1, <2>3, StreamConstants DEF Publish
    <3>2. /\ BuffersInv' /\ seq' = seq + 1 /\ UNCHANGED <<subs, chan, closed, shut>>
          /\ order' \in Seq(Keys) /\ buffers' \in [ToSet(order') -> Seq(Events)]
      BY <2>1, <3>1, EnterEffect
    <3> QED BY <2>1, <3>2 DEF HubTypes
  <2> QED BY <2>2, <2>3
<1>2. CASE StoreOutcome
  BY <1>2, BuffersKept DEF StoreOutcome, hubVars, handlerVars, HubTypes
<1>3. ASSUME NEW p \in Publishers, SendOne(p) PROVE HubTypes' /\ BuffersInv'
  <2>1. PICK s \in Recipients(p) :
            IF s \in shut THEN UNCHANGED hubVars ELSE Send(s, inflight[p].ev)
    BY <1>3 DEF SendOne
  <2>2. conn' = conn
    BY <1>3 DEF SendOne, handlerVars
  <2>3. CASE s \in shut
    BY <2>1, <2>2, <2>3, BuffersKept DEF hubVars, HubTypes
  <2>4. CASE s \notin shut
    <3>1. s \in 1..conn /\ inflight[p].ev \in Events
      BY FlightSent
    <3>2. chan[s] \in Seq(Events) /\ Len(chan[s]) <= ChanCap /\ chan \in [1..conn -> Seq(Events)]
      BY <3>1 DEF HubTypes
    <3>3. CASE Drops(s)
      <4>1. chan' = chan
        BY <2>1, <2>4, <3>2, <3>3 DEF Send
      <4> QED BY <2>1, <2>2, <2>4, <4>1, BuffersKept DEF Send, HubTypes
    <3>4. CASE ~Drops(s)
      <4>1. chan' = [chan EXCEPT ![s] = Append(chan[s], inflight[p].ev)]
        BY <2>1, <2>4, <3>4 DEF Send
      <4>2. /\ Append(chan[s], inflight[p].ev) \in Seq(Events)
            /\ Len(Append(chan[s], inflight[p].ev)) <= ChanCap
        BY <3>1, <3>2, <3>4, AppendEvent, HubConstants DEF Drops
      <4> QED BY <2>1, <2>2, <2>4, <3>2, <4>1, <4>2, BuffersKept DEF Send, HubTypes
    <3> QED BY <3>3, <3>4
  <2> QED BY <2>3, <2>4
<1>4. CASE Connect
  <2>1. /\ conn' = conn + 1 /\ UNCHANGED <<seq, buffers, order, closed, shut>>
        /\ subs' = [subs EXCEPT ![Req] = @ \cup {conn + 1}]
        /\ chan' = [c \in DOMAIN chan \cup {conn + 1} |-> IF c = conn + 1 THEN <<>> ELSE chan[c]]
    BY <1>4 DEF Connect, Subscribe
  <2>2. conn \in Nat /\ 1..conn' = 1..conn \cup {conn + 1}
    BY <2>1 DEF ClientTypes
  <2>3. \A c \in 1..conn : chan[c] \in Seq(Events) /\ c # conn + 1
    BY <2>2 DEF HubTypes
  <2>4. chan' \in [1..conn' -> Seq(Events)] /\ \A c \in 1..conn' : Len(chan'[c]) <= ChanCap
    BY <2>1, <2>2, <2>3, HubConstants DEF HubTypes
  <2>5. /\ subs' \in [Keys -> SUBSET (1..conn')]
        /\ \A k \in OtherKeys : subs'[k] = {}
    BY <2>1, <2>2, StreamConstants DEF HubTypes, Keys
  <2> QED BY <2>1, <2>2, <2>4, <2>5, BuffersKept DEF HubTypes
<1>5. CASE ReadRequest \/ WriteReplay \/ HangUp \/ Disconnect
  BY <1>5, BuffersKept DEF ReadRequest, WriteReplay, HangUp, Disconnect, hubVars, HubTypes
<1>6. CASE WriteLive
  <2>1. /\ UNCHANGED <<seq, buffers, order, subs, closed, shut, conn>> /\ chan[conn] # <<>>
        /\ chan' = [chan EXCEPT ![conn] = Tail(chan[conn])] /\ conn > 0
    BY <1>6 DEF WriteLive, Receive, OnceInv, ClientTypes
  <2>2. conn \in 1..conn /\ chan[conn] \in Seq(Events) /\ Len(chan[conn]) <= ChanCap
    BY <2>1 DEF HubTypes, ClientTypes
  <2>3. Tail(chan[conn]) \in Seq(Events) /\ Len(Tail(chan[conn])) <= ChanCap
    BY <2>1, <2>2, TakeEvent, HubConstants
  <2> QED BY <2>1, <2>2, <2>3, BuffersKept DEF HubTypes
<1>7. CASE Shutdown
  <2>1. /\ UNCHANGED <<seq, buffers, order, chan, conn>> /\ closed' = TRUE
        /\ subs' = [k \in DOMAIN subs |-> {}]
        /\ shut' = shut \cup UNION {subs[k] : k \in DOMAIN subs}
    BY <1>7 DEF Shutdown, Close, handlerVars
  <2>2. subs' \in [Keys -> SUBSET (1..conn)] /\ \A k \in OtherKeys : subs'[k] = {}
    BY <2>1 DEF HubTypes, Keys
  <2>3. shut' \subseteq 1..conn
    BY <2>1 DEF HubTypes
  <2> QED BY <2>1, <2>2, <2>3, BuffersKept DEF HubTypes
<1>8. ASSUME NEW c \in 1..conn, Leave(c) PROVE HubTypes' /\ BuffersInv'
  <2>1. /\ UNCHANGED <<seq, buffers, order, chan, conn, closed, shut>>
        /\ subs' = [subs EXCEPT ![Req] = @ \ {c}]
    BY <1>8 DEF Leave, Unsubscribe, handlerVars
  <2>2. subs' \in [Keys -> SUBSET (1..conn)] /\ \A k \in OtherKeys : subs'[k] = {}
    BY <2>1, StreamConstants DEF HubTypes, Keys
  <2> QED BY <2>1, <2>2, BuffersKept DEF HubTypes
<1>9. CASE UNCHANGED streamVars
  BY <1>9, BuffersKept DEF streamVars, hubVars, handlerVars, HubTypes
<1> QED BY <1>1, <1>2, <1>3, <1>4, <1>5, <1>6, <1>7, <1>8, <1>9, StreamCases

(* What a connection is given to replay: the end of the request's buffer,  *)
(* all of it if it has seen nothing.                                       *)
LEMMA ReplayIs ==
    ASSUME HubTypes, BuffersInv, lastID \in Nat
    PROVE  LET r == Replay(Req, lastID)
           IN  /\ r \in Seq(Events) /\ Rising(r) /\ UpTo(r, seq)
               /\ Told(r) \subseteq Told(Buffer(Req))
               /\ DoneLast(Buffer(Req)) => DoneLast(r)
               /\ lastID = 0 => Told(r) = Told(Buffer(Req))
<1> DEFINE b == Buffer(Req)
           m == CHOOSE n \in 0..Len(b) : \A i \in DOMAIN b : b[i].id > lastID <=> i > n
           r == SubSeq(b, m + 1, Len(b))
<1>1. b \in Seq(Events) /\ Rising(b) /\ UpTo(b, seq) /\ Len(b) \in Nat /\ DOMAIN b = 1..Len(b)
  BY BufferTypes
<1> HIDE DEF b
<1>2. \E n \in 0..Len(b) : \A i \in DOMAIN b : b[i].id > lastID <=> i > n
  BY <1>1, NewerAreLast
<1>3. m \in 0..Len(b) /\ \A i \in DOMAIN b : b[i].id > lastID <=> i > m
  BY <1>2
<1>4. Replay(Req, lastID) = r
  BY DEF Replay, b
<1> HIDE DEF m
<1>5. r \in Seq(Events) /\ Len(r) = Len(b) - m /\ \A i \in 1..Len(r) : r[i] = b[i + m]
  BY <1>1, <1>3, SuffixElements
<1> HIDE DEF r
<1>6. /\ Len(r) \in Nat /\ DOMAIN r = 1..Len(r)
      /\ \A i \in DOMAIN r : i + m \in DOMAIN b /\ r[i] = b[i + m] /\ i \in Nat
  BY <1>1, <1>3, <1>5
<1>7. Rising(r)
  <2>1. ASSUME NEW i \in DOMAIN r, NEW j \in DOMAIN r, i < j PROVE r[i].id < r[j].id
    <3>1. i + m < j + m
      BY <1>3, <1>6, <2>1
    <3> QED BY <1>1, <1>6, <3>1 DEF Rising
  <2> QED BY <2>1 DEF Rising
<1>8. UpTo(r, seq) /\ Told(r) \subseteq Told(b)
  BY <1>1, <1>6 DEF UpTo, Told
<1>9. ASSUME DoneLast(b) PROVE DoneLast(r)
  <2>1. ASSUME NEW i \in DOMAIN r, r[i].content = Done PROVE i = Len(r)
    <3>1. i + m = Len(b)
      BY <1>6, <1>9, <2>1 DEF DoneLast
    <3> QED BY <1>1, <1>3, <1>5, <1>6, <3>1
  <2> QED BY <2>1 DEF DoneLast
<1>10. ASSUME lastID = 0 PROVE Told(r) = Told(b)
  <2>1. ASSUME NEW i \in DOMAIN b PROVE b[i].content \in Told(r)
    <3>1. b[i] \in Events
      BY <1>1
    <3>2. i > m
      BY <1>3, <1>10, <3>1 DEF Events
    <3>3. i - m \in DOMAIN r /\ (i - m) + m = i
      BY <1>1, <1>3, <1>5, <1>6, <3>2
    <3>4. r[i - m] = b[i]
      BY <1>6, <3>3
    <3> QED BY <3>3, <3>4 DEF Told
  <2> QED BY <1>8, <2>1 DEF Told
<1> QED BY <1>4, <1>5, <1>7, <1>8, <1>9, <1>10 DEF b

(* An event of a sequence has a content and a number.                      *)
LEMMA EventOf ==
    ASSUME NEW s \in Seq(Events), NEW i \in DOMAIN s
    PROVE  s[i].id \in Nat \ {0} /\ s[i].content \in Contents
<1>1. s[i] \in Events
  OBVIOUS
<1> QED BY <1>1 DEF Events

(* Each step keeps the types of the client's handler.                      *)
LEMMA ClientStep ==
    ASSUME HubTypes, WalkTypes, ClientTypes, BuffersInv, OnceInv, ChannelInv, [StreamNext]_streamVars
    PROVE  ClientTypes'
<1> USE StreamConstants
<1>1. ASSUME NEW p, NEW c, Publishing(p, c) PROVE ClientTypes'
  <2>1. p \in Publishers /\ c \in Contents /\ Publish(p, c) /\ UNCHANGED handlerVars
    BY <1>1, PublishingIs
  <2>2. seq \in Nat /\ (seq' = seq \/ seq' = seq + 1)
    BY <2>1 DEF Publish, Enter, HubTypes, hubVars
  <2> QED BY <2>1, <2>2 DEF ClientTypes, handlerVars
<1>2. CASE StoreOutcome
  BY <1>2 DEF StoreOutcome, hubVars, handlerVars, ClientTypes
<1>3. ASSUME NEW p \in Publishers, SendOne(p) PROVE ClientTypes'
  BY <1>3 DEF SendOne, Send, hubVars, handlerVars, ClientTypes
<1>4. CASE Connect
  <2>1. lastID \in Nat
    BY DEF ClientTypes, HubTypes
  <2>2. Replay(Req, lastID) \in Seq(Events)
    BY <2>1, ReplayIs
  <2> QED BY <1>4, <2>2 DEF Connect, Subscribe, ClientTypes
<1>5. CASE ReadRequest
  BY <1>5 DEF ReadRequest, hubVars, ClientTypes, WalkTypes
<1>6. CASE WriteReplay
  <2>1. CASE past = <<>>
    BY <1>6, <2>1 DEF WriteReplay, hubVars, ClientTypes
  <2>2. CASE past # <<>>
    <3>1. Head(past) = past[1] /\ 1 \in DOMAIN past /\ Tail(past) \in Seq(Events)
      BY <2>2, TakeEvent DEF ClientTypes
    <3>2. past[1].id \in Nat \ {0} /\ past[1].content \in Contents /\ past[1].id <= seq
      BY <3>1, EventOf DEF ClientTypes, OnceInv, UpTo
    <3>3. /\ got' = got \cup {past[1].content} /\ lastID' = past[1].id
          /\ inConn' = Append(inConn, past[1].id) /\ past' = Tail(past)
          /\ state' \in {"ended", "replay"} /\ UNCHANGED <<conn, seq>>
      BY <1>6, <2>2, <3>1 DEF WriteReplay, Write, StateAfter, hubVars
    <3> QED BY <3>1, <3>2, <3>3 DEF ClientTypes, HubTypes
  <2> QED BY <2>1, <2>2
<1>7. CASE WriteLive
  <2>1. conn \in 1..conn /\ chan[conn] \in Seq(Events) /\ chan[conn] # <<>>
    BY <1>7 DEF WriteLive, OnceInv, ClientTypes, HubTypes
  <2>2. Head(chan[conn]) = chan[conn][1] /\ 1 \in DOMAIN chan[conn]
    BY <2>1, TakeEvent
  <2>3. /\ chan[conn][1].id \in Nat \ {0} /\ chan[conn][1].content \in Contents
        /\ chan[conn][1].id <= seq
    BY <2>1, <2>2, EventOf DEF ChannelInv, UpTo
  <2> QED BY <1>7, <2>2, <2>3 DEF WriteLive, Write, Receive, StateAfter, ClientTypes, HubTypes
<1>8. CASE HangUp \/ Disconnect
  <2>1. /\ UNCHANGED <<seq, conn, lastID, got, inConn>> /\ state' = "off"
        /\ past' = past \/ past' = <<>>
    BY <1>8 DEF HangUp, Disconnect, hubVars
  <2>2. past \in Seq(Events) /\ <<>> \in Seq(Events)
    BY DEF ClientTypes
  <2>3. past' \in Seq(Events)
    BY <2>1, <2>2, Zenon
  <2> QED BY <2>1, <2>3 DEF ClientTypes
<1>9. CASE Shutdown
  BY <1>9 DEF Shutdown, Close, handlerVars, ClientTypes
<1>10. ASSUME NEW c \in 1..conn, Leave(c) PROVE ClientTypes'
  BY <1>10 DEF Leave, Unsubscribe, handlerVars, ClientTypes
<1>11. CASE UNCHANGED streamVars
  BY <1>11 DEF streamVars, hubVars, handlerVars, ClientTypes
<1> QED BY <1>1, <1>2, <1>3, <1>4, <1>5, <1>6, <1>7, <1>8, <1>9, <1>10, <1>11, StreamCases

(* What publishing does to the goroutines; nothing but counting once the   *)
(* hub is closed.                                                          *)
LEMMA PublishNothing ==
    ASSUME WalkTypes, NEW p, NEW c, Publishing(p, c), closed
    PROVE  published' = [published EXCEPT ![p] = @ + 1] /\ UNCHANGED <<hubVars, inflight, lost>>
BY PublishingIs DEF Publish

(* While the hub is open the event gets the next id and goes to the        *)
(* subscribers of its key.                                                 *)
LEMMA PublishEffect ==
    ASSUME HubTypes, WalkTypes, NEW p, NEW c, Publishing(p, c), ~closed
    PROVE  /\ published' = [published EXCEPT ![p] = @ + 1]
           /\ inflight' \in [Publishers -> Flights]
           /\ \A q \in Publishers : q # p => inflight'[q] = inflight[q]
           /\ inflight'[p].ev.id = seq + 1 /\ inflight'[p].ev.content = c
           /\ inflight'[p].to = subs[Key(p)] /\ inflight'[p].sent = {}
           /\ inflight'[p].ev = [id |-> seq + 1, content |-> c]
<1> DEFINE f == [ev |-> [id |-> seq + 1, content |-> c], to |-> subs[Key(p)], sent |-> {}]
<1>1. p \in Publishers /\ c \in Contents /\ Publish(p, c)
  BY PublishingIs
<1>2. published' = [published EXCEPT ![p] = @ + 1] /\ inflight' = [inflight EXCEPT ![p] = f]
  BY <1>1 DEF Publish
<1>3. f \in Flights
  <2>1. subs[Key(p)] \in SUBSET (1..conn) /\ seq + 1 \in Nat
    BY <1>1, StreamConstants DEF HubTypes
  <2> QED BY <1>1, <2>1 DEF Flights
<1> HIDE DEF f
<1>4. inflight \in [Publishers -> Flights]
  BY DEF WalkTypes
<1>5. inflight' \in [Publishers -> Flights] /\ inflight'[p] = f
      /\ \A q \in Publishers : q # p => inflight'[q] = inflight[q]
  BY <1>1, <1>2, <1>3, <1>4
<1> QED BY <1>2, <1>5 DEF f

(* What sending does to the goroutines.                                    *)
LEMMA SendOneEffect ==
    ASSUME HubTypes, WalkTypes, NEW p \in Publishers, SendOne(p)
    PROVE  \E s \in Recipients(p) :
              /\ inflight' \in [Publishers -> Flights]
              /\ \A q \in Publishers : inflight'[q].ev = inflight[q].ev /\ inflight'[q].to = inflight[q].to
              /\ \A q \in Publishers : q # p => inflight'[q] = inflight[q]
              /\ inflight'[p].sent = inflight[p].sent \cup {s}
              /\ UNCHANGED <<published, saved, stored, handlerVars>>
              /\ UNCHANGED <<seq, buffers, order, subs, closed, shut>>
              /\ s \in shut => crashed' /\ UNCHANGED <<chan, lost>>
              /\ s \notin shut =>
                    /\ chan' = [chan EXCEPT ![s] = IF Drops(s) THEN @ ELSE Append(@, inflight[p].ev)]
                    /\ lost' = lost \cup IF Drops(s) /\ s = conn THEN {"dropped"} ELSE {}
                    /\ UNCHANGED crashed
<1>1. PICK s \in Recipients(p) :
          /\ inflight' = [inflight EXCEPT ![p].sent = @ \cup {s}]
          /\ IF s \in shut
             THEN /\ crashed' = TRUE
                  /\ UNCHANGED <<hubVars, lost>>
             ELSE /\ Send(s, inflight[p].ev)
                  /\ lost' = lost \cup IF Drops(s) /\ s = conn THEN {"dropped"} ELSE {}
                  /\ UNCHANGED crashed
  BY DEF SendOne
<1>2. inflight \in [Publishers -> Flights] /\ inflight[p] \in Flights
  BY DEF WalkTypes
<1> DEFINE f == [inflight[p] EXCEPT !.sent = inflight[p].sent \cup {s}]
<1>3. inflight' = [inflight EXCEPT ![p] = f]
  BY <1>1, <1>2
<1>4. /\ f \in Flights /\ f.ev = inflight[p].ev /\ f.to = inflight[p].to
      /\ f.sent = inflight[p].sent \cup {s}
  BY <1>2 DEF Flights, Recipients
<1> HIDE DEF f
<1>5. /\ inflight' \in [Publishers -> Flights] /\ inflight'[p] = f
      /\ \A q \in Publishers : q # p => inflight'[q] = inflight[q]
  BY <1>2, <1>3, <1>4
<1>6. UNCHANGED <<published, saved, stored, handlerVars>>
  BY DEF SendOne
<1>7. /\ UNCHANGED <<seq, buffers, order, subs, closed, shut>>
      /\ s \in shut => crashed' /\ UNCHANGED <<chan, lost>>
      /\ s \notin shut =>
            /\ chan' = [chan EXCEPT ![s] = IF Drops(s) THEN @ ELSE Append(@, inflight[p].ev)]
            /\ lost' = lost \cup IF Drops(s) /\ s = conn THEN {"dropped"} ELSE {}
            /\ UNCHANGED crashed
  BY <1>1 DEF Send, hubVars
<1> QED BY <1>4, <1>5, <1>6, <1>7

(* Each step keeps the types of the goroutines, and ids of events on their *)
(* way are different.                                                      *)
LEMMA WalkStep ==
    ASSUME HubTypes, WalkTypes, ClientTypes, BuffersInv, FlightsInv, [StreamNext]_streamVars
    PROVE  WalkTypes' /\ FlightsInv'
<1> USE StreamConstants
<1>1. ASSUME NEW p, NEW c, Publishing(p, c) PROVE WalkTypes' /\ FlightsInv'
  <2>1. /\ p \in Publishers /\ UNCHANGED <<stored, crashed, conn>>
        /\ p \in OtherKeys \cup {Main} => published[p] = 0 /\ UNCHANGED saved
        /\ p \in Branches => c \in StepEvents /\ published[p] < Steps /\ saved' = saved \cup {c}
    BY <1>1, PublishingIs DEF handlerVars
  <2>2. published' = [published EXCEPT ![p] = @ + 1]
    BY <1>1, PublishingIs DEF Publish
  <2>3. saved' \subseteq StepEvents /\ stored' = stored /\ crashed' = crashed
    BY <2>1 DEF WalkTypes, Publishers
  <2>4. /\ published' \in [Publishers -> Nat]
        /\ \A b \in Branches : published'[b] <= Steps
        /\ \A q \in OtherKeys \cup {Main} : published'[q] <= 1
    BY <2>1, <2>2 DEF WalkTypes, Publishers
  <2>5. lost' \subseteq {"dropped", "forgotten", "early"}
    BY <1>1, PublishingIs DEF Publish, WalkTypes
  <2>6. CASE closed
    <3>1. UNCHANGED <<seq, inflight, conn>>
      BY <1>1, <2>1, <2>6, PublishNothing DEF hubVars
    <3> QED BY <2>3, <2>4, <2>5, <3>1 DEF WalkTypes, FlightsInv, Flights
  <2>7. CASE ~closed
    <3>1. /\ inflight' \in [Publishers -> Flights]
          /\ \A q \in Publishers : q # p => inflight'[q] = inflight[q]
          /\ inflight'[p].ev.id = seq + 1 /\ inflight'[p].to = subs[Key(p)]
      BY <1>1, <2>7, PublishEffect
    <3>2. seq' = seq + 1 /\ seq \in Nat
      BY <1>1, <2>7, PublishingIs DEF Publish, Enter, HubTypes
    <3>3. \A q \in Publishers : inflight[q].ev.id \in Nat /\ inflight[q].ev.id <= seq
      <4>1. \A q \in Publishers : inflight[q] \in Flights
        BY DEF WalkTypes
      <4> QED BY <4>1 DEF FlightsInv, Flights
    <3>4. WalkTypes'
      <4>1. Flights' = Flights
        BY <2>1 DEF Flights
      <4> QED BY <2>3, <2>4, <2>5, <3>1, <4>1 DEF WalkTypes
    <3>5. \A q \in Publishers : inflight'[q].ev.id <= seq'
      BY <2>1, <3>1, <3>2, <3>3
    <3>6. \A q \in Publishers : inflight'[q].to # {} => inflight'[q].ev.id # 0
      BY <2>1, <3>1, <3>2, <3>3 DEF FlightsInv
    <3>7. \A k \in OtherKeys : inflight'[k].to = {}
      BY <2>1, <3>1 DEF FlightsInv, HubTypes, Key, Publishers
    <3>8. \A q, r \in Publishers :
             q # r /\ inflight'[q].ev.id # 0 => inflight'[q].ev.id # inflight'[r].ev.id
      BY <2>1, <3>1, <3>2, <3>3 DEF FlightsInv
    <3> QED BY <3>4, <3>5, <3>6, <3>7, <3>8 DEF FlightsInv
  <2> QED BY <2>6, <2>7
<1>2. CASE StoreOutcome
  BY <1>2 DEF StoreOutcome, hubVars, handlerVars, WalkTypes, FlightsInv, Flights
<1>3. ASSUME NEW p \in Publishers, SendOne(p) PROVE WalkTypes' /\ FlightsInv'
  <2>1. PICK s \in Recipients(p) :
              /\ inflight' \in [Publishers -> Flights]
              /\ \A q \in Publishers : inflight'[q].ev = inflight[q].ev /\ inflight'[q].to = inflight[q].to
              /\ UNCHANGED <<published, saved, stored, handlerVars>>
              /\ seq' = seq
              /\ s \in shut => crashed' /\ UNCHANGED <<chan, lost>>
              /\ s \notin shut =>
                    /\ lost' = lost \cup IF Drops(s) /\ s = conn THEN {"dropped"} ELSE {}
                    /\ UNCHANGED crashed
    BY <1>3, SendOneEffect
  <2>2. Flights' = Flights
    BY <2>1 DEF Flights, handlerVars
  <2>3. lost' \subseteq {"dropped", "forgotten", "early"} /\ crashed' \in BOOLEAN
    BY <1>3 DEF SendOne, WalkTypes
  <2>4. WalkTypes'
    BY <2>1, <2>2, <2>3 DEF WalkTypes
  <2>5. FlightsInv'
    BY <2>1, StreamConstants DEF FlightsInv, Walkers
  <2> QED BY <2>4, <2>5
<1>4. CASE Connect
  <2>1. UNCHANGED <<published, inflight, saved, stored, crashed, lost, seq>> /\ conn' = conn + 1
    BY <1>4 DEF Connect, Subscribe, requestVars
  <2>2. Flights \subseteq Flights'
    BY <2>1 DEF Flights, ClientTypes
  <2>3. inflight' \in [Publishers -> Flights']
    BY <2>1, <2>2 DEF WalkTypes
  <2> QED BY <2>1, <2>3 DEF WalkTypes, FlightsInv
<1>5. CASE \/ ReadRequest \/ WriteReplay \/ WriteLive \/ HangUp \/ Disconnect \/ Shutdown
           \/ (\E c \in 1..conn : Leave(c)) \/ UNCHANGED streamVars
  <2>1. UNCHANGED <<published, inflight, saved, stored, crashed, lost, seq, conn>>
    BY <1>5 DEF ReadRequest, WriteReplay, WriteLive, Receive, HangUp, Disconnect, Shutdown, Close, Leave,
       Unsubscribe, streamVars, requestVars, hubVars, handlerVars
  <2>2. Flights' = Flights
    BY <2>1 DEF Flights
  <2> QED BY <2>1, <2>2 DEF WalkTypes, FlightsInv
<1> QED BY <1>1, <1>2, <1>3, <1>4, <1>5, StreamCases

-----------------------------------------------------------------------------
(* Once per connection.                                                    *)

(* One more id that was not seen.                                          *)
LEMMA SeenMore ==
    ASSUME NEW s \in Seq(Nat), IsInjective(s), NEW n \in Nat, \A i \in DOMAIN s : s[i] # n
    PROVE  /\ IsInjective(Append(s, n)) /\ DOMAIN Append(s, n) = DOMAIN s \cup {Len(s) + 1}
           /\ \A i \in DOMAIN s : Append(s, n)[i] = s[i]
           /\ Append(s, n)[Len(s) + 1] = n
<1>1. /\ DOMAIN Append(s, n) = DOMAIN s \cup {Len(s) + 1}
      /\ \A i \in DOMAIN s : Append(s, n)[i] = s[i]
      /\ Append(s, n)[Len(s) + 1] = n
  OBVIOUS
<1> QED BY <1>1 DEF IsInjective

(* What the client has and may get has ids that were given out.            *)
LEMMA IdsGiven ==
    ASSUME HubTypes, WalkTypes, ClientTypes, FlightsInv, OnceInv, ChannelInv
    PROVE  /\ seq \in Nat
           /\ \A i \in DOMAIN inConn : inConn[i] \in Nat /\ inConn[i] <= seq
           /\ \A j \in DOMAIN past : past[j].id \in Nat /\ past[j].id <= seq
           /\ conn > 0 => chan[conn] \in Seq(Events) /\ conn \in 1..conn
           /\ conn > 0 => \A j \in DOMAIN chan[conn] : chan[conn][j].id \in Nat /\ chan[conn][j].id <= seq
           /\ \A p \in Publishers : inflight[p].ev.id \in Nat /\ inflight[p].ev.id <= seq
<1>1. \A j \in DOMAIN past : past[j].id \in Nat /\ past[j].id <= seq
  BY EventOf DEF ClientTypes, OnceInv, UpTo
<1>2. conn > 0 => chan[conn] \in Seq(Events) /\ conn \in 1..conn
  BY DEF HubTypes, ClientTypes
<1>3. conn > 0 => \A j \in DOMAIN chan[conn] : chan[conn][j].id \in Nat /\ chan[conn][j].id <= seq
  BY <1>2, EventOf DEF ChannelInv, UpTo
<1>4. \A p \in Publishers : inflight[p] \in Flights
  BY DEF WalkTypes
<1>5. \A p \in Publishers : inflight[p].ev.id \in Nat /\ inflight[p].ev.id <= seq
  BY <1>4 DEF FlightsInv, Flights
<1> QED BY <1>1, <1>2, <1>3, <1>5 DEF ClientTypes, OnceInv, HubTypes

(* Publishing: the new id is larger than every other one.                  *)
LEMMA OncePublishing ==
    ASSUME HubTypes, WalkTypes, ClientTypes, BuffersInv, FlightsInv, OnceInv, ChannelInv,
           NEW p, NEW c, Publishing(p, c)
    PROVE  OnceInv' /\ ChannelInv'
<1>1. p \in Publishers /\ UNCHANGED <<state, conn, past, inConn>>
  BY PublishingIs DEF handlerVars
<1>2. CASE closed
  <2>1. UNCHANGED <<seq, chan, inflight>>
    BY <1>2, PublishNothing DEF hubVars
  <2> QED BY <1>1, <2>1 DEF OnceInv, ChannelInv, Pending, Recipients
<1>3. CASE ~closed
  <2>1. /\ \A q \in Publishers : q # p => inflight'[q] = inflight[q]
        /\ inflight'[p].ev.id = seq + 1
    BY <1>3, PublishEffect, StreamConstants
  <2>2. seq' = seq + 1 /\ chan' = chan
    BY <1>3, PublishingIs DEF Publish, Enter
  <2>3. \A q \in Publishers : Pending(q)' => inflight'[q].ev.id = seq + 1
                                             \/ (Pending(q) /\ inflight'[q] = inflight[q])
    BY <1>1, <2>1 DEF Pending, Recipients
  <2>4. OnceInv'
    <3>1. UpTo(past, seq')
      BY <2>2, IdsGiven DEF UpTo
    <3>2. \A i \in DOMAIN inConn : inConn[i] <= seq' /\ inConn[i] # seq + 1
      BY <2>2, IdsGiven
    <3>3. \A i \in DOMAIN past : past[i].id # seq + 1
      BY <2>2, IdsGiven
    <3> QED BY <1>1, <2>3, <3>1, <3>2, <3>3 DEF OnceInv
  <2>5. CASE conn > 0
    <3>1. UpTo(chan[conn], seq')
      BY <2>2, <2>5, IdsGiven DEF UpTo
    <3>2. \A j \in DOMAIN chan[conn] : chan[conn][j].id # seq + 1
      BY <2>5, IdsGiven
    <3>3. ChannelInv'
      BY <1>1, <2>2, <2>3, <2>5, <3>1, <3>2 DEF ChannelInv
    <3> QED BY <2>4, <3>3
  <2>6. CASE ~(conn > 0)
    BY <1>1, <2>4, <2>6 DEF ChannelInv
  <2> QED BY <2>5, <2>6
<1> QED BY <1>2, <1>3

(* Sending moves an id from the goroutine to the channel.                  *)
LEMMA OnceSending ==
    ASSUME HubTypes, WalkTypes, ClientTypes, FlightsInv, OnceInv, ChannelInv,
           NEW p \in Publishers, SendOne(p)
    PROVE  OnceInv' /\ ChannelInv'
<1>1. PICK s \in Recipients(p) :
              /\ \A q \in Publishers : inflight'[q].ev = inflight[q].ev /\ inflight'[q].to = inflight[q].to
              /\ \A q \in Publishers : q # p => inflight'[q] = inflight[q]
              /\ inflight'[p].sent = inflight[p].sent \cup {s}
              /\ UNCHANGED <<seq, state, conn, past, inConn>>
              /\ s \in shut => UNCHANGED chan
              /\ s \notin shut =>
                    chan' = [chan EXCEPT ![s] = IF Drops(s) THEN @ ELSE Append(@, inflight[p].ev)]
  BY SendOneEffect DEF handlerVars
<1>2. \A q \in Publishers : Pending(q)' => Pending(q) /\ (q = p => s # conn)
  BY <1>1 DEF Pending, Recipients
<1>3. OnceInv'
  BY <1>1, <1>2 DEF OnceInv
<1>4. s \in 1..conn /\ inflight[p].ev \in Events /\ inflight[p].ev.id # 0
  BY FlightSent
<1>5. /\ conn > 0 /\ conn \in 1..conn /\ chan[conn] \in Seq(Events) /\ chan \in [1..conn -> Seq(Events)]
      /\ seq \in Nat
  BY <1>4, IdsGiven DEF HubTypes, ClientTypes
<1>6. CASE chan'[conn] = chan[conn]
  <2>1. chan'[conn'] = chan[conn] /\ past' = past /\ inConn' = inConn /\ seq' = seq
    BY <1>1, <1>6
  <2>2. ChannelInv'
    BY <1>1, <1>2, <1>5, <2>1 DEF ChannelInv
  <2> QED BY <1>3, <2>2
<1>7. CASE chan'[conn] # chan[conn]
  <2>1. s = conn /\ chan'[conn] = Append(chan[conn], inflight[p].ev)
    BY <1>1, <1>4, <1>5, <1>7
  <2> DEFINE e == inflight[p].ev
             old == chan[conn]
             new == Append(old, e)
  <2>2. Pending(p)
    BY <2>1 DEF Pending
  <2>3. e \in Events /\ e.id <= seq /\ e.id # 0
    BY <1>4 DEF FlightsInv
  <2>4. /\ \A i \in DOMAIN inConn : inConn[i] # e.id
        /\ \A i \in DOMAIN past : past[i].id # e.id
        /\ \A i \in DOMAIN old : old[i].id # e.id
    BY <1>5, <2>2 DEF OnceInv, ChannelInv
  <2>5. \A q \in Publishers : Pending(q)' => Pending(q) /\ inflight'[q].ev.id = inflight[q].ev.id
                                             /\ inflight[q].ev.id # e.id
    BY <1>1, <1>2, <2>1, <2>3 DEF FlightsInv
  <2>6. /\ UpTo(old, seq)
        /\ \A i, j \in DOMAIN old : i # j => old[i].id # old[j].id
        /\ \A i \in DOMAIN inConn, j \in DOMAIN old : inConn[i] # old[j].id
        /\ \A i \in DOMAIN past, j \in DOMAIN old : past[i].id # old[j].id
        /\ \A q \in Publishers : Pending(q) => \A j \in DOMAIN old : old[j].id # inflight[q].ev.id
    BY <1>5 DEF ChannelInv
  <2>7. \A i \in DOMAIN new : new[i] = e \/ (i \in DOMAIN old /\ new[i] = old[i])
    BY <1>5, <2>3, AppendEvent
  <2>8. \A i, j \in DOMAIN new : new[i] = e /\ new[j] = e => i = j
    <3>1. \A i \in DOMAIN new : new[i] = e => i = Len(old) + 1
      BY <1>5, <2>3, <2>4, AppendEvent
    <3> QED BY <3>1
  <2> HIDE DEF new, old, e
  <2>9. UpTo(new, seq)
    BY <2>3, <2>6, <2>7 DEF UpTo
  <2>10. \A i, j \in DOMAIN new : i # j => new[i].id # new[j].id
    BY <2>4, <2>6, <2>7, <2>8
  <2>11. /\ \A i \in DOMAIN inConn, j \in DOMAIN new : inConn[i] # new[j].id
         /\ \A i \in DOMAIN past, j \in DOMAIN new : past[i].id # new[j].id
         /\ \A q \in Publishers : Pending(q)' => \A j \in DOMAIN new : new[j].id # inflight'[q].ev.id
    BY <2>4, <2>5, <2>6, <2>7
  <2>12. chan'[conn'] = new /\ conn' = conn /\ past' = past /\ inConn' = inConn /\ seq' = seq
    BY <1>1, <2>1 DEF new, old, e
  <2>13. ChannelInv'
    BY <2>9, <2>10, <2>11, <2>12 DEF ChannelInv
  <2> QED BY <1>3, <2>13
<1> QED BY <1>3, <1>6, <1>7

(* Each step keeps the ids apart.                                          *)
LEMMA OnceStep ==
    ASSUME HubTypes, WalkTypes, ClientTypes, BuffersInv, FlightsInv, OnceInv, ChannelInv,
           [StreamNext]_streamVars
    PROVE  OnceInv' /\ ChannelInv'
<1>1. ASSUME NEW p, NEW c, Publishing(p, c) PROVE OnceInv' /\ ChannelInv'
  BY <1>1, OncePublishing
<1>2. ASSUME NEW p \in Publishers, SendOne(p) PROVE OnceInv' /\ ChannelInv'
  BY <1>2, OnceSending
<1>3. CASE Connect
  <2>1. /\ conn' = conn + 1 /\ state' = "joined" /\ inConn' = <<>> /\ past' = Replay(Req, lastID)
        /\ UNCHANGED <<seq, inflight>>
        /\ chan' = [c \in DOMAIN chan \cup {conn + 1} |-> IF c = conn + 1 THEN <<>> ELSE chan[c]]
    BY <1>3 DEF Connect, Subscribe, requestVars
  <2>2. conn \in Nat /\ lastID \in Nat
    BY DEF ClientTypes, HubTypes
  <2>3. Rising(past') /\ UpTo(past', seq')
    BY <2>1, <2>2, ReplayIs
  <2>4. \A p \in Publishers : ~Pending(p)'
    <3>1. \A p \in Publishers : inflight[p] \in Flights
      BY DEF WalkTypes
    <3>2. \A p \in Publishers : conn + 1 \notin inflight[p].to
      BY <2>2, <3>1 DEF Flights
    <3> QED BY <2>1, <3>2 DEF Pending, Recipients
  <2>5. chan'[conn'] = <<>>
    BY <2>1
  <2>6. OnceInv'
    BY <2>1, <2>2, <2>3, <2>4 DEF OnceInv, IsInjective
  <2>7. ChannelInv'
    BY <2>1, <2>4, <2>5 DEF ChannelInv, UpTo
  <2> QED BY <2>6, <2>7
<1>4. CASE WriteReplay /\ past # <<>>
  <2>1. /\ inConn' = Append(inConn, Head(past).id) /\ past' = Tail(past)
        /\ state' \in {"ended", "replay"} /\ state = "replay"
        /\ UNCHANGED <<seq, chan, inflight, conn>>
    BY <1>4 DEF WriteReplay, Write, StateAfter, hubVars, requestVars
  <2>2. /\ Head(past) = past[1] /\ 1 \in DOMAIN past /\ past[1].id \in Nat /\ past[1].id <= seq
        /\ \A i \in DOMAIN past' : i + 1 \in DOMAIN past /\ past'[i] = past[i + 1] /\ i + 1 > 1
    BY <1>4, <2>1, TakeEvent, IdsGiven DEF ClientTypes
  <2>3. \A i \in DOMAIN inConn : inConn[i] # past[1].id
    BY <2>2 DEF OnceInv
  <2>4. /\ IsInjective(inConn') /\ DOMAIN inConn' = DOMAIN inConn \cup {Len(inConn) + 1}
        /\ \A i \in DOMAIN inConn : inConn'[i] = inConn[i]
        /\ inConn'[Len(inConn) + 1] = past[1].id
    BY <2>1, <2>2, <2>3, SeenMore DEF ClientTypes, OnceInv
  <2>5. \A i \in DOMAIN inConn' : inConn'[i] = past[1].id \/ (i \in DOMAIN inConn /\ inConn'[i] = inConn[i])
    BY <2>4
  <2>6. /\ \A i \in DOMAIN past' : past'[i].id # past[1].id
        /\ Rising(past') /\ UpTo(past', seq)
    <3>1. \A i \in DOMAIN past' : past[1].id < past'[i].id
      BY <2>2 DEF OnceInv, Rising
    <3>2. UpTo(past', seq)
      BY <2>2 DEF OnceInv, UpTo
    <3>3. Rising(past')
      <4>1. ASSUME NEW i \in DOMAIN past', NEW j \in DOMAIN past', i < j PROVE past'[i].id < past'[j].id
        <5>1. i \in Nat /\ j \in Nat
          BY <2>1, TakeEvent, <1>4 DEF ClientTypes
        <5>2. i + 1 < j + 1
          BY <4>1, <5>1
        <5> QED BY <2>2, <5>2 DEF OnceInv, Rising
      <4> QED BY <4>1 DEF Rising
    <3>4. \A i \in DOMAIN past' : past'[i].id # past[1].id
      <4>1. \A i \in DOMAIN past' : past[i + 1].id \in Nat
        BY <2>2, IdsGiven
      <4> QED BY <2>2, <3>1, <4>1
    <3> QED BY <3>2, <3>3, <3>4
  <2>7. \A p \in Publishers : Pending(p)' => Pending(p) /\ inflight'[p] = inflight[p]
    BY <2>1 DEF Pending, Recipients
  <2>8. OnceInv'
    <3>1. \A i \in DOMAIN inConn' : inConn'[i] <= seq'
      BY <2>1, <2>2, <2>5 DEF OnceInv
    <3>2. \A i \in DOMAIN inConn', j \in DOMAIN past' : inConn'[i] # past'[j].id
      BY <2>2, <2>5, <2>6 DEF OnceInv
    <3>3. \A p \in Publishers : Pending(p)' =>
             /\ \A i \in DOMAIN inConn' : inConn'[i] # inflight'[p].ev.id
             /\ \A j \in DOMAIN past' : past'[j].id # inflight'[p].ev.id
      BY <2>2, <2>5, <2>7 DEF OnceInv
    <3> QED BY <2>1, <2>4, <2>6, <3>1, <3>2, <3>3 DEF OnceInv
  <2>9. ChannelInv'
    BY <2>1, <2>2, <2>5, <2>7 DEF ChannelInv
  <2> QED BY <2>8, <2>9
<1>5. CASE WriteLive
  <2>1. /\ inConn' = Append(inConn, Head(chan[conn]).id)
        /\ chan' = [chan EXCEPT ![conn] = Tail(chan[conn])] /\ chan[conn] # <<>>
        /\ state' \in {"ended", "live"} /\ state = "live"
        /\ UNCHANGED <<seq, inflight, conn, past>>
    BY <1>5 DEF WriteLive, Write, Receive, StateAfter, requestVars
  <2>2. conn > 0 /\ conn \in 1..conn /\ chan[conn] \in Seq(Events)
    BY <2>1, IdsGiven DEF OnceInv, ClientTypes
  <2> DEFINE old == chan[conn]
             new == Tail(old)
  <2>3. chan'[conn'] = new
    BY <2>1, <2>2 DEF HubTypes
  <2>4. /\ Head(old) = old[1] /\ 1 \in DOMAIN old /\ old[1].id \in Nat /\ old[1].id <= seq
        /\ \A i \in DOMAIN new : i + 1 \in DOMAIN old /\ new[i] = old[i + 1] /\ i + 1 > 1 /\ i \in Nat
    BY <2>1, <2>2, TakeEvent, IdsGiven
  <2>5. /\ UpTo(old, seq)
        /\ \A i, j \in DOMAIN old : i # j => old[i].id # old[j].id
        /\ \A i \in DOMAIN inConn, j \in DOMAIN old : inConn[i] # old[j].id
        /\ \A i \in DOMAIN past, j \in DOMAIN old : past[i].id # old[j].id
        /\ \A q \in Publishers : Pending(q) => \A j \in DOMAIN old : old[j].id # inflight[q].ev.id
    BY <2>2 DEF ChannelInv
  <2>6. inConn' = Append(inConn, old[1].id)
    BY <2>1, <2>4
  <2> HIDE DEF new, old
  <2>7. /\ IsInjective(inConn') /\ DOMAIN inConn' = DOMAIN inConn \cup {Len(inConn) + 1}
        /\ \A i \in DOMAIN inConn : inConn'[i] = inConn[i]
        /\ inConn'[Len(inConn) + 1] = old[1].id
    BY <2>4, <2>5, <2>6, SeenMore DEF ClientTypes, OnceInv
  <2>8. \A i \in DOMAIN inConn' : inConn'[i] = old[1].id \/ (i \in DOMAIN inConn /\ inConn'[i] = inConn[i])
    BY <2>7
  <2>9. \A p \in Publishers : Pending(p)' => Pending(p) /\ inflight'[p] = inflight[p]
    BY <2>1 DEF Pending, Recipients
  <2>10. OnceInv'
    <3>1. \A i \in DOMAIN inConn' : inConn'[i] <= seq'
      BY <2>1, <2>4, <2>8 DEF OnceInv
    <3>2. \A i \in DOMAIN inConn', j \in DOMAIN past' : inConn'[i] # past'[j].id
      BY <2>1, <2>4, <2>5, <2>8 DEF OnceInv
    <3>3. \A p \in Publishers : Pending(p)' =>
             /\ \A i \in DOMAIN inConn' : inConn'[i] # inflight'[p].ev.id
             /\ \A j \in DOMAIN past' : past'[j].id # inflight'[p].ev.id
      BY <2>1, <2>4, <2>5, <2>8, <2>9 DEF OnceInv
    <3> QED BY <2>1, <2>2, <2>7, <3>1, <3>2, <3>3 DEF OnceInv
  <2>11. ChannelInv'
    <3>1. UpTo(new, seq)
      BY <2>4, <2>5 DEF UpTo
    <3>2. \A i, j \in DOMAIN new : i # j => new[i].id # new[j].id
      <4>1. \A i, j \in DOMAIN new : i # j => i + 1 # j + 1
        BY <2>4
      <4> QED BY <2>4, <2>5, <4>1
    <3>3. \A i \in DOMAIN inConn', j \in DOMAIN new : inConn'[i] # new[j].id
      BY <2>4, <2>5, <2>8
    <3>4. \A i \in DOMAIN past', j \in DOMAIN new : past'[i].id # new[j].id
      BY <2>1, <2>4, <2>5
    <3>5. \A q \in Publishers : Pending(q)' => \A j \in DOMAIN new : new[j].id # inflight'[q].ev.id
      BY <2>4, <2>5, <2>9
    <3>6. chan'[conn'] = new /\ seq' = seq
      BY <2>1, <2>3
    <3> QED BY <3>1, <3>2, <3>3, <3>4, <3>5, <3>6 DEF ChannelInv
  <2> QED BY <2>10, <2>11
<1>6. CASE WriteReplay /\ past = <<>>
  <2>1. /\ UNCHANGED <<seq, chan, inflight, conn, past, inConn>> /\ state' = "live" /\ state = "replay"
    BY <1>6 DEF WriteReplay, hubVars, requestVars
  <2> QED BY <1>6, <2>1 DEF OnceInv, ChannelInv, Pending, Recipients
<1>7. CASE HangUp \/ Disconnect
  <2>1. /\ UNCHANGED <<seq, chan, inflight, conn, inConn>> /\ state' = "off"
        /\ past' = past \/ past' = <<>>
    BY <1>7 DEF HangUp, Disconnect, hubVars, requestVars
  <2>2. \A i \in DOMAIN past' : i \in DOMAIN past /\ past'[i] = past[i]
    BY <2>1
  <2>3. Rising(past') /\ UpTo(past', seq)
    BY <2>2 DEF Rising, UpTo, OnceInv
  <2>4. \A p \in Publishers : Pending(p)' => Pending(p) /\ inflight'[p] = inflight[p]
    BY <2>1 DEF Pending, Recipients
  <2>5. OnceInv'
    BY <2>1, <2>2, <2>3, <2>4 DEF OnceInv
  <2>6. ChannelInv'
    BY <2>1, <2>2, <2>4 DEF ChannelInv
  <2> QED BY <2>5, <2>6
<1>8. CASE StoreOutcome \/ ReadRequest \/ Shutdown \/ (\E c \in 1..conn : Leave(c)) \/ UNCHANGED streamVars
  <2>1. UNCHANGED <<seq, chan, inflight, conn, past, inConn>>
    BY <1>8 DEF StoreOutcome, ReadRequest, Shutdown, Close, Leave, Unsubscribe, streamVars, hubVars,
       requestVars, handlerVars
  <2>2. state' = state \/ (state = "joined" /\ state' \in {"ended", "replay"})
    BY <1>8 DEF StoreOutcome, ReadRequest, Shutdown, Leave, streamVars, handlerVars
  <2>3. OnceInv'
    BY <2>1, <2>2 DEF OnceInv, Pending, Recipients
  <2>4. ChannelInv'
    BY <2>1 DEF ChannelInv, Pending, Recipients
  <2> QED BY <2>3, <2>4
<1> QED BY <1>1, <1>2, <1>3, <1>4, <1>5, <1>6, <1>7, <1>8, StreamCases

-----------------------------------------------------------------------------
(* The order of the request's events.                                      *)

(* Each step keeps the order of saving, storing and publishing.            *)
LEMMA ProgressStep ==
    ASSUME HubTypes, WalkTypes, FlightsInv, ProgressInv, [StreamNext]_streamVars
    PROVE  ProgressInv'
<1> USE StreamConstants
<1>1. ASSUME NEW p, NEW c, Publishing(p, c) PROVE ProgressInv'
  <2>1. /\ p \in Publishers /\ stored' = stored
        /\ p \in OtherKeys \cup {Main} => published[p] = 0 /\ UNCHANGED saved
        /\ p \in Branches => c \in StepEvents /\ published[p] < Steps /\ saved' = saved \cup {c}
        /\ published' = [published EXCEPT ![p] = @ + 1]
    BY <1>1, PublishingIs DEF Publish
  <2>2. published \in [Publishers -> Nat]
    BY DEF WalkTypes
  <2>3. /\ \A q \in Publishers : q # p => inflight'[q] = inflight[q]
        /\ p \in Walkers => inflight'[p] = inflight[p] \/ (inflight'[p].ev.content = c /\ ~closed)
    <3>1. CASE closed
      BY <1>1, <3>1, PublishNothing
    <3>2. CASE ~closed
      BY <1>1, <3>2, PublishEffect
    <3> QED BY <3>1, <3>2
  <2>4. CASE p \in Branches
    <3>1. c = <<p, published[p] + 1>> /\ Main # p /\ p \notin OtherKeys
      BY <1>1, <2>4 DEF Publishing
    <3>2. /\ stored = "running" /\ published[Main] # 1 /\ ~Announced
      BY <2>1, <2>2, <2>4, StreamConstants DEF ProgressInv, BranchesOver, Publishers
    <3>3. published'[Main] = published[Main] /\ inflight'[Main] = inflight[Main]
      BY <2>1, <2>2, <2>3, <3>1 DEF Publishers
    <3>4. \A b \in Branches, n \in 1..Steps : <<b, n>> \in saved' <=> n <= published'[b]
      <4>1. \A b \in Branches, n \in 1..Steps : <<b, n>> = c <=> b = p /\ n = published[p] + 1
        BY <3>1
      <4>2. \A b \in Branches : published'[b] = IF b = p THEN published[p] + 1 ELSE published[b]
        BY <2>1, <2>2 DEF Publishers
      <4>3. \A b \in Branches : published[b] \in Nat
        BY <2>2 DEF Publishers
      <4>4. \A b \in Branches, n \in 1..Steps : <<b, n>> \in saved' <=> <<b, n>> \in saved \/ <<b, n>> = c
        BY <2>1, <2>4
      <4>5. ASSUME NEW b \in Branches, NEW n \in 1..Steps
            PROVE  <<b, n>> \in saved' <=> n <= published'[b]
        <5>1. <<b, n>> \in saved <=> n <= published[b]
          BY DEF ProgressInv
        <5>2. CASE b = p
          BY <4>1, <4>2, <4>3, <4>4, <5>1, <5>2
        <5>3. CASE b # p
          BY <4>1, <4>2, <4>3, <4>4, <5>1, <5>3
        <5> QED BY <5>2, <5>3
      <4> QED BY <4>5
    <3>5. \A b \in Branches : inflight'[b].ev.id # 0 => inflight'[b].ev.content \in StepEvents
      BY <2>1, <2>3, <2>4 DEF ProgressInv, Publishers, Walkers
    <3> QED BY <2>1, <3>2, <3>3, <3>4, <3>5 DEF ProgressInv, Announced
  <2>5. CASE p \in OtherKeys
    <3>1. \A q \in Walkers : q # p /\ inflight'[q] = inflight[q] /\ published'[q] = published[q]
      BY <2>1, <2>2, <2>3, <2>5 DEF Walkers
    <3> QED BY <2>1, <2>5, <3>1 DEF ProgressInv, Announced, BranchesOver, Sending, Recipients, Walkers
  <2>6. CASE p = Main
    <3>1. \A b \in Branches : b # p /\ inflight'[b] = inflight[b] /\ published'[b] = published[b]
      BY <2>1, <2>2, <2>3, <2>6 DEF Walkers
    <3>2. /\ stored # "running" /\ published'[Main] = 1 /\ c = Done
      BY <1>1, <2>1, <2>2, <2>6 DEF Publishing, PublishRequestDone, PublishStep, PublishOther
    <3>3. inflight'[Main].ev.content = Done
      BY <2>3, <2>6, <3>2 DEF ProgressInv, Walkers
    <3> QED BY <2>1, <2>6, <3>1, <3>2, <3>3 DEF ProgressInv, Announced, BranchesOver, Sending, Recipients
  <2> QED BY <2>1, <2>4, <2>5, <2>6 DEF Publishers
<1>2. CASE StoreOutcome
  BY <1>2 DEF StoreOutcome, ProgressInv, Announced, BranchesOver, Sending, Recipients
<1>3. ASSUME NEW p \in Publishers, SendOne(p) PROVE ProgressInv'
  <2>1. PICK s \in Recipients(p) :
              /\ \A q \in Publishers : inflight'[q].ev = inflight[q].ev /\ inflight'[q].to = inflight[q].to
              /\ \A q \in Publishers : q # p => inflight'[q] = inflight[q]
              /\ inflight'[p].sent = inflight[p].sent \cup {s}
              /\ UNCHANGED <<published, saved, stored>>
    BY <1>3, SendOneEffect
  <2>2. \A q \in Walkers : inflight'[q].ev = inflight[q].ev /\ Recipients(q)' \subseteq Recipients(q)
    BY <2>1 DEF Recipients
  <2>3. \A b \in Branches : ~Sending(b) => ~Sending(b)'
    BY <2>2 DEF Sending, Walkers
  <2> QED BY <2>1, <2>2, <2>3 DEF ProgressInv, Announced, BranchesOver, Walkers
<1>4. CASE \/ Connect \/ ReadRequest \/ WriteReplay \/ WriteLive \/ HangUp \/ Disconnect \/ Shutdown
           \/ (\E c \in 1..conn : Leave(c)) \/ UNCHANGED streamVars
  <2>1. UNCHANGED <<published, inflight, saved, stored>>
    BY <1>4 DEF Connect, ReadRequest, WriteReplay, WriteLive, HangUp, Disconnect, Shutdown, Leave,
       streamVars, requestVars
  <2> QED BY <2>1 DEF ProgressInv, Announced, BranchesOver, Sending, Recipients
<1> QED BY <1>1, <1>2, <1>3, <1>4, StreamCases

(* Once request_done is out, the branches are over; until then it is       *)
(* nowhere.                                                                *)
LEMMA BranchesFirst ==
    ASSUME WalkTypes, ProgressInv
    PROVE  /\ Announced => \A b \in Branches : published[b] = Steps /\ Recipients(b) = {}
           /\ \A p, c : p \in Walkers /\ Publishing(p, c) => ~Announced
<1>1. Announced => \A b \in Branches : published[b] = Steps /\ Recipients(b) = {}
  BY DEF ProgressInv, BranchesOver, Sending
<1>2. ASSUME NEW p, NEW c, p \in Walkers, Publishing(p, c) PROVE ~Announced
  <2>1. CASE p \in Branches
    <3>1. published[p] < Steps /\ published[p] \in Nat
      BY <1>2, <2>1, PublishingIs DEF WalkTypes, Publishers
    <3> QED BY <1>1, <2>1, <3>1, StreamConstants
  <2>2. CASE p = Main
    <3>1. published[Main] = 0
      BY <1>2, <2>2, PublishingIs
    <3> QED BY <3>1 DEF ProgressInv
  <2> QED BY <1>2, <2>1, <2>2 DEF Walkers
<1> QED BY <1>1, <1>2

(* Request_done comes last in a sequence that gets one more event.         *)
LEMMA LastAppended ==
    ASSUME NEW s \in Seq(Events), NEW e \in Events, Done \notin Told(s)
    PROVE  DoneLast(Append(s, e))
<1>1. \A i \in DOMAIN s : s[i].content # Done
  BY DEF Told
<1> QED BY <1>1, AppendEvent DEF DoneLast

(* Taking the first event leaves it last, and if it was the first there    *)
(* was no other.                                                           *)
LEMMA LastTaken ==
    ASSUME NEW s \in Seq(Events), s # <<>>, DoneLast(s)
    PROVE  DoneLast(Tail(s)) /\ (Head(s).content = Done => Told(Tail(s)) = {})
<1>1. /\ Head(s) = s[1] /\ 1 \in DOMAIN s /\ Len(Tail(s)) = Len(s) - 1 /\ Len(s) \in Nat
      /\ \A i \in DOMAIN Tail(s) : i + 1 \in DOMAIN s /\ Tail(s)[i] = s[i + 1] /\ i \in Nat
      /\ DOMAIN Tail(s) = 1..Len(Tail(s))
  BY TakeEvent
<1>2. DoneLast(Tail(s))
  <2>1. ASSUME NEW i \in DOMAIN Tail(s), Tail(s)[i].content = Done PROVE i = Len(Tail(s))
    <3>1. i + 1 = Len(s)
      BY <1>1, <2>1 DEF DoneLast
    <3> QED BY <1>1, <3>1
  <2> QED BY <2>1 DEF DoneLast
<1>3. ASSUME Head(s).content = Done PROVE Told(Tail(s)) = {}
  <2>1. Len(s) <= 1
    BY <1>1, <1>3 DEF DoneLast
  <2>2. ASSUME NEW i \in DOMAIN Tail(s) PROVE FALSE
    <3>1. i + 1 \in 1..Len(s) /\ i \in Nat \ {0}
      BY <1>1
    <3> QED BY <2>1, <3>1
  <2> QED BY <2>2 DEF Told
<1> QED BY <1>2, <1>3

(* The request's buffer, when one of its goroutines publishes.             *)
LEMMA DonePublishing ==
    ASSUME HubTypes, WalkTypes, ClientTypes, BuffersInv, FlightsInv, ProgressInv, DoneInv,
           NEW p, NEW c, Publishing(p, c)
    PROVE  DoneInv'
<1>1. /\ p \in Publishers /\ c \in Contents /\ Publish(p, c) /\ UNCHANGED <<state, conn, past>>
      /\ p \in Branches => c \in StepEvents
  BY PublishingIs DEF handlerVars
<1>2. CASE closed
  <2>1. UNCHANGED <<buffers, subs, chan, closed, inflight>>
    BY <1>2, PublishNothing DEF hubVars
  <2> QED BY <1>1, <2>1 DEF DoneInv, Buffer, Announced
<1>3. CASE ~closed
  <2>1. Enter(Key(p), c) /\ Key(p) \in Keys
    BY <1>1, <1>3, StreamConstants DEF Publish
  <2>2. UNCHANGED <<subs, chan, closed, shut>>
    BY <2>1 DEF Enter
  <2>3. /\ \A q \in Publishers : q # p => inflight'[q] = inflight[q]
        /\ inflight'[p].ev.id = seq + 1
    BY <1>3, PublishEffect, StreamConstants
  <2>6. seq + 1 # 0
    BY DEF HubTypes
  <2>4. CASE p \in OtherKeys
    <3>1. Key(p) # Req /\ Req \in Keys /\ p # Main
      BY <2>4, StreamConstants DEF Key, Keys
    <3>2. Buffer(Req)' = Buffer(Req) \/ Buffer(Req)' = <<>>
      BY <1>1, <2>1, <3>1, EnterEffect
    <3>3. inflight'[Main] = inflight[Main]
      BY <2>3, <3>1, StreamConstants DEF Walkers
    <3>4. DoneLast(Buffer(Req)') /\ Told(Buffer(Req)') \subseteq Told(Buffer(Req))
      BY <3>2 DEF DoneInv, DoneLast, Told
    <3> QED BY <1>1, <2>2, <3>3, <3>4 DEF DoneInv, Announced
  <2>5. CASE p \in Walkers
    <3>1. ~Announced /\ Key(p) = Req
      BY <2>5, BranchesFirst, StreamConstants
    <3>2. /\ \A i \in DOMAIN Buffer(Req)' :
                i # Len(Buffer(Req)') => Buffer(Req)'[i].content \in Told(Buffer(Req))
          /\ Buffer(Req)'[Len(Buffer(Req)')].content = c
      BY <1>1, <2>1, <3>1, EnterEffect
    <3>3. /\ Done \notin Told(Buffer(Req)) /\ Done \notin Told(past)
          /\ conn > 0 => Done \notin Told(chan[conn])
      BY <3>1 DEF DoneInv
    <3>4. DoneLast(Buffer(Req)')
      BY <3>2, <3>3 DEF DoneLast
    <3>5. Done \in Told(Buffer(Req)') => p = Main
      <4>1. CASE p \in Branches
        <5>1. c # Done
          BY <1>1, <4>1, StreamConstants
        <5>2. \A i \in DOMAIN Buffer(Req)' : Buffer(Req)'[i].content # Done
          BY <3>2, <3>3, <5>1
        <5> QED BY <5>2 DEF Told
      <4> QED BY <2>5, <4>1 DEF Walkers
    <3>6. p = Main => Announced'
      BY <2>3, <2>6 DEF Announced
    <3> QED BY <1>1, <2>2, <3>3, <3>4, <3>5, <3>6 DEF DoneInv
  <2> QED BY <1>1, <2>4, <2>5, StreamConstants
<1> QED BY <1>2, <1>3

(* Sending: request_done goes to the end of the channel, as every step has *)
(* been sent.                                                              *)
LEMMA DoneSending ==
    ASSUME HubTypes, WalkTypes, ClientTypes, FlightsInv, ProgressInv, DoneInv,
           NEW p \in Publishers, SendOne(p)
    PROVE  DoneInv'
<1>1. PICK s \in Recipients(p) :
              /\ \A q \in Publishers : inflight'[q].ev = inflight[q].ev /\ inflight'[q].to = inflight[q].to
              /\ \A q \in Publishers : q # p => inflight'[q] = inflight[q]
              /\ inflight'[p].sent = inflight[p].sent \cup {s}
              /\ UNCHANGED <<state, conn, past, buffers, subs, closed>>
              /\ s \in shut => UNCHANGED chan
              /\ s \notin shut =>
                    chan' = [chan EXCEPT ![s] = IF Drops(s) THEN @ ELSE Append(@, inflight[p].ev)]
  BY SendOneEffect DEF handlerVars
<1>2. /\ Announced' = Announced
      /\ inflight[Main].sent \subseteq inflight'[Main].sent
      /\ p = Main => s \in inflight'[Main].sent
  BY <1>1, StreamConstants DEF Announced, Walkers
<1>3. Buffer(Req)' = Buffer(Req)
  BY <1>1 DEF Buffer
<1>4. s \in 1..conn /\ inflight[p].ev \in Events /\ s \notin inflight[p].sent /\ inflight[p].ev.id # 0
  BY FlightSent
<1>5. conn > 0 /\ conn \in 1..conn /\ chan[conn] \in Seq(Events) /\ chan \in [1..conn -> Seq(Events)]
  BY <1>4 DEF HubTypes, ClientTypes
<1>6. CASE chan'[conn] = chan[conn]
  <2>1. chan'[conn'] = chan[conn]
    BY <1>1, <1>6
  <2> QED BY <1>1, <1>2, <1>3, <1>5, <2>1 DEF DoneInv
<1>7. CASE chan'[conn] # chan[conn]
  <2>1. s = conn /\ chan'[conn] = Append(chan[conn], inflight[p].ev)
    BY <1>1, <1>4, <1>5, <1>7
  <2>2. p \in Walkers /\ Done \notin Told(chan[conn])
    <3>1. p \notin OtherKeys
      BY <1>4 DEF FlightsInv, Recipients
    <3>2. p \in Walkers
      BY <3>1, StreamConstants
    <3>3. ASSUME Done \in Told(chan[conn]) PROVE FALSE
      <4>1. Announced /\ conn \in inflight[Main].sent
        BY <1>5, <3>3 DEF DoneInv
      <4>2. p = Main
        BY <3>2, <4>1, BranchesFirst DEF Walkers
      <4> QED BY <1>4, <2>1, <4>1, <4>2
    <3> QED BY <3>2, <3>3
  <2>3. DoneLast(chan'[conn])
    BY <1>4, <1>5, <2>1, <2>2, LastAppended
  <2>4. Done \in Told(chan'[conn]) => p = Main
    <3>1. Told(chan'[conn]) = Told(chan[conn]) \cup {inflight[p].ev.content}
      BY <1>4, <1>5, <2>1, AppendEvent
    <3>2. p \in Branches => inflight[p].ev.content # Done
      BY <1>4, StreamConstants DEF ProgressInv
    <3> QED BY <2>2, <3>1, <3>2 DEF Walkers
  <2>5. p = Main => Announced' /\ conn \in inflight'[Main].sent
    BY <1>2, <1>4, <2>1 DEF Announced
  <2>6. DoneLast(chan'[conn']) /\ (Done \in Told(chan'[conn']) => Announced' /\ conn' \in inflight'[Main].sent)
    BY <1>1, <2>3, <2>4, <2>5
  <2> QED BY <1>1, <1>2, <1>3, <2>6 DEF DoneInv
<1> QED BY <1>6, <1>7

(* Each step leaves request_done at the end.                               *)
LEMMA DoneStep ==
    ASSUME HubTypes, WalkTypes, ClientTypes, BuffersInv, FlightsInv, OnceInv, ChannelInv, ProgressInv, DoneInv,
           [StreamNext]_streamVars
    PROVE  DoneInv'
<1>1. ASSUME NEW p, NEW c, Publishing(p, c) PROVE DoneInv'
  BY <1>1, DonePublishing
<1>2. ASSUME NEW p \in Publishers, SendOne(p) PROVE DoneInv'
  BY <1>2, DoneSending
<1>3. CASE Connect
  <2>1. /\ conn' = conn + 1 /\ state' = "joined" /\ past' = Replay(Req, lastID)
        /\ UNCHANGED <<buffers, closed, inflight>>
        /\ subs' = [subs EXCEPT ![Req] = @ \cup {conn + 1}]
        /\ chan' = [c \in DOMAIN chan \cup {conn + 1} |-> IF c = conn + 1 THEN <<>> ELSE chan[c]]
    BY <1>3 DEF Connect, Subscribe, requestVars
  <2>2. conn \in Nat /\ lastID \in Nat /\ Req \in DOMAIN subs
    BY DEF ClientTypes, HubTypes, Keys
  <2>3. DoneLast(past') /\ (Done \in Told(past') => Announced)
    BY <2>1, <2>2, ReplayIs DEF DoneInv
  <2>4. chan'[conn'] = <<>> /\ conn' \in subs'[Req]
    BY <2>1, <2>2
  <2>5. DoneLast(chan'[conn']) /\ Done \notin Told(chan'[conn'])
    BY <2>4 DEF DoneLast, Told
  <2>6. Buffer(Req)' = Buffer(Req) /\ Announced' = Announced
    BY <2>1 DEF Buffer, Announced
  <2> QED BY <2>3, <2>4, <2>5, <2>6 DEF DoneInv
<1>4. CASE WriteReplay /\ past # <<>>
  <2>1. /\ past' = Tail(past) /\ state = "replay"
        /\ UNCHANGED <<buffers, closed, inflight, subs, chan, conn>>
    BY <1>4 DEF WriteReplay, hubVars, requestVars
  <2>2. past \in Seq(Events) /\ DoneLast(past)
    BY DEF ClientTypes, DoneInv
  <2>3. DoneLast(past') /\ Told(past') \subseteq Told(past)
    BY <1>4, <2>1, <2>2, LastTaken, TakeEvent
  <2>4. Buffer(Req)' = Buffer(Req) /\ Announced' = Announced
    BY <2>1 DEF Buffer, Announced
  <2> QED BY <2>1, <2>3, <2>4 DEF DoneInv
<1>5. CASE WriteLive
  <2>1. /\ chan' = [chan EXCEPT ![conn] = Tail(chan[conn])] /\ chan[conn] # <<>> /\ state = "live"
        /\ UNCHANGED <<buffers, closed, inflight, subs, past, conn>>
    BY <1>5 DEF WriteLive, Receive, requestVars
  <2>2. conn > 0 /\ chan[conn] \in Seq(Events) /\ conn \in DOMAIN chan
    BY <2>1, IdsGiven DEF OnceInv, ClientTypes, HubTypes
  <2>3. DoneLast(chan[conn])
    BY <2>2 DEF DoneInv
  <2>4. chan'[conn'] = Tail(chan[conn])
    BY <2>1, <2>2
  <2>5. DoneLast(chan'[conn']) /\ Told(chan'[conn']) \subseteq Told(chan[conn])
    BY <2>1, <2>2, <2>3, <2>4, LastTaken, TakeEvent
  <2>6. Buffer(Req)' = Buffer(Req) /\ Announced' = Announced
    BY <2>1 DEF Buffer, Announced
  <2> QED BY <2>1, <2>2, <2>5, <2>6 DEF DoneInv
<1>6. CASE HangUp \/ Disconnect
  <2>1. /\ UNCHANGED <<buffers, closed, inflight, subs, chan, conn>> /\ state' = "off"
        /\ past' = past \/ past' = <<>>
    BY <1>6 DEF HangUp, Disconnect, hubVars, requestVars
  <2>2. DoneLast(past') /\ Told(past') \subseteq Told(past)
    BY <2>1 DEF DoneInv, DoneLast, Told
  <2>3. Buffer(Req)' = Buffer(Req) /\ Announced' = Announced
    BY <2>1 DEF Buffer, Announced
  <2> QED BY <2>1, <2>2, <2>3 DEF DoneInv
<1>7. CASE Shutdown
  <2>1. /\ UNCHANGED <<buffers, inflight, chan, conn, past, state>> /\ closed'
    BY <1>7 DEF Shutdown, Close, requestVars, handlerVars
  <2>2. Buffer(Req)' = Buffer(Req) /\ Announced' = Announced
    BY <2>1 DEF Buffer, Announced
  <2> QED BY <2>1, <2>2 DEF DoneInv
<1>8. ASSUME NEW c \in 1..conn, Leave(c) PROVE DoneInv'
  <2>1. /\ UNCHANGED <<buffers, closed, inflight, chan, conn, past, state>>
        /\ subs' = [subs EXCEPT ![Req] = @ \ {c}]
        /\ c # conn \/ state \in {"off", "ended"}
    BY <1>8 DEF Leave, Unsubscribe, requestVars, handlerVars
  <2>2. Buffer(Req)' = Buffer(Req) /\ Announced' = Announced
    BY <2>1 DEF Buffer, Announced
  <2>3. Req \in DOMAIN subs
    BY DEF HubTypes, Keys
  <2>4. state' \in {"joined", "replay", "live"} => conn' \in subs'[Req] \/ closed'
    BY <2>1, <2>3 DEF DoneInv
  <2> QED BY <2>1, <2>2, <2>4 DEF DoneInv
<1>9. CASE StoreOutcome \/ ReadRequest \/ (WriteReplay /\ past = <<>>) \/ UNCHANGED streamVars
  <2>1. UNCHANGED <<buffers, closed, inflight, subs, chan, conn, past>>
    BY <1>9 DEF StoreOutcome, ReadRequest, WriteReplay, streamVars, hubVars, requestVars, handlerVars
  <2>2. state' = state \/ state \in {"joined", "replay"}
    BY <1>9 DEF StoreOutcome, ReadRequest, WriteReplay, streamVars, handlerVars
  <2>3. Buffer(Req)' = Buffer(Req) /\ Announced' = Announced
    BY <2>1 DEF Buffer, Announced
  <2> QED BY <2>1, <2>2, <2>3 DEF DoneInv
<1> QED BY <1>1, <1>2, <1>3, <1>4, <1>5, <1>6, <1>7, <1>8, <1>9, StreamCases

-----------------------------------------------------------------------------
(* The first connection.                                                   *)

(* What is out there grows by the published event; after request_done it   *)
(* is everything.                                                          *)
LEMMA OutThereGrows ==
    ASSUME WalkTypes, NEW p, NEW c, Publishing(p, c)
    PROVE  OutThere' \subseteq OutThere \cup {c} /\ (p \in OtherKeys => OutThere' = OutThere)
<1>1. /\ published \in [Publishers -> Nat] /\ p \in Publishers
      /\ published' = [published EXCEPT ![p] = @ + 1]
  BY PublishingIs DEF Publish, WalkTypes
<1>2. \A q \in Walkers : q \in Publishers /\ published[q] \in Nat
                         /\ published'[q] = IF q = p THEN published[p] + 1 ELSE published[q]
  BY <1>1, StreamConstants
<1>3. p \in OtherKeys => OutThere' = OutThere
  BY <1>2, StreamConstants DEF OutThere, Walkers
<1>4. CASE p \in Walkers
  <2>1. c = <<p, published[p] + 1>>
    <3>1. p = Main => published[p] = 0
      BY PublishingIs
    <3> QED BY <1>2, <1>4, <3>1, StreamConstants DEF Publishing, Done, Walkers
  <2>2. ASSUME NEW e \in OutThere', e \notin OutThere PROVE e = c
    <3>1. e \in Walkers \X Nat /\ e[2] \in 1..published'[e[1]] /\ ~(e[2] \in 1..published[e[1]])
      BY <2>2 DEF OutThere
    <3>2. e[1] = p /\ e[2] = published[p] + 1
      BY <1>2, <3>1
    <3> QED BY <2>1, <3>1, <3>2
  <2> QED BY <1>4, <2>2, StreamConstants DEF Walkers
<1> QED BY <1>1, <1>3, <1>4, StreamConstants

(* Once request_done is published every step is out there.                 *)
LEMMA AllOutThere ==
    ASSUME WalkTypes, ProgressInv, Announced
    PROVE  StepEvents \subseteq OutThere
BY BranchesFirst, StreamConstants DEF StepEvents, OutThere, Walkers

(* Publishing: the event is in the buffer and on its way to a connection   *)
(* that is subscribed.                                                     *)
LEMMA CoverPublishing ==
    ASSUME HubTypes, WalkTypes, ClientTypes, BuffersInv, ProgressInv, DoneInv, CoverInv,
           NEW p, NEW c, Publishing(p, c)
    PROVE  CoverInv'
<1>1. /\ p \in Publishers /\ c \in Contents /\ Publish(p, c)
      /\ UNCHANGED <<crashed, state, conn, past, got, lastID>> /\ closed' = closed
  BY PublishingIs DEF handlerVars, Publish, Enter, hubVars
<1>2. lost \subseteq lost'
  BY <1>1 DEF Publish
<1>3. FirstSound' => FirstSound
  BY <1>1, <1>2 DEF FirstSound
<1>4. FirstConnectionComplete'
  BY <1>1, <1>2 DEF CoverInv, FirstConnectionComplete
<1>5. OutThere' \subseteq OutThere \cup {c} /\ (p \in OtherKeys => OutThere' = OutThere)
  BY OutThereGrows
<1>6. p \notin Walkers => p \in OtherKeys /\ p # Main
  BY <1>1, StreamConstants DEF Walkers
<1>7. ASSUME FirstSound', ~closed' \/ Announced'
      PROVE  /\ conn = 0 => OutThere' \subseteq Told(Buffer(Req)')
             /\ conn = 1 /\ state \in {"joined", "replay", "live"} =>
                   OutThere' \subseteq got \cup Told(past) \cup Told(chan'[1]) \cup InFlight'
  <2>1. CASE closed
    <3>1. UNCHANGED <<buffers, chan, inflight>>
      BY <2>1, PublishNothing DEF hubVars
    <3>2. Announced /\ p \in OtherKeys
      BY <1>1, <1>6, <1>7, <2>1, <3>1, BranchesFirst DEF Announced
    <3>3. Buffer(Req)' = Buffer(Req) /\ InFlight' = InFlight
      BY <1>1, <3>1 DEF Buffer, InFlight, Pending, Recipients
    <3> QED BY <1>3, <1>5, <1>7, <3>1, <3>2, <3>3 DEF CoverInv
  <2>2. CASE ~closed
    <3>1. Enter(Key(p), c) /\ Key(p) \in Keys /\ Req \in Keys
      BY <1>1, <2>2, StreamConstants DEF Publish, Keys
    <3>2. chan' = chan
      BY <3>1 DEF Enter
    <3>3. ASSUME conn = 0 PROVE OutThere' \subseteq Told(Buffer(Req)')
      <4>1. ~Forgets(Key(p))
        BY <1>1, <1>7, <2>2, <3>3 DEF Publish, FirstSound
      <4>2. OutThere \subseteq Told(Buffer(Req))
        BY <1>3, <1>7, <2>2, <3>3 DEF CoverInv
      <4>3. CASE p \in Walkers
        <5>1. Key(p) = Req /\ Len(Buffer(Req)) # MaxBuf
          BY <4>1, <4>3, StreamConstants DEF Forgets
        <5>2. Told(Buffer(Req)') = Told(Buffer(Req)) \cup {c}
          BY <1>1, <3>1, <5>1, EnterEffect
        <5> QED BY <1>5, <4>2, <5>2
      <4>4. CASE p \in OtherKeys
        <5>1. Key(p) # Req /\ ~(Req \in Evicted(Key(p)) /\ Req \in DOMAIN buffers)
          BY <4>1, <4>4, StreamConstants DEF Forgets, Key
        <5>2. Buffer(Req)' = Buffer(Req)
          BY <1>1, <3>1, <5>1, EnterEffect
        <5> QED BY <1>5, <4>2, <4>4, <5>2
      <4> QED BY <1>6, <4>3, <4>4
    <3>4. ASSUME conn = 1, state \in {"joined", "replay", "live"}
          PROVE  OutThere' \subseteq got \cup Told(past) \cup Told(chan'[1]) \cup InFlight'
      <4>1. OutThere \subseteq got \cup Told(past) \cup Told(chan[1]) \cup InFlight
        BY <1>3, <1>7, <2>2, <3>4 DEF CoverInv
      <4>2. \A q \in Publishers : q # p => inflight'[q] = inflight[q]
        BY <2>2, PublishEffect, StreamConstants
      <4>3. /\ inflight'[p].ev.content = c /\ inflight'[p].to = subs[Key(p)] /\ inflight'[p].sent = {}
        BY <2>2, PublishEffect, StreamConstants
      <4>4. ~Pending(p)
        BY <1>1 DEF Publish, Sending, Pending
      <4>5. \A q \in Walkers : Pending(q) => /\ q # p /\ q \in Publishers
                                             /\ Pending(q)' /\ inflight'[q] = inflight[q]
        BY <1>1, <4>2, <4>4, StreamConstants DEF Pending, Recipients
      <4>6. InFlight \subseteq InFlight'
        BY <4>5 DEF InFlight
      <4>7. p \in Walkers => c \in InFlight'
        <5>1. conn \in subs[Req]
          BY <2>2, <3>4 DEF DoneInv
        <5>2. p \in Walkers => Pending(p)'
          BY <1>1, <4>3, <5>1, StreamConstants DEF Pending, Recipients
        <5> QED BY <4>3, <5>2 DEF InFlight
      <4> QED BY <1>5, <1>6, <3>2, <4>1, <4>6, <4>7
    <3> QED BY <3>3, <3>4
  <2> QED BY <2>1, <2>2
<1>8. ASSUME FirstSound', conn = 1, state \in {"joined", "replay"}, Done \in Told(past)
      PROVE  StepEvents \subseteq got \cup Told(past)
  BY <1>3, <1>8 DEF CoverInv
<1> QED BY <1>1, <1>4, <1>7, <1>8 DEF CoverInv

(* Sending: the event is in the channel, or the channel was full and the   *)
(* loss is known.                                                          *)
LEMMA CoverSending ==
    ASSUME HubTypes, WalkTypes, ClientTypes, FlightsInv, CoverInv,
           NEW p \in Publishers, SendOne(p)
    PROVE  CoverInv'
<1>1. PICK s \in Recipients(p) :
              /\ \A q \in Publishers : inflight'[q].ev = inflight[q].ev /\ inflight'[q].to = inflight[q].to
              /\ \A q \in Publishers : q # p => inflight'[q] = inflight[q]
              /\ inflight'[p].sent = inflight[p].sent \cup {s}
              /\ UNCHANGED <<published, state, conn, past, got, lastID, buffers, closed>>
              /\ s \in shut => crashed' /\ UNCHANGED <<chan, lost>>
              /\ s \notin shut =>
                    /\ chan' = [chan EXCEPT ![s] = IF Drops(s) THEN @ ELSE Append(@, inflight[p].ev)]
                    /\ lost' = lost \cup IF Drops(s) /\ s = conn THEN {"dropped"} ELSE {}
                    /\ UNCHANGED crashed
  BY SendOneEffect DEF handlerVars
<1>2. Announced' = Announced /\ OutThere' = OutThere /\ Buffer(Req)' = Buffer(Req)
  BY <1>1, StreamConstants DEF Announced, OutThere, Buffer, Walkers
<1>3. s \in 1..conn /\ inflight[p].ev \in Events
  BY FlightSent
<1>4. lost \subseteq lost'
  BY <1>1
<1>5. FirstSound' => FirstSound /\ s \notin shut /\ ~(Drops(s) /\ s = conn)
  BY <1>1, <1>4 DEF FirstSound
<1>6. FirstConnectionComplete'
  BY <1>1, <1>4 DEF CoverInv, FirstConnectionComplete
<1>7. ASSUME FirstSound', ~closed' \/ Announced', conn = 1, state \in {"joined", "replay", "live"}
      PROVE  OutThere' \subseteq got \cup Told(past) \cup Told(chan'[1]) \cup InFlight'
  <2>1. OutThere \subseteq got \cup Told(past) \cup Told(chan[1]) \cup InFlight
    BY <1>1, <1>2, <1>5, <1>7 DEF CoverInv
  <2>2. s = 1 /\ chan[1] \in Seq(Events) /\ 1 \in DOMAIN chan
    BY <1>3, <1>7 DEF HubTypes
  <2>3. chan'[1] = Append(chan[1], inflight[p].ev)
    BY <1>1, <1>5, <1>7, <2>2
  <2>4. Told(chan'[1]) = Told(chan[1]) \cup {inflight[p].ev.content}
    BY <1>3, <2>2, <2>3, AppendEvent
  <2>5. ASSUME NEW q \in Walkers, Pending(q), q # p PROVE inflight[q].ev.content \in InFlight'
    <3>1. q \in Publishers /\ inflight'[q] = inflight[q]
      BY <1>1, <2>5, StreamConstants
    <3>2. Pending(q)'
      BY <1>1, <2>5, <3>1 DEF Pending, Recipients
    <3> QED BY <3>1, <3>2 DEF InFlight
  <2>6. InFlight \subseteq InFlight' \cup {inflight[p].ev.content}
    BY <2>5 DEF InFlight
  <2> QED BY <1>2, <2>1, <2>4, <2>6
<1>8. ASSUME FirstSound', conn = 1, state \in {"joined", "replay"}, Done \in Told(past)
      PROVE  StepEvents \subseteq got \cup Told(past)
  BY <1>5, <1>8 DEF CoverInv
<1>9. conn > 0
  BY <1>3 DEF ClientTypes
<1> QED BY <1>1, <1>6, <1>7, <1>8, <1>9 DEF CoverInv

(* Connecting for the first time: everything out there is replayed.        *)
LEMMA CoverConnect ==
    ASSUME HubTypes, WalkTypes, ClientTypes, BuffersInv, ProgressInv, DoneInv, CoverInv, Connect
    PROVE  CoverInv'
<1>1. /\ conn' = conn + 1 /\ state' = "joined" /\ past' = Replay(Req, lastID)
      /\ UNCHANGED <<closed, inflight, published, lost, crashed, got>>
  BY DEF Connect, Subscribe, requestVars
<1>2. conn \in Nat /\ lastID \in Nat
  BY DEF ClientTypes, HubTypes
<1>3. Announced' = Announced /\ OutThere' = OutThere
  BY <1>1 DEF Announced, OutThere
<1>4. ASSUME FirstSound', conn' = 1
      PROVE  /\ ~closed' \/ Announced' => OutThere' \subseteq Told(past')
             /\ Done \in Told(past') => StepEvents \subseteq Told(past')
  <2>1. conn = 0 /\ lastID = 0 /\ FirstSound
    BY <1>1, <1>2, <1>4 DEF FirstSound, CoverInv
  <2>2. Told(past') = Told(Buffer(Req))
    BY <1>1, <1>2, <2>1, ReplayIs
  <2>3. ~closed \/ Announced => OutThere \subseteq Told(Buffer(Req))
    BY <2>1 DEF CoverInv
  <2>4. Done \in Told(Buffer(Req)) => Announced
    BY DEF DoneInv
  <2> QED BY <1>1, <1>3, <2>2, <2>3, <2>4, AllOutThere
<1>5. FirstConnectionComplete'
  BY <1>1 DEF FirstConnectionComplete
<1> QED BY <1>1, <1>2, <1>4, <1>5 DEF CoverInv

(* Reading the request, replaying and following the channel.               *)
LEMMA CoverReading ==
    ASSUME HubTypes, WalkTypes, ClientTypes, ProgressInv, OnceInv, DoneInv, CoverInv,
           ReadRequest \/ WriteReplay \/ WriteLive
    PROVE  CoverInv'
<1>1. /\ UNCHANGED <<published, inflight, conn, closed, lost, crashed, buffers>> /\ ~crashed
      /\ state \in {"joined", "replay", "live"}
  BY DEF ReadRequest, WriteReplay, WriteLive, Receive, requestVars, hubVars
<1>2. /\ Announced' = Announced /\ OutThere' = OutThere /\ Buffer(Req)' = Buffer(Req)
      /\ InFlight' = InFlight /\ FirstSound' = FirstSound
  BY <1>1 DEF Announced, OutThere, Buffer, InFlight, Pending, Recipients, FirstSound
<1>3. conn > 0 /\ conn # 0 /\ (lost \subseteq {"forgotten"} /\ conn = 1 => FirstSound)
  BY <1>1 DEF OnceInv, FirstSound, ClientTypes
<1>4. CASE ReadRequest /\ stored = "finished" /\ past = <<>>
  <2>1. got' = got \cup saved \cup {Done} /\ state' = "ended"
    BY <1>4 DEF ReadRequest
  <2>2. StepEvents \subseteq saved
    <3>1. \A b \in Branches : published[b] = Steps
      BY <1>4 DEF ProgressInv, BranchesOver
    <3> QED BY <3>1, StreamConstants DEF ProgressInv, StepEvents
  <2>3. got' = StepEvents \cup {Done}
    BY <2>1, <2>2 DEF ClientTypes, WalkTypes, Contents
  <2> QED BY <1>1, <1>3, <2>1, <2>3 DEF CoverInv, FirstConnectionComplete
<1>5. CASE (ReadRequest /\ ~(stored = "finished" /\ past = <<>>)) \/ (WriteReplay /\ past = <<>>)
  <2>1. /\ UNCHANGED <<got, past, chan>> /\ state' \in {"replay", "live"}
        /\ state' = "replay" => state = "joined"
    BY <1>5 DEF ReadRequest, WriteReplay, hubVars
  <2> QED BY <1>1, <1>2, <1>3, <2>1 DEF CoverInv, FirstConnectionComplete
<1>6. CASE WriteReplay /\ past # <<>>
  <2>1. /\ got' = got \cup {Head(past).content} /\ past' = Tail(past) /\ chan' = chan
        /\ state' = StateAfter(Head(past), "replay") /\ state = "replay"
    BY <1>6 DEF WriteReplay, Write, hubVars
  <2>2. past \in Seq(Events) /\ DoneLast(past)
    BY DEF ClientTypes, DoneInv
  <2>3. Told(past) = {Head(past).content} \cup Told(past')
    BY <1>6, <2>1, <2>2, TakeEvent
  <2>4. got' \cup Told(past') = got \cup Told(past)
    BY <2>1, <2>3
  <2>5. ASSUME Head(past).content = Done, FirstSound, conn = 1
        PROVE  got' = StepEvents \cup {Done}
    <3>1. Told(past') = {} /\ Done \in Told(past)
      BY <1>6, <2>1, <2>2, <2>3, <2>5, LastTaken
    <3>2. StepEvents \subseteq got \cup Told(past)
      BY <2>1, <2>5, <3>1 DEF CoverInv
    <3> QED BY <2>1, <2>3, <2>5, <3>1, <3>2 DEF ClientTypes, Contents
  <2>6. state' = "ended" => Head(past).content = Done
    BY <2>1 DEF StateAfter
  <2>7. FirstConnectionComplete'
    BY <1>1, <1>3, <2>5, <2>6 DEF FirstConnectionComplete
  <2> QED BY <1>1, <1>2, <1>3, <2>1, <2>3, <2>4, <2>7 DEF CoverInv
<1>7. CASE WriteLive
  <2>1. /\ got' = got \cup {Head(chan[conn]).content} /\ past' = past /\ past = <<>>
        /\ chan' = [chan EXCEPT ![conn] = Tail(chan[conn])] /\ chan[conn] # <<>>
        /\ state' = StateAfter(Head(chan[conn]), "live") /\ state = "live"
    BY <1>7 DEF WriteLive, Write, Receive, OnceInv
  <2>2. conn \in DOMAIN chan /\ chan[conn] \in Seq(Events) /\ DoneLast(chan[conn])
    BY <1>3 DEF ClientTypes, HubTypes, DoneInv
  <2>3. /\ chan'[conn] = Tail(chan[conn])
        /\ Told(chan[conn]) = {Head(chan[conn]).content} \cup Told(chan'[conn])
    BY <2>1, <2>2, TakeEvent
  <2>4. ASSUME Head(chan[conn]).content = Done, FirstSound, conn = 1
        PROVE  got' = StepEvents \cup {Done}
    <3>1. Told(chan'[conn]) = {} /\ Done \in Told(chan[conn])
      BY <2>1, <2>2, <2>3, <2>4, LastTaken
    <3>2. Announced
      BY <1>3, <3>1 DEF DoneInv
    <3>3. StepEvents \subseteq got \cup Told(past) \cup Told(chan[1]) \cup InFlight
      BY <2>1, <2>4, <3>2, AllOutThere DEF CoverInv
    <3>4. Told(past) = {}
      BY <2>1 DEF Told
    <3>5. InFlight \subseteq {Done}
      <4>1. \A q \in Walkers : Pending(q) => q = Main
        BY <3>2, BranchesFirst DEF Walkers, Pending
      <4> QED BY <4>1 DEF InFlight, ProgressInv
    <3>6. Told(chan[1]) = {Done}
      BY <2>3, <2>4, <3>1
    <3> QED BY <2>1, <2>4, <3>3, <3>4, <3>5, <3>6 DEF ClientTypes, Contents
  <2>5. state' = "ended" => Head(chan[conn]).content = Done
    BY <2>1 DEF StateAfter
  <2>6. FirstConnectionComplete'
    BY <1>1, <1>3, <2>4, <2>5 DEF FirstConnectionComplete
  <2>7. state' \in {"ended", "live"}
    BY <2>1 DEF StateAfter
  <2>8. ASSUME FirstSound', ~closed' \/ Announced', conn = 1
        PROVE  OutThere' \subseteq got' \cup Told(past') \cup Told(chan'[1]) \cup InFlight'
    <3>1. OutThere \subseteq got \cup Told(past) \cup Told(chan[1]) \cup InFlight
      BY <1>1, <1>2, <2>8 DEF CoverInv
    <3> QED BY <1>2, <2>1, <2>3, <2>8, <3>1
  <2> QED BY <1>1, <1>3, <2>6, <2>7, <2>8 DEF CoverInv
<1> QED BY <1>4, <1>5, <1>6, <1>7

(* Each step keeps everything in one of those places.                      *)
LEMMA CoverStep ==
    ASSUME HubTypes, WalkTypes, ClientTypes, BuffersInv, FlightsInv, OnceInv, ProgressInv, DoneInv, CoverInv,
           [StreamNext]_streamVars
    PROVE  CoverInv'
<1>1. ASSUME NEW p, NEW c, Publishing(p, c) PROVE CoverInv'
  BY <1>1, CoverPublishing
<1>2. ASSUME NEW p \in Publishers, SendOne(p) PROVE CoverInv'
  BY <1>2, CoverSending
<1>3. CASE Connect
  BY <1>3, CoverConnect
<1>4. CASE ReadRequest \/ WriteReplay \/ WriteLive
  BY <1>4, CoverReading
<1>5. CASE HangUp \/ Disconnect
  <2>1. conn' = conn /\ conn # 0 /\ state' = "off"
    BY <1>5 DEF HangUp, Disconnect, OnceInv
  <2> QED BY <2>1 DEF CoverInv, FirstConnectionComplete
<1>6. CASE StoreOutcome \/ Shutdown \/ (\E c \in 1..conn : Leave(c)) \/ UNCHANGED streamVars
  <2>1. /\ UNCHANGED <<published, inflight, conn, lost, crashed, buffers, chan, past, got, state, lastID>>
        /\ closed => closed'
    BY <1>6 DEF StoreOutcome, Shutdown, Close, Leave, Unsubscribe, streamVars, requestVars, hubVars, handlerVars
  <2>2. /\ Announced' = Announced /\ OutThere' = OutThere /\ Buffer(Req)' = Buffer(Req)
        /\ InFlight' = InFlight /\ FirstSound' = FirstSound
    BY <2>1 DEF Announced, OutThere, Buffer, InFlight, Pending, Recipients, FirstSound
  <2> QED BY <2>1, <2>2 DEF CoverInv, FirstConnectionComplete
<1> QED BY <1>1, <1>2, <1>3, <1>4, <1>5, <1>6, StreamCases

-----------------------------------------------------------------------------
(* The theorems.                                                           *)

(* The invariant holds before anything is published.                       *)
LEMMA StreamStarts == StreamInit => StreamInv
<1> SUFFICES ASSUME StreamInit PROVE StreamInv
  OBVIOUS
<1>1. /\ seq = 0 /\ buffers = <<>> /\ order = <<>> /\ chan = <<>> /\ closed = FALSE /\ shut = {}
      /\ subs = [k \in Keys |-> {}]
      /\ published = [p \in Publishers |-> 0] /\ inflight = [p \in Publishers |-> Idle]
      /\ saved = {} /\ stored = "running" /\ crashed = FALSE
      /\ state = "off" /\ conn = 0 /\ lastID = 0 /\ past = <<>> /\ got = {} /\ inConn = <<>>
      /\ lost = {}
  BY DEF StreamInit, HubInit, Keys
<1>2. ToSet(order) = {} /\ DOMAIN buffers = {} /\ DOMAIN chan = {} /\ 1..conn = {}
  BY <1>1 DEF ToSet
<1>3. HubTypes
  <2>1. order \in Seq(Keys)
    BY <1>1
  <2>2. buffers \in [ToSet(order) -> Seq(Events)] /\ chan \in [1..conn -> Seq(Events)]
    <3>1. buffers = [k \in {} |-> <<>>] /\ chan = [c \in {} |-> <<>>]
      BY <1>1
    <3>2. [k \in {} |-> <<>>] \in [{} -> Seq(Events)]
      OBVIOUS
    <3> QED BY <1>2, <3>1, <3>2
  <2>3. subs \in [Keys -> SUBSET (1..conn)] /\ \A k \in OtherKeys : subs[k] = {}
    BY <1>1 DEF Keys
  <2>4. seq \in Nat /\ closed \in BOOLEAN /\ shut \subseteq 1..conn
    BY <1>1
  <2>5. \A c \in 1..conn : Len(chan[c]) <= ChanCap
    BY <1>2
  <2> QED BY <2>1, <2>2, <2>3, <2>4, <2>5 DEF HubTypes
<1>4. Idle \in Flights /\ Idle.ev.id = 0 /\ Idle.ev.content = Done /\ Idle.to = {}
  BY StreamConstants DEF Idle, Flights
<1>5. WalkTypes
  <2>1. published \in [Publishers -> Nat] /\ \A p \in Publishers : published[p] = 0
    BY <1>1
  <2>2. inflight \in [Publishers -> Flights]
    BY <1>1, <1>4
  <2>3. \A p \in Branches \cup OtherKeys \cup {Main} : published[p] <= 1 /\ published[p] <= Steps
    BY <2>1, StreamConstants DEF Publishers
  <2>4. /\ saved \subseteq StepEvents /\ stored \in {"running", "finished", "update_failed"}
        /\ crashed \in BOOLEAN /\ lost \subseteq {"dropped", "forgotten", "early"}
    BY <1>1
  <2> QED BY <2>1, <2>2, <2>3, <2>4 DEF WalkTypes
<1>6. ClientTypes
  BY <1>1, StreamConstants DEF ClientTypes
<1>7. BuffersInv
  BY <1>1, <1>2, HubConstants DEF BuffersInv, IsInjective
<1>8. FlightsInv
  BY <1>1, <1>4, StreamConstants DEF FlightsInv
<1>9. \A p \in Publishers : Recipients(p) = {}
  BY <1>1, <1>4 DEF Recipients
<1>10. OnceInv
  BY <1>1, <1>9 DEF OnceInv, IsInjective, Rising, UpTo, Pending
<1>11. ChannelInv
  BY <1>1 DEF ChannelInv
<1>12. ProgressInv
  BY <1>1, <1>4, StreamConstants DEF ProgressInv, Announced, Publishers
<1>13. Buffer(Req) = <<>>
  BY <1>1, <1>2 DEF Buffer
<1>14. DoneInv
  BY <1>1, <1>13 DEF DoneInv, DoneLast, Told
<1>15. OutThere = {}
  BY <1>1, StreamConstants DEF OutThere
<1>16. CoverInv
  BY <1>1, <1>15 DEF CoverInv, FirstConnectionComplete
<1> QED BY <1>3, <1>5, <1>6, <1>7, <1>8, <1>10, <1>11, <1>12, <1>14, <1>16 DEF StreamInv

(* The invariant holds in every reachable state.                           *)
LEMMA StreamInvariant == StreamSpec => []StreamInv
<1>1. StreamInv /\ [StreamNext]_streamVars => StreamInv'
  <2> SUFFICES ASSUME StreamInv, [StreamNext]_streamVars PROVE StreamInv'
    OBVIOUS
  <2> USE DEF StreamInv
  <2>1. HubTypes' /\ BuffersInv'
    BY HubStep
  <2>2. WalkTypes' /\ FlightsInv'
    BY WalkStep
  <2>3. ClientTypes'
    BY ClientStep
  <2>4. OnceInv' /\ ChannelInv'
    BY OnceStep
  <2>5. ProgressInv'
    BY ProgressStep
  <2>6. DoneInv'
    BY DoneStep
  <2>7. CoverInv'
    BY CoverStep
  <2> QED BY <2>1, <2>2, <2>3, <2>4, <2>5, <2>6, <2>7
<1> QED BY <1>1, StreamStarts, PTL DEF StreamSpec

(* Events, channels, connections and the client's view have their types.   *)
THEOREM StreamTypes == StreamSpec => []StreamTypeOK
<1>1. ASSUME StreamInv PROVE StreamTypeOK
  <2>1. \A p \in Publishers : inflight[p] \in Flights
    BY <1>1 DEF StreamInv, WalkTypes
  <2>2. \A p \in Publishers : published[p] \in 0..Steps + 1 /\ inflight[p].to \subseteq 1..conn
    <3>1. \A p \in Publishers : inflight[p].to \subseteq 1..conn
      BY <2>1 DEF Flights
    <3>2. \A p \in Publishers : published[p] \in 0..Steps + 1
      BY <1>1, StreamConstants DEF StreamInv, WalkTypes, Publishers
    <3> QED BY <3>1, <3>2
  <2>3. /\ \A c \in DOMAIN chan : Len(chan[c]) <= ChanCap
        /\ UNION {subs[k] : k \in DOMAIN subs} \subseteq 1..conn
    BY <1>1 DEF StreamInv, HubTypes
  <2> QED BY <1>1, <2>2, <2>3 DEF StreamInv, HubTypes, WalkTypes, ClientTypes, Contents, StreamTypeOK
<1> QED BY <1>1, StreamInvariant, PTL

(* The hub keeps its bounds, a connection sees no event twice although the *)
(* replay and the channel are filled at different times, and an unbroken   *)
(* first connection sees every event: request_done overtakes no step.      *)
THEOREM TracesDelivered == StreamSpec => []Deliveries
<1>1. ASSUME StreamInv PROVE Deliveries
  <2>1. HubBounds
    <3>1. DOMAIN buffers = ToSet(order)
      BY <1>1 DEF StreamInv, HubTypes
    <3>2. ASSUME NEW k \in DOMAIN buffers
          PROVE  Len(buffers[k]) \in 1..MaxBuf /\ Ascending(Ids(buffers[k]))
      <4>1. Rising(buffers[k]) /\ Len(buffers[k]) \in 1..MaxBuf
        BY <1>1, <3>1, <3>2 DEF StreamInv, BuffersInv
      <4> QED BY <4>1 DEF Rising, Ascending, Ids
    <3> QED BY <1>1, <3>1, <3>2 DEF StreamInv, BuffersInv, HubBounds
  <2>2. OncePerConnection
    BY <1>1 DEF StreamInv, OnceInv, OncePerConnection
  <2>3. FirstConnectionComplete
    BY <1>1 DEF StreamInv, CoverInv
  <2> QED BY <2>1, <2>2, <2>3 DEF Deliveries
<1> QED BY <1>1, StreamInvariant, PTL

=============================================================================
