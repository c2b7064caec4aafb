----------------------------- MODULE SseStream -----------------------------
(***************************************************************************)
(* One request's live trace: the goroutines that publish its events        *)
(* (engine.Sink, the branches and finalize of internal/engine/engine.go),  *)
(* the hub (SseHub), the stored request, and a client that follows         *)
(* GET /api/v1/requests/{id}/events through handleRequestEvents of         *)
(* internal/httpd/sse.go, losing its connection and coming back with       *)
(* Last-Event-ID.                                                          *)
(*                                                                         *)
(* An event's content is <<publisher, n>>; the last one is Done.  A        *)
(* branch saves a step before it publishes it; finalize stores the outcome *)
(* before it publishes Done, and when the request's context has expired    *)
(* the store refuses the update and only a log line says so.               *)
(***************************************************************************)
EXTENDS SseHub

CONSTANTS
    Branches,     \* goroutines of the request's blocks
    Steps,        \* steps each of them publishes
    OtherKeys,    \* other requests, publishing once each
    MaxConnects   \* connections of the client

Main == "main"       \* the request's own goroutine, which runs finalize
Req == "request"     \* the hub key of the request

(* Goroutines and requests are told apart.                                 *)
ASSUME StreamAssumption ==
    /\ Steps \in Nat /\ MaxConnects \in Nat
    /\ Main \notin Branches \cup OtherKeys
    /\ Req \notin OtherKeys /\ Branches \cap OtherKeys = {}

Done == <<Main, 1>>  \* content of request_done
Publishers == Branches \cup {Main} \cup OtherKeys
StepEvents == Branches \X (1..Steps)

VARIABLES
    published,   \* publisher -> events it has published
    inflight,    \* publisher -> [ev, to, sent]: its event, the snapshot of the
                 \* subscribers, and those it has been sent to
    saved,       \* steps in the store
    stored,      \* the request's status in the store
    crashed,     \* a publisher sent on a closed channel
    state,       \* the client's handler: off, joined, replay, live, ended
    conn,        \* number of the client's latest connection
    lastID,      \* Last-Event-ID the client would send
    past,        \* replay the handler still has to write
    got,         \* contents the client has seen
    inConn,      \* ids it has seen in this connection
    lost         \* how events of the request got lost: "dropped" by a full
                 \* channel, "forgotten" by the buffer, "early" if before the
                 \* client first connected

handlerVars == <<state, conn, lastID, past, got, inConn>>
requestVars == <<published, inflight, saved, stored, crashed>>
streamVars == <<hubVars, requestVars, handlerVars, lost>>

Idle == [ev |-> [id |-> 0, content |-> Done], to |-> {}, sent |-> {}]

StreamInit ==
    /\ HubInit({Req} \cup OtherKeys)
    /\ published = [p \in Publishers |-> 0]
    /\ inflight = [p \in Publishers |-> Idle]
    /\ saved = {} /\ stored = "running" /\ crashed = FALSE
    /\ state = "off" /\ conn = 0 /\ lastID = 0 /\ past = <<>> /\ got = {} /\ inConn = <<>>
    /\ lost = {}

-----------------------------------------------------------------------------
(* Publishing.                                                             *)

Key(p) == IF p \in OtherKeys THEN p ELSE Req

SlipLateSnapshot(p) == IF inflight[p].ev.id = 0 THEN {} ELSE subs[Key(p)] \ inflight[p].sent

(* The recipients a publisher has still to send to.                        *)
Recipients(p) == inflight[p].to \ inflight[p].sent

(* A publisher is between the halves of Publish.                           *)
Sending(p) == Recipients(p) # {}

(* The buffered events of the request that Publish is about to forget.     *)
Forgets(k) ==
    \/ Req \in Evicted(k) \cap DOMAIN buffers
    \/ k = Req /\ Len(Buffer(Req)) = MaxBuf

(* Publish does nothing once the hub is closed.                            *)
Publish(p, content) ==
    /\ ~crashed /\ ~Sending(p)
    /\ published' = [published EXCEPT ![p] = @ + 1]
    /\ IF closed
       THEN UNCHANGED <<hubVars, inflight, lost>>
       ELSE /\ Enter(Key(p), content)
            /\ inflight' = [inflight EXCEPT ![p] =
                   [ev |-> [id |-> seq + 1, content |-> content], to |-> subs[Key(p)], sent |-> {}]]
            /\ lost' = lost \cup IF ~Forgets(Key(p)) THEN {}
                               ELSE {"forgotten"} \cup IF conn = 0 THEN {"early"} ELSE {}

(* SaveStep, then Publish(step_finished).                                  *)
PublishStep(b) ==
    /\ published[b] < Steps
    /\ Publish(b, <<b, published[b] + 1>>)
    /\ saved' = saved \cup {<<b, published[b] + 1>>}
    /\ UNCHANGED <<stored, crashed, handlerVars>>

PublishOther(k) ==
    /\ published[k] = 0
    /\ Publish(k, Done)
    /\ UNCHANGED <<saved, stored, crashed, handlerVars>>

SlipNoBarrier == TRUE

(* wg.Wait: the branches have returned, their events are sent.             *)
BranchesOver == \A b \in Branches : published[b] = Steps /\ ~Sending(b)

(* finalize: UpdateRequest, which fails once the context has expired.      *)
StoreOutcome ==
    /\ ~crashed /\ BranchesOver /\ stored = "running"
    /\ stored' \in {"finished", "update_failed"}
    /\ UNCHANGED <<hubVars, published, inflight, saved, crashed, handlerVars, lost>>

PublishRequestDone ==
    /\ stored # "running" /\ published[Main] = 0
    /\ Publish(Main, Done)
    /\ UNCHANGED <<saved, stored, crashed, handlerVars>>

(* A publisher sends to one of its recipients, or panics when Close has    *)
(* closed the channel since the snapshot.                                  *)
SendOne(p) ==
    /\ ~crashed
    /\ \E s \in Recipients(p) :
          /\ inflight' = [inflight EXCEPT ![p].sent = @ \cup {s}]
          /\ IF s \in shut
             THEN /\ crashed' = TRUE
                  /\ UNCHANGED <<hubVars, lost>>
             ELSE /\ Send(s, inflight[p].ev)
                  /\ lost' = lost \cup IF Drops(s) /\ s = conn THEN {"dropped"} ELSE {}
                  /\ UNCHANGED crashed
    /\ UNCHANGED <<published, saved, stored, handlerVars>>

-----------------------------------------------------------------------------
(* The client and its handler.                                             *)

(* The handler subscribes before it reads the request.                     *)
Connect ==
    /\ ~crashed /\ state = "off" /\ conn < MaxConnects
    /\ Subscribe(Req, conn + 1)
    /\ conn' = conn + 1
    /\ past' = Replay(Req, lastID)
    /\ inConn' = <<>>
    /\ state' = "joined"
    /\ UNCHANGED <<requestVars, lastID, got, lost>>

(* GetRequest: a finished request with nothing to replay is read from the  *)
(* store, then the stream is over.                                         *)
ReadRequest ==
    /\ ~crashed /\ state = "joined"
    /\ IF stored = "finished" /\ past = <<>>
       THEN /\ got' = got \cup saved \cup {Done}
            /\ state' = "ended"
       ELSE /\ state' = "replay"
            /\ UNCHANGED got
    /\ UNCHANGED <<hubVars, requestVars, conn, lastID, past, inConn, lost>>

(* Write one event to the client; request_done ends the stream.            *)
Write(ev) ==
    /\ got' = got \cup {ev.content}
    /\ lastID' = ev.id
    /\ inConn' = Append(inConn, ev.id)

SlipDoneGoesOn(ev, next) == next

StateAfter(ev, next) == IF ev.content = Done THEN "ended" ELSE next

WriteReplay ==
    /\ ~crashed /\ state = "replay"
    /\ IF past = <<>>
       THEN /\ state' = "live"
            /\ UNCHANGED <<past, got, lastID, inConn>>
       ELSE /\ Write(Head(past))
            /\ past' = Tail(past)
            /\ state' = StateAfter(Head(past), "replay")
    /\ UNCHANGED <<hubVars, requestVars, conn, lost>>

WriteLive ==
    /\ ~crashed /\ state = "live" /\ chan[conn] # <<>>
    /\ Write(Head(chan[conn]))
    /\ Receive(conn)
    /\ state' = StateAfter(Head(chan[conn]), "live")
    /\ UNCHANGED <<requestVars, conn, past, lost>>

(* The connection breaks.                                                  *)
Disconnect ==
    /\ ~crashed /\ state \in {"joined", "replay", "live"}
    /\ state' = "off"
    /\ past' = <<>>
    /\ UNCHANGED <<hubVars, requestVars, conn, lastID, got, inConn, lost>>

(* The handler finds its channel closed and drained.                       *)
HangUp ==
    /\ ~crashed /\ state = "live" /\ conn \in shut /\ chan[conn] = <<>>
    /\ state' = "off"
    /\ UNCHANGED <<hubVars, requestVars, conn, past, lastID, got, inConn, lost>>

(* The deferred unsub of a handler that has returned.                      *)
Leave(c) ==
    /\ ~crashed /\ c \in subs[Req]
    /\ c # conn \/ state \in {"off", "ended"}
    /\ Unsubscribe(Req, c)
    /\ UNCHANGED <<requestVars, handlerVars, lost>>

(* Shutdown.                                                               *)
Shutdown ==
    /\ ~crashed /\ ~closed
    /\ Close
    /\ UNCHANGED <<requestVars, handlerVars, lost>>

-----------------------------------------------------------------------------
Engine ==
    \/ \E b \in Branches : PublishStep(b)
    \/ \E k \in OtherKeys : PublishOther(k)
    \/ StoreOutcome \/ PublishRequestDone
    \/ \E p \in Publishers : SendOne(p)

Handler == Connect \/ ReadRequest \/ WriteReplay \/ WriteLive \/ HangUp

(* The request is over and nobody will follow it any more.                 *)
Finished ==
    /\ \/ crashed
       \/ /\ \A p \in Publishers : ~Sending(p)
          /\ published[Main] = 1
          /\ state = "ended" \/ conn = MaxConnects
    /\ UNCHANGED streamVars

StreamNext ==
    Engine \/ Handler \/ Disconnect \/ Shutdown \/ Finished \/ \E c \in 1..conn : Leave(c)

(* Goroutines run; connections need not break and the server need not stop.*)
StreamFairness ==
    /\ \A b \in Branches : WF_streamVars(PublishStep(b))
    /\ WF_streamVars(StoreOutcome) /\ WF_streamVars(PublishRequestDone)
    /\ \A p \in Publishers : WF_streamVars(SendOne(p))
    /\ WF_streamVars(Handler)

StreamSpec == StreamInit /\ [][StreamNext]_streamVars /\ StreamFairness

-----------------------------------------------------------------------------
(* Properties.                                                             *)

Ids(s) == [i \in DOMAIN s |-> s[i].id]
Ascending(s) == \A i, j \in DOMAIN s : i < j => s[i] < s[j]

StreamTypeOK ==
    /\ seq \in Nat /\ closed \in BOOLEAN /\ crashed \in BOOLEAN
    /\ lost \subseteq {"dropped", "forgotten", "early"}
    /\ state \in {"off", "joined", "replay", "live", "ended"}
    /\ stored \in {"running", "finished", "update_failed"}
    /\ saved \subseteq StepEvents /\ got \subseteq StepEvents \cup {Done}
    /\ conn \in 0..MaxConnects /\ lastID \in 0..seq
    /\ \A p \in Publishers : published[p] \in 0..Steps + 1 /\ inflight[p].to \subseteq 1..conn
    /\ \A c \in DOMAIN chan : Len(chan[c]) <= ChanCap
    /\ UNION {subs[k] : k \in DOMAIN subs} \subseteq 1..conn

(* The buffers stay within maxBuf and maxKeys, each in publication order,  *)
(* and the eviction queue names exactly the keys that have a buffer: a key *)
(* queued twice or never would pin or leak a buffer.                       *)
HubBounds ==
    /\ Len(order) <= MaxKeys /\ IsInjective(order)
    /\ DOMAIN buffers = ToSet(order)
    /\ \A k \in DOMAIN buffers : Len(buffers[k]) \in 1..MaxBuf /\ Ascending(Ids(buffers[k]))

(* Replay and channel never overlap: one connection sees an event once,    *)
(* although events are published while it subscribes, and on the channel   *)
(* they may arrive out of order.                                           *)
OncePerConnection == IsInjective(inConn)

(* sse.go: "late subscribers always receive the full trace", for a client  *)
(* whose first connection runs to the end, if no event was forgotten       *)
(* before it came or dropped by its channel: request_done overtakes no step.*)
FirstConnectionComplete ==
    state = "ended" /\ conn = 1 /\ lost \subseteq {"forgotten"} => got = StepEvents \cup {Done}

(* What one connection delivers, together.                                 *)
Deliveries == HubBounds /\ OncePerConnection /\ FirstConnectionComplete

(* A connection is over in the end: with request_done, because it broke,   *)
(* or because the hub closed.  Left out are a client whose channel dropped *)
(* an event (it may have been request_done), one whose request_done was    *)
(* forgotten when the store does not know the outcome either, and one that *)
(* subscribed after Close.                                                 *)
StreamEnds ==
    (state \in {"joined", "replay", "live"}) ~>
        (\/ state \in {"ended", "off"} \/ crashed
         \/ closed /\ conn \notin shut
         \/ "dropped" \in lost \/ ("forgotten" \in lost /\ stored = "update_failed"))

(* hub.go: the replay buffer lets "late subscribers (and reconnects)       *)
(* receive the full trace".                                                *)
ReconnectComplete == state = "ended" /\ lost = {} => got = StepEvents \cup {Done}

(* hub.go: delivery is "non-blocking to protect the engine".               *)
PublishNeverPanics == ~crashed

=============================================================================
