---------------------------- MODULE DriverCalls ----------------------------
(***************************************************************************)
(* Concurrent searches with one driver of internal/providers: building the *)
(* request, the access token shared by all instances of a credential       *)
(* (tokensource.go), the rate limit shared by all instances of a rate      *)
(* (limiter.go), the upstream calls and their replies (DriverResult).      *)
(*                                                                         *)
(* Time is counted in ticks of the fastest limit.  The limiter of          *)
(* golang.org/x/time/rate has a burst of 1: a wait reserves the next free  *)
(* moment, or fails at once when that is after the caller's deadline.      *)
(* A definition named Slip... is a plausible mistake in the definition     *)
(* after it.                                                               *)
(***************************************************************************)
EXTENDS DriverResult

CONSTANTS
    Callers, First,    \* concurrent searches; the one that comes with any driver
    Meeting,           \* the drivers whose searches share something
    Asks, FewAsks,     \* the instances and counts a search may come with; where searches meet
    FewReplies,        \* bound: the replies where searches meet
    NoOne,
    Timeout,           \* timeout_ms of the node, in ticks
    OwnEvery,          \* the interval of an instance's own max_rps
    MaxTime            \* bound: the clock

ASSUME CallsAssumption ==
    /\ First \in Callers /\ {Timeout, OwnEvery, MaxTime} \subseteq Nat
    /\ Asks \cup FewAsks \subseteq Instances \X Counts
    /\ \A code \in Meeting \cap Codes : FewReplies \subseteq RepliesTo[code]

VARIABLES
    driver,     \* the driver of the searches
    meet,       \* bound: several searches, or the first one alone
    call,       \* the searches
    free,       \* per interval: when its limiter is free again
    token,      \* the cached access token; 0 is none
    minted,     \* access tokens fetched so far
    lock,       \* who holds the token cache
    now

vars == <<driver, meet, call, free, token, minted, lock, now>>

D == Registry[driver]
Intervals == {0, 1, 2, OwnEvery}

(* Why a search ended: the driver refused, the token endpoint did ("token") *)
(* or was in trouble ("outage"), the call never came back readable        *)
(* ("lost"), the upstream was busy, or it answered.                         *)
Whys == {"none", "refused", "token", "outage", "lost", "busy", "answer"}

Idle ==
    [at |-> "idle", inst |-> CHOOSE i \in Instances : TRUE, sent |-> 0, deadline |-> 0,
     ready |-> 0, stage |-> 1, tok |-> 0, old |-> 0, calls |-> 0, told |-> 0,
     why |-> "none", result |-> Panic]

(* maxRPSParam, and PubMed's two rates: with an API key it is the faster. *)
Every(i) ==
    IF ~D.limits THEN 0
    ELSE IF i.ownRate THEN OwnEvery
    ELSE IF D.stages > 1 /\ i.given THEN 1
    ELSE D.every

(* Bound: one search alone comes with every instance and meets every reply *)
(* its driver can tell apart; searches that meet, with a few.              *)
Meets(c) == c = First \/ meet
AsksOf == IF meet THEN FewAsks ELSE Asks
RepliesOf == IF meet THEN FewReplies ELSE RepliesTo[driver]

At(c, l) == call[c].at = l

-----------------------------------------------------------------------------
(* A search ends: of what it held only its accounts are kept. *)
Ended(c, result, why, told) ==
    [Idle EXCEPT !.at = "done", !.inst = call[c].inst, !.calls = call[c].calls,
                 !.told = told, !.why = why, !.result = result]

(* The engine calls Search: the driver builds its request, or refuses. *)
Search(c, i, n) ==
    /\ At(c, "idle") /\ Meets(c) /\ now + Timeout =< MaxTime
    /\ call' = [call EXCEPT ![c] =
         IF Refuses(D, i)
         THEN [Idle EXCEPT !.at = "done", !.inst = i, !.result = Dead("api"),
                           !.why = "refused"]
         ELSE [Idle EXCEPT !.at = IF D.token = "never" THEN "wait" ELSE "token",
                           !.inst = i, !.sent = Sent(D, i, n),
                           !.deadline = now + Timeout]]
    /\ UNCHANGED <<driver, meet, free, token, minted, lock, now>>

-----------------------------------------------------------------------------
(* The access token *)

(* tokenCache.Token: under the lock, the cached token or a new one. *)
LockToken(c) ==
    /\ At(c, "token") /\ lock = NoOne
    /\ IF token # 0
       THEN /\ call' = [call EXCEPT ![c] = [call[c] EXCEPT !.at = "wait", !.tok = token]]
            /\ UNCHANGED lock
       ELSE /\ call' = [call EXCEPT ![c] = [call[c] EXCEPT !.at = "fetch"]]
            /\ lock' = c
    /\ UNCHANGED <<driver, meet, free, token, minted, now>>

FetchToken(c) ==
    /\ At(c, "fetch")
    /\ minted' = minted + 1 /\ token' = minted' /\ lock' = NoOne
    /\ call' = [call EXCEPT ![c] = [call[c] EXCEPT !.at = "wait", !.tok = minted']]
    /\ UNCHANGED <<driver, meet, free, now>>

(* A slip for the checks: the lock is not released when the fetch fails. *)
SlipKeepsLock(c) == UNCHANGED lock

ReleaseLock(c) == lock' = NoOne

(* The token endpoint refuses, or its trouble may pass: a lost connection,  *)
(* a timeout, an end of the search's context, a 5xx. Both drivers take each *)
(* of them for permanent.                                                   *)
FetchFails(c, why) ==
    /\ At(c, "fetch")
    /\ ReleaseLock(c)
    /\ call' = [call EXCEPT ![c] = Ended(c, Dead("api"), why, 0)]
    /\ UNCHANGED <<driver, meet, free, token, minted, now>>

(* The cached token reaches its expiry, 60 seconds early. *)
ExpireToken ==
    /\ token # 0 /\ lock = NoOne
    /\ token' = 0
    /\ UNCHANGED <<driver, meet, call, free, minted, lock, now>>

-----------------------------------------------------------------------------
(* The rate limit *)

(* PubMed reports each call of its own, the failed ones and those that the *)
(* limiter never let go included (get, ReportStage).                       *)
Told(c) == IF D.stages > 1 THEN call[c].told + 1 ELSE 0

(* A slip for the checks: every instance has a limiter of its own. *)
SlipOwnLimiter(i) == now

(* WaitLimit: the moment the limiter of this interval is free. *)
NextFree(i) == IF free[Every(i)] > now THEN free[Every(i)] ELSE now

WaitLimit(c) ==
    /\ At(c, "wait")
    /\ LET i == call[c].inst
           t == NextFree(i)
       IN IF Every(i) = 0 \/ t =< call[c].deadline
          THEN /\ call' = [call EXCEPT ![c] = [call[c] EXCEPT !.at = "ready", !.ready = t]]
               /\ free' = [free EXCEPT ![Every(i)] = t + Every(i)]
          ELSE /\ call' = [call EXCEPT ![c] = Ended(c, Failed("net"), "lost", Told(c))]
               /\ UNCHANGED free
    /\ UNCHANGED <<driver, meet, token, minted, lock, now>>

(* The request goes out when its moment has come. *)
Depart(c) ==
    /\ At(c, "ready") /\ now >= call[c].ready
    /\ call' = [call EXCEPT ![c] = [call[c] EXCEPT !.at = "call", !.calls = @ + 1]]
    /\ UNCHANGED <<driver, meet, free, token, minted, lock, now>>

(* The request's context is cancelled while it waits: the moment is given  *)
(* back unless a later one was given out meanwhile.                        *)
Leave(c, kind) ==
    /\ At(c, "ready") /\ Every(call[c].inst) > 0
    /\ LET e == Every(call[c].inst) IN
         free' = IF free[e] = call[c].ready + e
                 THEN [free EXCEPT ![e] = call[c].ready] ELSE free
    /\ call' = [call EXCEPT ![c] = Ended(c, Failed(kind), "lost", Told(c))]
    /\ UNCHANGED <<driver, meet, token, minted, lock, now>>

-----------------------------------------------------------------------------
(* The upstream *)

(* What a later attempt may well not meet: no reply, or none to be read,    *)
(* and the statuses of a busy upstream.                                     *)
Trouble(r) ==
    IF r.lost # "no" \/ (r.status = 200 /\ ~r.json) THEN "lost"
    ELSE IF r.status \in {429, 503, 520} /\ r.mark = "no" THEN "busy"
    ELSE "answer"

(* A slip for the checks: the rejected token stays in the cache. *)
SlipKeepsToken == UNCHANGED token

Invalidate == token' = 0

(* Vertex AI Search: the first 401 drops the cached token and starts again. *)
Reauthenticates(c, r) ==
    D.token = "call" /\ call[c].old = 0 /\ r.lost = "no" /\ r.status = 401

Reject(c, r) ==
    /\ At(c, "call") /\ Reauthenticates(c, r) /\ lock = NoOne
    /\ Invalidate
    /\ call' = [call EXCEPT ![c] =
         [call[c] EXCEPT !.at = "token", !.old = call[c].tok, !.tok = 0]]
    /\ UNCHANGED <<driver, meet, free, minted, lock, now>>

(* A slip for the checks: a stage is reported when it went well. *)
SlipReportsSuccess(c, next) == IF next = More THEN Told(c) ELSE call[c].told

Reported(c, next) == Told(c)

(* Any other reply ends the search, or a stage of it. *)
Reply(c, r) ==
    /\ At(c, "call") /\ ~Reauthenticates(c, r)
    /\ LET next == IF D.stages > 1
                   THEN StageOutcome(D, call[c].inst, r, call[c].stage)
                   ELSE Outcome(D, call[c].inst, r)
       IN call' = [call EXCEPT ![c] =
            IF next = More
            THEN [call[c] EXCEPT !.at = "wait", !.stage = @ + 1, !.told = Reported(c, next)]
            ELSE Ended(c, next, Trouble(r), Reported(c, next))]
    /\ UNCHANGED <<driver, meet, free, token, minted, lock, now>>

Tick ==
    /\ now < MaxTime
    /\ now' = now + 1
    /\ UNCHANGED <<driver, meet, call, free, token, minted, lock>>

-----------------------------------------------------------------------------
Init ==
    /\ driver \in Codes /\ meet \in BOOLEAN /\ (meet => driver \in Meeting)
    /\ call = [c \in Callers |-> Idle]
    /\ free = [e \in Intervals |-> 0]
    /\ token = 0 /\ minted = 0 /\ lock = NoOne /\ now = 0

Next ==
    \/ \E c \in Callers :
        \/ \E ask \in AsksOf : Search(c, ask[1], ask[2])
        \/ LockToken(c) \/ FetchToken(c)
        \/ \E why \in {"token", "outage"} : FetchFails(c, why)
        \/ WaitLimit(c) \/ Depart(c)
        \/ \E kind \in {"net", "timeout"} : Leave(c, kind)
        \/ \E r \in RepliesOf : Reject(c, r) \/ Reply(c, r)
    \/ ExpireToken
    \/ Tick

(* A goroutine runs on and time passes; of an upstream or a token endpoint *)
(* only the timeout of the HTTP client that asks it is certain.            *)
Runs(c) ==
    \/ LockToken(c) \/ FetchFails(c, "outage") \/ WaitLimit(c) \/ Depart(c)
    \/ Reply(c, Lost("timeout"))

Fairness == WF_vars(Tick) /\ \A c \in Callers : WF_vars(Runs(c))

Spec == Init /\ [][Next]_vars /\ Fairness

-----------------------------------------------------------------------------
(* Properties *)

(* Types; the results are those the engine can take (NodeRun), or the      *)
(* driver has panicked.                                                    *)
TypeOK ==
    /\ driver \in Codes /\ meet \in BOOLEAN
    /\ \A c \in Callers :
         /\ call[c].at \in {"idle", "token", "fetch", "wait", "ready", "call", "done"}
         /\ call[c].inst \in Instances
         /\ call[c].sent \in 0 .. Huge
         /\ call[c].result \in Results \cup {Panic}
         /\ call[c].why \in Whys
         /\ call[c].stage \in 1 .. D.stages
    /\ token \in 0 .. minted
    /\ lock \in Callers \cup {NoOne}
    /\ now \in 0 .. MaxTime

(* Whether the result of a search fits the trouble it ended with. *)
Fits(why, inst, result) ==
    /\ why \in {"lost", "outage"} => (result.permanent <=> why = "outage")
    /\ why = "busy" /\ driver # "serpbase" /\ ~inst.ownCodes => ~result.permanent

(* A search that lost its connection, ran into a timeout, a deadline of the *)
(* limiter or an unreadable body is never a permanent failure, whatever the *)
(* driver and the instance; nor is 429 or any 5xx, listed or not            *)
(* (httpclient.go:168), except for an instance that lists codes of its own  *)
(* and for SerpBase, which takes a 5xx it does not list for permanent. The  *)
(* same trouble at a token endpoint, though, always ends the search for     *)
(* good (vertex_search.go:91,98; rest.go:32).                               *)
TroubleClassified ==
    \A c \in Callers : Fits(call[c].why, call[c].inst, call[c].result)

(* The engine charges the attempt budget one step per search, or as many   *)
(* as the stages it is told of: PubMed tells of every call it made, also   *)
(* of those that failed. Only Vertex AI Search calls twice for one charge. *)
CallsAreCharged ==
    \A c \in Callers :
        /\ At(c, "done") /\ D.token # "call" =>
              call[c].calls =< IF call[c].told > 1 THEN call[c].told ELSE 1
        /\ call[c].calls =< IF D.token = "call" THEN 2 ELSE D.stages
        /\ call[c].told =< call[c].calls + 1

(* Limits of the upstream: the count stays below it unless an instance     *)
(* sets its own (Perplexity's limit is in the table only), and the moments *)
(* one limiter gives out lie an interval apart whoever holds them.         *)
UpstreamLimits ==
    /\ \A c \in Callers :
         (~call[c].inst.ownCount /\ D.cap # NoCap /\ driver # "perplexity")
             => call[c].sent =< D.cap
    /\ \A a, b \in Callers :
         LET e == Every(call[a].inst)
         IN (/\ a # b /\ e > 0 /\ Every(call[b].inst) = e
             /\ {call[a].at, call[b].at} \subseteq {"ready", "call"})
                => call[a].ready + e =< call[b].ready \/ call[b].ready + e =< call[a].ready

(* After a 401 the search goes on with a token it has not seen rejected,   *)
(* whatever the other searches do to the cache meanwhile.                  *)
RetryUsesAnotherToken ==
    \A c \in Callers : call[c].old # 0 => call[c].tok # call[c].old

(* Every search ends: no wait for the limiter, for the token's lock or for *)
(* the upstream lasts for ever.                                            *)
EverySearchEnds == \A c \in Callers : ~At(c, "idle") ~> At(c, "done")

(* Claimed by the Provider interface (provider.go:155): Search classifies  *)
(* the outcome. You.com's panics on an object without results.             *)
EveryOutcomeIsClassified ==
    \A c \in Callers : At(c, "done") => call[c].result # Panic

=============================================================================
