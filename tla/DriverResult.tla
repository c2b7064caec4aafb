---------------------------- MODULE DriverResult ----------------------------
(***************************************************************************)
(* What a driver of DriverTable sends and how it classifies a reply.       *)
(*                                                                         *)
(* An instance is the configuration an administrator saved: whether what   *)
(* the driver needs is filled in, whether it lists HTTP codes of its own,  *)
(* whether it sets the count, its own rate limit.  An upstream's own quota *)
(* counters and the Retry-After header only lengthen the engine's delays.  *)
(***************************************************************************)
EXTENDS DriverTable

Instances == [given: BOOLEAN, ownCodes: BOOLEAN, ownCount: BOOLEAN, ownRate: BOOLEAN]
Counts == {0, 5, Huge}              \* unset, small, beyond every limit
Statuses == {200, 400, 401, 422, 429, 503, 520}
Marks == {"no", "soft", "hard", "void"}

(* fatal_http and retry_http_codes of an instance that sets them. *)
FatalHTTP(d, i) == IF i.ownCodes THEN {503} ELSE d.fatal
RetryHTTP(d, i) == IF i.ownCodes THEN {422} ELSE d.retry

-----------------------------------------------------------------------------
(* The request *)

(* A slip for the checks: the limit is off by the whole. *)
SlipUncapped(d, n) == n

Capped(d, n) == IF d.count = "capped" /\ d.cap # NoCap /\ n > d.cap THEN d.cap ELSE n

(* The count that is sent, 0 when none is: the one of an instance is huge. *)
Sent(d, i, n) ==
    IF d.count = "none" THEN 0
    ELSE IF d.over /\ i.ownCount THEN Huge
    ELSE Capped(d, n)

(* The driver refuses to build a request. *)
Refuses(d, i) == d.need = "impossible" \/ (d.need = "something" /\ ~i.given)

-----------------------------------------------------------------------------
(* Results: the kinds of provider.go; rows and answer are whether there are any. *)

Kinds == {"ok", "empty", "api", "http", "net", "timeout", "read", "json"}

(* What execNode (NodeRun) relies on: a failure brings nothing, a success  *)
(* is never permanent, and a success of kind ok may still have no row.     *)
Results ==
    {r \in [ok: BOOLEAN, kind: Kinds, permanent: BOOLEAN, rows: BOOLEAN, answer: BOOLEAN] :
        /\ r.ok <=> r.kind \in {"ok", "empty"}
        /\ r.ok => ~r.permanent
        /\ ~r.ok => ~r.rows /\ ~r.answer}

Failed(kind) ==
    [ok |-> FALSE, kind |-> kind, permanent |-> FALSE, rows |-> FALSE, answer |-> FALSE]
Panic == Failed("panic")   \* the driver's code fails: no result at all
Dead(kind) == [Failed(kind) EXCEPT !.permanent = TRUE]
Success(kind, rows, answer) ==
    [ok |-> TRUE, kind |-> kind, permanent |-> FALSE, rows |-> rows, answer |-> answer]

-----------------------------------------------------------------------------
(* Replies *)

(* lost: the transport failed; the rest is meaningless then. *)
Lost(how) ==
    [lost |-> how, status |-> 0, json |-> FALSE, mark |-> "no", wait |-> FALSE,
     list |-> FALSE, item |-> {}, text |-> FALSE]

Text(status) == [Lost("no") EXCEPT !.status = status]

(* Error bodies and successes; a list has one item, or none has a link. *)
Objects(d) ==
    [lost: {"no"}, status: {429, 520}, json: {TRUE}, mark: Marks,
     wait: {FALSE, d.throttles}, list: {FALSE}, item: {{}}, text: {FALSE}]
    \cup
    [lost: {"no"}, status: {200}, json: {TRUE}, mark: Marks, wait: {FALSE, d.throttles},
     list: BOOLEAN, item: SUBSET (d.links \ {Built}), text: {FALSE, d.answers # "none"}]

Replies(d) ==
    {Lost(how) : how \in {"net", "timeout", "cut"}} \cup {Text(s) : s \in Statuses}
        \cup Objects(d)

RepliesTo == [code \in Codes |-> Replies(Registry[code])]

-----------------------------------------------------------------------------
(* Classification *)

(* A slip for the checks: only the listed codes are retried. *)
SlipListedOnly(status, codes) == status \notin codes

(* HTTPClassify: a status the driver does not list is permanent below 500. *)
HTTPClassify(status, codes) == status \notin codes /\ status < 500

(* SerpBase counts a status without its own code only when it is listed. *)
SerpBasePermanent(d, i, r) ==
    \/ r.status \in FatalHTTP(d, i)
    \/ IF r.mark = "no" THEN r.status \notin RetryHTTP(d, i) ELSE r.mark = "hard"

PermanentStatus(d, i, r) ==
    CASE d.http = "classify" ->
           r.status \in FatalHTTP(d, i) \/ HTTPClassify(r.status, RetryHTTP(d, i))
      [] d.http = "noFatal" -> HTTPClassify(r.status, RetryHTTP(d, i))
      [] d.http = "fatalOnly" -> r.status \in FatalHTTP(d, i)
      [] d.http = "serpbase" -> SerpBasePermanent(d, i, r)
      [] d.http = "never" -> FALSE

BadStatus(d, i, r) ==
    LET kind == IF d.http = "serpbase" /\ r.mark # "no" /\ r.status \notin FatalHTTP(d, i)
                THEN "api" ELSE "http"
    IN IF PermanentStatus(d, i, r) THEN Dead(kind) ELSE Failed(kind)

(* What the error marker of a body does. ap_retry_codes: an instance of    *)
(* ApiSerpent without a list of codes retries every error.                 *)
Effect(d, i, r) ==
    LET e == CASE r.mark = "no" -> "ignored"
               [] r.mark = "soft" -> d.soft
               [] r.mark = "hard" -> d.hard
               [] r.mark = "void" -> d.void
    IN IF e = "apiIfMissing" THEN IF r.list THEN "ignored" ELSE "api"
       ELSE IF d.http = "noFatal" /\ e = "permanent" /\ ~i.ownCodes THEN "api"
       ELSE e

HasRow(d, r) == r.list /\ (r.item # {} \/ Built \in d.links)

(* A body of status 2xx that is a JSON object. *)
OfBody(d, i, r) ==
    LET e == Effect(d, i, r)
        rows == HasRow(d, r) /\ e # "norows"
        answer == d.answers # "none" /\ r.text
    IN CASE d.missing = "panic" /\ ~r.list -> Panic
         [] d.missing = "json" /\ ~r.list /\ e = "ignored" -> Failed("json")
         [] e = "api" -> Failed("api")
         [] e = "permanent" -> Dead("api")
         [] e = "empty" -> Success("empty", FALSE, FALSE)
         [] e \in {"ignored", "norows"} ->
              Success(IF answer \/ (rows /\ d.answers # "needed") THEN "ok" ELSE d.zero, rows, answer)

(* A wait the body asks for fails the attempt unless the answer is good too. *)
Throttled(d, r) ==
    d.throttles /\ r.json /\ r.wait /\ (r.status # 200 \/ r.mark # "no")

Outcome(d, i, r) ==
    CASE r.lost = "cut" -> Failed(d.cut)
      [] r.lost \in {"net", "timeout"} -> Failed(r.lost)
      [] r.lost = "no" ->
           IF Throttled(d, r) THEN Failed("api")
           ELSE IF r.status # 200 THEN BadStatus(d, i, r)
           ELSE IF ~r.json THEN Failed("json")
           ELSE OfBody(d, i, r)

-----------------------------------------------------------------------------
(* PubMed's calls: ids, then their summaries, then perhaps the abstracts.  *)
(* json says of each body that it parses as what the stage expects.        *)

More == Failed("more")     \* no result yet

OfIds(r) ==
    IF r.mark # "no" THEN Failed("api")
    ELSE IF ~r.list THEN Success("empty", FALSE, FALSE) ELSE More

(* A slip for the checks: abstracts are fetched whether asked for or not. *)
SlipAlwaysAbstracts(d, r) ==
    CASE r.mark # "no" -> Failed("json")
      [] r.mark = "no" /\ ~r.list -> Success("empty", FALSE, FALSE)
      [] r.mark = "no" /\ r.list -> More

(* No result block is a fault, a block without ids is empty, ids without a *)
(* document are a success without rows, which needs no abstracts.          *)
OfSummaries(d, r) ==
    CASE r.mark # "no" -> Failed("json")
      [] r.mark = "no" /\ ~r.list -> Success("empty", FALSE, FALSE)
      [] r.mark = "no" /\ r.list ->
           IF d.stages = 3 /\ HasRow(d, r) THEN More
           ELSE Success("ok", HasRow(d, r), FALSE)

OfAbstracts(r) == IF r.mark # "no" THEN Failed("api") ELSE Success("ok", TRUE, FALSE)

(* classifyStage, then the stage's own reading of the body. *)
StageOutcome(d, i, r, stage) ==
    IF r.lost # "no" \/ r.status # 200 \/ ~r.json THEN Outcome(d, i, r)
    ELSE CASE stage = 1 -> OfIds(r)
           [] stage = 2 -> OfSummaries(d, r)
           [] stage = 3 -> OfAbstracts(r)

=============================================================================
