---------------------------- MODULE DriverProofs ----------------------------
(***************************************************************************)
(* Safety of the concurrent searches of one driver, proved for every       *)
(* driver of the table, number of searches and bound on the attempts.      *)
(*                                                                         *)
(*   SearchTypes           the type invariant                              *)
(*   PermanenceFits        which trouble ends a search for good            *)
(*   ChargedCalls          every upstream call is charged to the budget    *)
(*   RetriesWithAnotherToken  a retry uses another token than the rejected *)
(*   LimitsKept            the result count and the rate of the upstream   *)
(*                                                                         *)
(* Lemma Table, that every entry of the table is Sane, is what the first   *)
(* three need of the drivers; the last two come from the token cache and   *)
(* the rate limiter the searches share.                                    *)
(***************************************************************************)
EXTENDS DriverCalls, TLAPS

-----------------------------------------------------------------------------
(* The table of drivers.                                                   *)

Effects == {"ignored", "norows", "api", "permanent", "empty", "apiIfMissing"}

(* What the classification of replies relies on in an entry of the table;  *)
(* only PubMed has stages, and it needs no access token.                   *)
Sane(d) ==
    /\ d.cap \in 0 .. Huge /\ d.every \in {0, 1, 2} /\ d.stages \in {1, 2, 3}
    /\ d.count \in {"capped", "raw", "none"}
    /\ d.cut \in {"read", "net"} /\ d.zero \in {"ok", "empty"}
    /\ {d.soft, d.hard, d.void} \subseteq Effects
    /\ d.http \in {"classify", "noFatal", "fatalOnly", "serpbase", "never"}
    /\ 429 \in d.retry /\ 429 \notin d.fatal /\ 503 \notin d.fatal /\ 520 \notin d.fatal
    /\ d.stages > 1 => d.token = "never"

(* The entry of a code: SerpBase alone has its own rule for statuses, and  *)
(* Perplexity alone a limit that it does not keep to.                      *)
Entry(code, d) ==
    /\ Sane(d)
    /\ d.http = "serpbase" => code = "serpbase"
    /\ d.cap = NoCap \/ d.count # "raw" \/ code = "perplexity"

(* The drivers of the table of rest.go: web search ...                     *)
LEMMA WebSearch ==
    \A code \in {"brave", "serper", "serpapi", "searchapi", "dataforseo", "youcom",
                "jina", "firecrawl", "mojeek", "marginalia", "tavily", "exa",
                "linkup", "perplexity", "valyu", "parallel", "ollama"} :
        Entry(code, Registry[code])
<1>1. /\ Registry["brave"] = Brave /\ Registry["serper"] = Serper
      /\ Registry["serpapi"] = SerpApi /\ Registry["searchapi"] = SearchApi
      /\ Registry["dataforseo"] = DataForSEO /\ Registry["youcom"] = YouCom
      /\ Registry["jina"] = Jina /\ Registry["firecrawl"] = Firecrawl
      /\ Registry["mojeek"] = Mojeek /\ Registry["marginalia"] = Marginalia
      /\ Registry["tavily"] = Tavily /\ Registry["exa"] = Exa /\ Registry["linkup"] = Linkup
      /\ Registry["perplexity"] = Perplexity /\ Registry["valyu"] = Valyu
      /\ Registry["parallel"] = Parallel /\ Registry["ollama"] = Ollama
  BY DEF Registry
<1>2. /\ Entry("brave", Brave) /\ Entry("serper", Serper) /\ Entry("serpapi", SerpApi)
      /\ Entry("searchapi", SearchApi) /\ Entry("dataforseo", DataForSEO)
      /\ Entry("youcom", YouCom) /\ Entry("jina", Jina) /\ Entry("firecrawl", Firecrawl)
      /\ Entry("mojeek", Mojeek) /\ Entry("marginalia", Marginalia)
      /\ Entry("tavily", Tavily) /\ Entry("exa", Exa) /\ Entry("linkup", Linkup)
      /\ Entry("perplexity", Perplexity) /\ Entry("valyu", Valyu)
      /\ Entry("parallel", Parallel) /\ Entry("ollama", Ollama)
  BY DEF Entry, Sane, Effects, Rest, Fixed, NoCap, Huge, Fatal, Retryable, Brave, Serper,
         SerpApi, SearchApi, DataForSEO, YouCom, Jina, Firecrawl, Mojeek, Marginalia,
         Tavily, Exa, Linkup, Perplexity, Valyu, Parallel, Ollama
<1> QED BY <1>1, <1>2

(* ... papers, code, and private indexes.                                  *)
LEMMA Libraries ==
    \A code \in {"kagi", "kagi_fastgpt", "openalex", "semanticscholar", "crossref",
                "github", "hn", "stackexchange", "azure_search", "azure_entra",
                "vectara", "kendra"} :
        Entry(code, Registry[code])
<1>1. /\ Registry["kagi"] = Kagi("search") /\ Registry["kagi_fastgpt"] = Kagi("fastgpt")
      /\ Registry["openalex"] = OpenAlex /\ Registry["semanticscholar"] = SemanticScholar
      /\ Registry["crossref"] = Crossref /\ Registry["github"] = GitHub
      /\ Registry["hn"] = HackerNews /\ Registry["stackexchange"] = StackExchange
      /\ Registry["azure_search"] = AzureSearch("api_key")
      /\ Registry["azure_entra"] = AzureSearch("aad") /\ Registry["vectara"] = Vectara
      /\ Registry["kendra"] = Kendra
  BY DEF Registry
<1>2. /\ Entry("kagi", Kagi("search")) /\ Entry("kagi_fastgpt", Kagi("fastgpt"))
      /\ Entry("openalex", OpenAlex) /\ Entry("semanticscholar", SemanticScholar)
      /\ Entry("crossref", Crossref) /\ Entry("github", GitHub) /\ Entry("hn", HackerNews)
      /\ Entry("stackexchange", StackExchange)
      /\ Entry("azure_search", AzureSearch("api_key"))
      /\ Entry("azure_entra", AzureSearch("aad")) /\ Entry("vectara", Vectara)
      /\ Entry("kendra", Kendra)
  BY DEF Entry, Sane, Effects, Rest, Fixed, NoCap, Huge, Fatal, Retryable, Kagi,
         OpenAlex, SemanticScholar, Crossref, GitHub, HackerNews, StackExchange,
         AzureSearch, Vectara, Kendra
<1> QED BY <1>1, <1>2

(* The drivers with a Search of their own.                                 *)
LEMMA OwnCode ==
    \A code \in {"apiserpent", "serpbase", "searxng", "google_cse", "deepseek_search",
                "kimi_search", "kimi_search_pro", "anthropic", "yandex", "yandex_gen",
                "google_vertex", "google", "vertex_search", "pubmed",
                "pubmed_abstracts"} :
        Entry(code, Registry[code])
<1>1. /\ Registry["apiserpent"] = ApiSerpent /\ Registry["serpbase"] = SerpBase
      /\ Registry["searxng"] = SearXNG /\ Registry["google_cse"] = GoogleCSE
      /\ Registry["deepseek_search"] = DeepSeek /\ Registry["kimi_search"] = KimiSearch
      /\ Registry["kimi_search_pro"] = KimiSearchPro /\ Registry["anthropic"] = Anthropic
      /\ Registry["yandex"] = Yandex /\ Registry["yandex_gen"] = YandexGen
      /\ Registry["google_vertex"] = Gemini /\ Registry["google"] = VertexSearch
      /\ Registry["vertex_search"] = VertexSearch /\ Registry["pubmed"] = PubMed(FALSE)
      /\ Registry["pubmed_abstracts"] = PubMed(TRUE)
  BY DEF Registry, GoogleVertex, Google
<1>2. /\ Entry("apiserpent", ApiSerpent) /\ Entry("serpbase", SerpBase)
      /\ Entry("searxng", SearXNG) /\ Entry("google_cse", GoogleCSE)
      /\ Entry("deepseek_search", DeepSeek) /\ Entry("kimi_search", KimiSearch)
      /\ Entry("kimi_search_pro", KimiSearchPro) /\ Entry("anthropic", Anthropic)
      /\ Entry("yandex", Yandex) /\ Entry("yandex_gen", YandexGen)
      /\ Entry("google_vertex", Gemini) /\ Entry("google", VertexSearch)
      /\ Entry("vertex_search", VertexSearch) /\ Entry("pubmed", PubMed(FALSE))
      /\ Entry("pubmed_abstracts", PubMed(TRUE))
  BY DEF Entry, Sane, Effects, Rest, Fixed, NoCap, Huge, Fatal, Retryable, Unlimited,
         ApiSerpent, SerpBase, SearXNG, GoogleCSE, DeepSeek, KimiSearch, KimiSearchPro,
         Anthropic, Yandex, YandexGen, Gemini, VertexSearch, PubMed
<1> QED BY <1>1, <1>2

(* Every entry of the table is sound.                                      *)
LEMMA Table == \A code \in Codes : Entry(code, Registry[code])
<1>1. Codes =
        {"brave", "serper", "serpapi", "searchapi", "dataforseo", "youcom", "jina",
         "firecrawl", "mojeek", "marginalia", "tavily", "exa", "linkup", "perplexity",
         "valyu", "parallel", "ollama", "kagi", "kagi_fastgpt", "openalex",
         "semanticscholar", "crossref", "github", "hn", "stackexchange",
         "azure_search", "azure_entra", "vectara", "kendra", "apiserpent", "serpbase",
         "searxng", "google_cse", "deepseek_search", "kimi_search", "kimi_search_pro",
         "anthropic", "yandex", "yandex_gen", "google_vertex", "google",
         "vertex_search", "pubmed", "pubmed_abstracts"}
  BY DEF Codes, Registry
<1> QED BY <1>1, WebSearch, Libraries, OwnCode

-----------------------------------------------------------------------------
(* Replies, and what the drivers make of them.                             *)

GoodReply(r) ==
    /\ r.lost \in {"no", "net", "timeout", "cut"} /\ r.mark \in Marks
    /\ r.list \in BOOLEAN /\ r.text \in BOOLEAN /\ r.status \in Nat

LEMMA ReplyType == \A code \in Codes : \A r \in RepliesTo[code] : GoodReply(r)
<1> SUFFICES ASSUME NEW code \in Codes, NEW r \in RepliesTo[code]
             PROVE  GoodReply(r)
  OBVIOUS
<1> DEFINE d == Registry[code]
<1>1. r \in Replies(d)
  BY DEF RepliesTo
<1> HIDE DEF d
<1>2. ASSUME NEW how \in {"net", "timeout", "cut"}
      PROVE  GoodReply(Lost(how))
  BY DEF Lost, GoodReply, Marks
<1>3. ASSUME NEW s \in Statuses
      PROVE  GoodReply(Text(s))
  BY DEF Lost, Text, GoodReply, Marks, Statuses
<1>4. ASSUME r \in Objects(d)
      PROVE  GoodReply(r)
  <2>1. /\ r.lost = "no" /\ r.status \in {429, 520, 200} /\ r.mark \in Marks
        /\ r.list \in {FALSE} \cup BOOLEAN
        /\ r.text \in {FALSE} \cup {FALSE, d.answers # "none"}
    BY <1>4, Zenon DEF Objects
  <2>2. r.list \in BOOLEAN /\ r.text \in BOOLEAN
    BY <2>1
  <2> QED BY <2>1, <2>2 DEF GoodReply
<1> QED BY <1>1, <1>2, <1>3, <1>4 DEF Replies

LEMMA FailureTypes ==
    ASSUME NEW kind \in Kinds \ {"ok", "empty"}
    PROVE  /\ Failed(kind) \in Results /\ ~Failed(kind).permanent
           /\ Dead(kind) \in Results
BY DEF Failed, Dead, Results, Kinds

LEMMA SuccessTypes ==
    ASSUME NEW kind \in {"ok", "empty"}, NEW rows \in BOOLEAN, NEW answer \in BOOLEAN
    PROVE  Success(kind, rows, answer) \in Results
BY DEF Success, Results, Kinds

LEMMA NoResults ==
    /\ More \notin Results /\ Panic \notin Results /\ More # Panic
    /\ \A r \in Results : r.permanent \in BOOLEAN
BY DEF More, Panic, Failed, Results, Kinds

LEMMA BodyType ==
    ASSUME NEW d, Sane(d), NEW i \in Instances, NEW r, GoodReply(r)
    PROVE  OfBody(d, i, r) \in Results \cup {Panic}
<1>1. Effect(d, i, r) \in {"ignored", "norows", "api", "permanent", "empty"}
  BY DEF Effect, Sane, Effects, GoodReply, Marks
<1> DEFINE e == Effect(d, i, r)
           rows == HasRow(d, r) /\ e # "norows"
           answer == d.answers # "none" /\ r.text
           kind == IF answer \/ (rows /\ d.answers # "needed") THEN "ok" ELSE d.zero
<1>2. rows \in BOOLEAN /\ answer \in BOOLEAN
  BY DEF HasRow, GoodReply
<1>3. kind \in {"ok", "empty"}
  BY DEF Sane
<1>4. OfBody(d, i, r) \in
         {Panic, Failed("json"), Failed("api"), Dead("api"), Success("empty", FALSE, FALSE),
          Success(kind, rows, answer)}
  BY <1>1 DEF OfBody
<1>5. Success(kind, rows, answer) \in Results /\ Success("empty", FALSE, FALSE) \in Results
  <2> HIDE DEF kind, rows, answer
  <2> QED BY <1>2, <1>3, SuccessTypes
<1> QED BY <1>4, <1>5, FailureTypes DEF Kinds

LEMMA StatusFails ==
    ASSUME NEW d, NEW i, NEW r
    PROVE  BadStatus(d, i, r) \in {Dead("api"), Dead("http"), Failed("api"), Failed("http")}
BY DEF BadStatus

LEMMA OutcomeType ==
    ASSUME NEW d, Sane(d), NEW i \in Instances, NEW r, GoodReply(r)
    PROVE  Outcome(d, i, r) \in Results \cup {Panic} /\ Outcome(d, i, r) # More
<1>1. \/ Outcome(d, i, r) \in {Failed(d.cut), Failed("net"), Failed("timeout"), Failed("api"),
                               Failed("json")}
      \/ Outcome(d, i, r) = BadStatus(d, i, r)
      \/ Outcome(d, i, r) = OfBody(d, i, r)
  BY DEF Outcome, GoodReply
<1>2. d.cut \in {"read", "net"}
  BY DEF Sane
<1>3. Outcome(d, i, r) \in Results \cup {Panic}
  BY <1>1, <1>2, BodyType, StatusFails, FailureTypes DEF Kinds
<1> QED BY <1>3, NoResults

LEMMA StageType ==
    ASSUME NEW d, Sane(d), NEW i \in Instances, NEW r, GoodReply(r), NEW stage \in 1 .. d.stages
    PROVE  /\ StageOutcome(d, i, r, stage) \in Results \cup {Panic, More}
           /\ StageOutcome(d, i, r, stage) = More /\ d.stages > 1 => stage < d.stages
<1>1. stage \in {1, 2, 3} /\ d.stages \in {1, 2, 3}
  BY DEF Sane
<1>2. CASE r.lost # "no" \/ r.status # 200 \/ ~r.json
  BY <1>2, OutcomeType DEF StageOutcome
<1>3. CASE ~(r.lost # "no" \/ r.status # 200 \/ ~r.json)
  <2>1. HasRow(d, r) \in BOOLEAN
    BY DEF HasRow, GoodReply
  <2>2. Success("empty", FALSE, FALSE) \in Results /\ Success("ok", HasRow(d, r), FALSE) \in Results
        /\ Success("ok", TRUE, FALSE) \in Results
    BY <2>1, SuccessTypes
  <2>3. OfIds(r) \in {Failed("api"), Success("empty", FALSE, FALSE), More}
    BY DEF OfIds
  <2>4. /\ OfSummaries(d, r) \in {Failed("json"), Success("empty", FALSE, FALSE), More,
                                  Success("ok", HasRow(d, r), FALSE)}
        /\ OfSummaries(d, r) = More => d.stages = 3
    BY <2>2, NoResults, FailureTypes DEF OfSummaries, GoodReply, Kinds
  <2>5. OfAbstracts(r) \in {Failed("api"), Success("ok", TRUE, FALSE)}
    BY DEF OfAbstracts
  <2>6. Failed("api") \in Results /\ Failed("json") \in Results
    BY FailureTypes DEF Kinds
  <2>7. stage = 1 => StageOutcome(d, i, r, stage) = OfIds(r)
    BY <1>3 DEF StageOutcome
  <2>8. stage = 2 => StageOutcome(d, i, r, stage) = OfSummaries(d, r)
    BY <1>3 DEF StageOutcome
  <2>9. stage = 3 => StageOutcome(d, i, r, stage) = OfAbstracts(r)
    BY <1>3 DEF StageOutcome
  <2>10. StageOutcome(d, i, r, stage) \in Results \cup {Panic, More}
    BY <1>1, <2>2, <2>3, <2>4, <2>5, <2>6, <2>7, <2>8, <2>9
  <2>11. stage = 3 => StageOutcome(d, i, r, stage) # More
    BY <2>2, <2>5, <2>6, <2>9, NoResults
  <2>12. stage = 2 /\ StageOutcome(d, i, r, stage) = More => d.stages = 3
    BY <2>4, <2>8
  <2> QED BY <1>1, <2>10, <2>11, <2>12
<1> QED BY <1>2, <1>3

(* Trouble of the upstream that may pass is not permanent.                 *)
LEMMA TroubleFails ==
    ASSUME NEW d, Sane(d), NEW i \in Instances, NEW r, GoodReply(r), NEW stage,
           Trouble(r) \in {"lost", "busy"},
           Trouble(r) = "busy" => d.http # "serpbase" /\ ~i.ownCodes
    PROVE  /\ ~Outcome(d, i, r).permanent
           /\ StageOutcome(d, i, r, stage) = Outcome(d, i, r)
<1>1. StageOutcome(d, i, r, stage) = Outcome(d, i, r)
  BY DEF StageOutcome, Trouble
<1>2. \A kind \in {"read", "net", "timeout", "api", "json", "http"} : ~Failed(kind).permanent
  BY DEF Failed
<1>3. ASSUME r.lost # "no"
      PROVE  ~Outcome(d, i, r).permanent
  BY <1>2, <1>3 DEF Outcome, GoodReply, Sane
<1>4. ASSUME r.lost = "no", r.status = 200, ~r.json
      PROVE  ~Outcome(d, i, r).permanent
  <2>1. Outcome(d, i, r) = Failed("json")
    BY <1>4 DEF Outcome, Throttled
  <2> QED BY <1>2, <2>1
<1>5. ASSUME r.lost = "no", r.status \in {429, 503, 520}, r.mark = "no",
             d.http # "serpbase", ~i.ownCodes
      PROVE  ~Outcome(d, i, r).permanent
  <2>1. ~PermanentStatus(d, i, r)
    <3>1. r.status \notin d.fatal /\ (r.status < 500 => r.status \in d.retry)
      BY <1>5 DEF Sane
    <3>2. FatalHTTP(d, i) = d.fatal /\ RetryHTTP(d, i) = d.retry
      BY <1>5 DEF FatalHTTP, RetryHTTP
    <3>3. ~HTTPClassify(r.status, RetryHTTP(d, i))
      BY <1>5, <3>1, <3>2 DEF HTTPClassify
    <3>4. r.status \notin FatalHTTP(d, i)
      BY <3>1, <3>2
    <3>5. d.http \in {"classify", "noFatal", "fatalOnly", "never"}
      BY <1>5 DEF Sane
    <3> QED BY <3>3, <3>4, <3>5 DEF PermanentStatus
  <2>2. BadStatus(d, i, r) \in {Failed("api"), Failed("http")}
    BY <2>1 DEF BadStatus
  <2>3. Outcome(d, i, r) \in {Failed("api"), Failed("http")}
    BY <1>5, <2>2 DEF Outcome
  <2> QED BY <1>2, <2>3
<1> QED BY <1>1, <1>3, <1>4, <1>5 DEF Trouble, GoodReply

-----------------------------------------------------------------------------
(* A search, and how the steps change it.                                  *)

CallType ==
    [at : {"idle", "token", "fetch", "wait", "ready", "call", "done"}, inst : Instances,
     sent : 0 .. Huge, deadline : Nat, ready : Nat, stage : {1, 2, 3}, tok : Nat, old : Nat,
     calls : Nat, told : Nat, why : Whys, result : Results \cup {Panic}]

LEMMA IdleType ==
    /\ Idle \in CallType
    /\ Idle.at = "idle" /\ Idle.sent = 0 /\ Idle.stage = 1 /\ Idle.tok = 0 /\ Idle.old = 0
    /\ Idle.calls = 0 /\ Idle.told = 0 /\ Idle.why = "none" /\ Idle.result = Panic
<1>1. (CHOOSE i \in Instances : TRUE) \in Instances
  <2>1. [given |-> TRUE, ownCodes |-> TRUE, ownCount |-> TRUE, ownRate |-> TRUE] \in Instances
    BY DEF Instances
  <2> QED BY <2>1
<1> QED BY <1>1 DEF Idle, CallType, Whys, Huge

(* What is true of a search k at all times.                                *)

Stays(k) == k \in CallType /\ k.stage <= D.stages

Fitting(k) == Fits(k.why, k.inst, k.result)

(* PubMed counts its stages as calls; the others make one call, and        *)
(* Vertex AI Search one more after a rejected token.                       *)
StagesCounted(k) ==
    /\ k.at \in {"wait", "ready"} => k.calls = k.stage - 1 /\ k.told = k.calls
    /\ k.at = "call" => k.calls = k.stage /\ k.told = k.calls - 1
    /\ k.calls <= D.stages /\ k.told <= k.calls + 1
    /\ k.at = "done" => k.calls <= 1 \/ k.calls <= k.told

Retries(k) == IF k.old = 0 THEN 0 ELSE 1
CallCounted(k) ==
    /\ k.told = 0
    /\ k.at = "idle" => k.calls = 0
    /\ k.at \in {"token", "fetch", "wait", "ready"} => k.calls = Retries(k)
    /\ k.at = "call" => k.calls = Retries(k) + 1
    /\ k.calls <= IF D.token = "call" THEN 2 ELSE 1

Charged(k) ==
    /\ k.at \in {"token", "fetch"} => D.token # "never"
    /\ k.old # 0 => D.token = "call"
    /\ IF D.stages > 1 THEN StagesCounted(k) ELSE CallCounted(k)

WithinCap(k) ==
    (~k.inst.ownCount /\ D.cap # NoCap /\ driver # "perplexity") => k.sent <= D.cap

(* A rejected token is none of the tokens that are in use.                 *)
TokensOf(k) ==
    /\ k.tok <= minted /\ k.old <= minted
    /\ k.old # 0 => k.tok # k.old /\ token # k.old
    /\ D.token = "call" /\ k.at \in {"wait", "ready", "call"} => k.tok # 0

Good(k) == Stays(k) /\ Fitting(k) /\ Charged(k) /\ WithinCap(k) /\ TokensOf(k)

Globals ==
    /\ driver \in Codes /\ meet \in BOOLEAN /\ (meet => driver \in Meeting)
    /\ token \in Nat /\ minted \in Nat /\ token <= minted
    /\ lock \in Callers \cup {NoOne}
    /\ now \in 0 .. MaxTime
    /\ free \in [Intervals -> Nat]

SearchInv == Globals /\ call \in [Callers -> CallType] /\ \A c \in Callers : Good(call[c])

LEMMA Entries ==
    ASSUME Globals
    PROVE  /\ Entry(driver, D) /\ Sane(D) /\ D.stages \in {1, 2, 3}
           /\ D.cap \in 0 .. Huge /\ D.cap \in Nat
<1>1. Entry(driver, D) /\ Sane(D)
  BY Table DEF Globals, D, Entry
<1>2. \A n \in 0 .. Huge : n \in Nat
  BY DEF Huge
<1> QED BY <1>1, <1>2 DEF Sane

(* A step that leaves the cached token, drops it, or fetches a new one.    *)
TokenMoves ==
    /\ UNCHANGED <<driver, meet>>
    /\ \/ token' \in {0, token} /\ minted' = minted
       \/ minted' = minted + 1 /\ token' = minted'

LEMMA OthersGood ==
    ASSUME Globals, TokenMoves, NEW k, Good(k)
    PROVE  Good(k)'
<1>1. D' = D /\ driver' = driver
  BY DEF D, TokenMoves
<1>2. Stays(k)' /\ Fitting(k)' /\ Charged(k)' /\ WithinCap(k)'
  BY <1>1 DEF Good, Stays, Fitting, Fits, Charged, StagesCounted, CallCounted, Retries, WithinCap,
              CallType, Intervals
<1>3. k.tok \in Nat /\ k.old \in Nat
  BY DEF Good, Stays, CallType
<1>4. TokensOf(k)'
  BY <1>1, <1>3 DEF Good, TokensOf, TokenMoves, Globals
<1> QED BY <1>2, <1>4 DEF Good

LEMMA OneMoves ==
    ASSUME SearchInv, TokenMoves, Globals', NEW c \in Callers, NEW k,
           call' = [call EXCEPT ![c] = k], Good(k)'
    PROVE  SearchInv'
<1>1. k \in CallType
  BY DEF Good, Stays, CallType
<1>2. call' \in [Callers -> CallType] /\ call'[c] = k
      /\ \A b \in Callers : b # c => call'[b] = call[b]
  BY <1>1 DEF SearchInv
<1>3. \A b \in Callers : b # c => Good(call[b])'
  <2>1. \A x : Good(x) => Good(x)'
    BY OthersGood DEF SearchInv
  <2> QED BY <2>1 DEF SearchInv
<1> QED BY <1>1, <1>2, <1>3 DEF SearchInv, CallType

-----------------------------------------------------------------------------
(* Each step keeps its search good.                                        *)

LEMMA OutcomeOf ==
    ASSUME SearchInv, NEW c \in Callers, NEW r \in RepliesOf
    PROVE  /\ GoodReply(r)
           /\ Outcome(D, call[c].inst, r) \in Results \cup {Panic}
           /\ Outcome(D, call[c].inst, r) # More
           /\ StageOutcome(D, call[c].inst, r, call[c].stage) \in Results \cup {Panic, More}
           /\ D.stages > 1 /\ StageOutcome(D, call[c].inst, r, call[c].stage) = More
                => call[c].stage < D.stages
<1>1. GoodReply(r)
  <2>1. r \in RepliesTo[driver]
    BY CallsAssumption DEF RepliesOf, SearchInv, Globals
  <2> QED BY <2>1, ReplyType DEF SearchInv, Globals
<1>2. call[c].inst \in Instances
  BY DEF SearchInv, CallType
<1>3. Sane(D)
  BY Entries DEF SearchInv
<1>4. call[c].stage \in 1 .. D.stages
  <2>1. call[c].stage \in {1, 2, 3} /\ call[c].stage <= D.stages
    BY DEF SearchInv, Good, Stays, CallType
  <2> QED BY <1>3, <2>1 DEF Sane
<1> QED BY <1>1, <1>2, <1>3, <1>4, OutcomeType, StageType

LEMMA SearchGood ==
    ASSUME SearchInv, NEW c \in Callers, NEW ask \in AsksOf, Search(c, ask[1], ask[2])
    PROVE  SearchInv'
<1>1. Globals' /\ TokenMoves
  BY DEF Search, SearchInv, Globals, TokenMoves, Intervals
<1>2. ask[1] \in Instances /\ ask[2] \in Counts
  BY CallsAssumption DEF AsksOf
<1>3. ask[2] \in 0 .. Huge /\ D.cap \in 0 .. Huge
  BY <1>2, Entries DEF SearchInv, Counts, Huge
<1> DEFINE sent == Sent(D, ask[1], ask[2])
<1>4. sent \in {0, Huge, ask[2], D.cap}
  BY DEF Sent, Capped
<1>10. sent \in 0 .. Huge
  BY <1>3, <1>4 DEF Huge
<1>11. ~ask[1].ownCount /\ D.cap # NoCap /\ driver # "perplexity" => sent <= D.cap
  <2> SUFFICES ASSUME ~ask[1].ownCount, D.cap # NoCap, driver # "perplexity"
               PROVE  sent <= D.cap
    OBVIOUS
  <2>1. D.count # "raw"
    BY Entries DEF SearchInv, Entry
  <2>2. sent = 0 \/ sent = Capped(D, ask[2])
    BY DEF Sent
  <2>3. D.count = "capped" => Capped(D, ask[2]) <= D.cap
    BY <1>3 DEF Capped
  <2>4. D.count \in {"capped", "none"}
    BY <2>1, Entries DEF SearchInv, Sane
  <2>5. D.count = "none" => sent = 0
    BY DEF Sent
  <2> QED BY <1>3, <2>2, <2>3, <2>4, <2>5
<1> DEFINE Refused == [Idle EXCEPT !.at = "done", !.inst = ask[1], !.result = Dead("api"),
                                   !.why = "refused"]
           Started == [Idle EXCEPT !.at = IF D.token = "never" THEN "wait" ELSE "token",
                                   !.inst = ask[1], !.sent = Sent(D, ask[1], ask[2]),
                                   !.deadline = now + Timeout]
<1>5. Dead("api") \in Results
  BY FailureTypes DEF Kinds
<1>6. D' = D /\ driver' = driver /\ UNCHANGED <<token, minted>>
  BY DEF Search, D
<1>7. ASSUME NEW k, k = Refused
      PROVE  Good(k)'
  <2>1. /\ k \in CallType /\ k.stage = 1 /\ k.why = "refused"
        /\ k.at = "done" /\ k.old = 0 /\ k.told = 0 /\ k.calls = 0
        /\ k.sent = 0 /\ k.tok = 0
    BY <1>2, <1>5, <1>7, IdleType DEF CallType, Whys
  <2> HIDE DEF Refused
  <2> QED BY <1>6, <2>1, Entries DEF SearchInv, Globals, Good, Stays, Fitting, Fits, Charged,
             StagesCounted, CallCounted, Retries, WithinCap, TokensOf, CallType
<1>8. ASSUME NEW k, k = Started
      PROVE  Good(k)'
  <2>1. now + Timeout \in Nat
    BY CallsAssumption DEF SearchInv, Globals
  <2>2. /\ k \in CallType /\ k.stage = 1 /\ k.why = "none"
        /\ k.at = (IF D.token = "never" THEN "wait" ELSE "token")
        /\ k.old = 0 /\ k.told = 0 /\ k.calls = 0
        /\ k.sent = sent /\ k.tok = 0 /\ k.inst = ask[1]
    BY <1>2, <1>8, <1>10, <2>1, IdleType DEF CallType
  <2> HIDE DEF Started, sent
  <2>3. D.stages \in {1, 2, 3} /\ (D.stages > 1 => D.token = "never") /\ minted \in Nat
    BY Entries DEF SearchInv, Sane, Globals
  <2>4. Stays(k)' /\ Fitting(k)'
    BY <1>6, <2>2, <2>3 DEF Stays, Fitting, Fits, CallType
  <2>5. Charged(k)'
    BY <1>6, <2>2, <2>3 DEF Charged, StagesCounted, CallCounted, Retries
  <2>6. WithinCap(k)'
    BY <1>6, <1>11, <2>2 DEF WithinCap
  <2>7. TokensOf(k)'
    BY <1>6, <2>2, <2>3 DEF TokensOf
  <2> QED BY <2>4, <2>5, <2>6, <2>7 DEF Good
<1>9. PICK k : (k = Refused \/ k = Started) /\ call' = [call EXCEPT ![c] = k]
  BY DEF Search
<1> HIDE DEF Refused, Started
<1> QED BY <1>1, <1>7, <1>8, <1>9, OneMoves

(* A search that ends well accounted for.                                  *)
LEMMA EndsGood ==
    ASSUME SearchInv, Globals', TokenMoves, NEW c \in Callers,
           NEW result \in Results \cup {Panic}, NEW why \in Whys, NEW told \in Nat,
           call' = [call EXCEPT ![c] = Ended(c, result, why, told)],
           Fits(why, call[c].inst, result),
           IF D.stages > 1
           THEN told <= call[c].calls + 1 /\ (call[c].calls <= 1 \/ call[c].calls <= told)
           ELSE told = 0
    PROVE  SearchInv'
<1> DEFINE was == call[c]
<1>1. was \in CallType /\ Good(was)
  BY DEF SearchInv
<1>2. D' = D /\ driver' = driver
  BY DEF TokenMoves, D
<1>3. PICK k : k = Ended(c, result, why, told)
  OBVIOUS
<1>4. /\ k \in CallType /\ k.at = "done" /\ k.inst = was.inst /\ k.calls = was.calls
      /\ k.told = told /\ k.why = why /\ k.result = result
      /\ k.sent = 0 /\ k.stage = 1 /\ k.tok = 0 /\ k.old = 0
  BY <1>1, <1>3, IdleType DEF Ended, CallType
<1>5. D.stages \in {1, 2, 3} /\ D.cap \in Nat /\ minted' \in Nat
  BY Entries DEF SearchInv, Globals
<1>6. Stays(k)' /\ WithinCap(k)' /\ TokensOf(k)'
  <2>1. Stays(k)'
    BY <1>2, <1>4, <1>5 DEF Stays, CallType
  <2>2. WithinCap(k)'
    <3>1. 0 <= D.cap
      BY <1>5
    <3> QED BY <1>2, <1>4, <3>1 DEF WithinCap
  <2>3. TokensOf(k)'
    BY <1>4, <1>5 DEF TokensOf
  <2> QED BY <2>1, <2>2, <2>3
<1>7. Fitting(k)'
  BY <1>2, <1>4 DEF Fitting, Fits
<1>8. was.calls \in Nat
  BY <1>1 DEF CallType
<1>9. Charged(k)'
  <2>1. Charged(was)
    BY <1>1 DEF Good
  <2> HIDE DEF was
  <2>2. CASE D.stages > 1
    BY <1>2, <1>4, <1>8, <2>1, <2>2 DEF Charged, StagesCounted, was
  <2>3. CASE ~(D.stages > 1)
    BY <1>2, <1>4, <1>8, <2>1, <2>3 DEF Charged, CallCounted, was
  <2> QED BY <2>2, <2>3
<1>10. Good(k)'
  BY <1>6, <1>7, <1>9 DEF Good
<1> QED BY <1>3, <1>10, OneMoves

(* What PubMed is told of its calls covers them.                           *)
LEMMA ToldCovers ==
    ASSUME SearchInv, NEW c \in Callers, call[c].at \in {"wait", "ready", "call"}
    PROVE  /\ Told(c) \in Nat
           /\ IF D.stages > 1
              THEN Told(c) <= call[c].calls + 1 /\ call[c].calls <= Told(c)
              ELSE Told(c) = 0
<1> DEFINE was == call[c]
<1>1. was.told \in Nat /\ was.calls \in Nat /\ was.stage \in Nat /\ Charged(was)
      /\ D.stages \in {1, 2, 3}
  BY Entries DEF SearchInv, CallType, Good
<1>2. Told(c) = IF D.stages > 1 THEN was.told + 1 ELSE 0
  BY DEF Told
<1> HIDE DEF was
<1> QED BY <1>1, <1>2 DEF Charged, StagesCounted, was

(* A search that moves on without a call, a token or a count.              *)
LEMMA MovesGood ==
    ASSUME SearchInv, Globals', TokenMoves, NEW c \in Callers, NEW k,
           k \in CallType,
           k.inst = call[c].inst, k.sent = call[c].sent, k.stage = call[c].stage,
           k.old = call[c].old, k.told = call[c].told, k.why = call[c].why,
           k.result = call[c].result,
           TokensOf(k)', Charged(k)',
           call' = [call EXCEPT ![c] = k]
    PROVE  SearchInv'
<1>1. Good(call[c])
  BY DEF SearchInv
<1>2. D' = D /\ driver' = driver
  BY DEF TokenMoves, D
<1>3. Stays(k)' /\ Fitting(k)' /\ WithinCap(k)'
  BY <1>1, <1>2 DEF Good, Stays, Fitting, Fits, WithinCap, CallType
<1> QED BY <1>3, OneMoves DEF Good

LEMMA LockGood ==
    ASSUME SearchInv, NEW c \in Callers, LockToken(c)
    PROVE  SearchInv'
<1> DEFINE was == call[c]
<1>1. Globals' /\ TokenMoves
  BY DEF LockToken, SearchInv, Globals, TokenMoves, Intervals
<1>2. was \in CallType /\ Good(was) /\ was.at = "token" /\ token \in Nat /\ token <= minted
  BY DEF LockToken, SearchInv, At, Globals
<1>3. D' = D /\ UNCHANGED <<token, minted>>
  BY DEF LockToken, D
<1>4. ~(D.stages > 1)
  BY <1>2, Entries DEF SearchInv, Good, Charged, Sane
<1>5. CASE token # 0
  <2>1. PICK k : k = [was EXCEPT !.at = "wait", !.tok = token]
    OBVIOUS
  <2>2. /\ k \in CallType /\ k.at = "wait" /\ k.tok = token
        /\ k.inst = was.inst /\ k.sent = was.sent /\ k.stage = was.stage /\ k.old = was.old
        /\ k.told = was.told /\ k.why = was.why /\ k.result = was.result /\ k.calls = was.calls
    BY <1>2, <2>1 DEF CallType
  <2>3. TokensOf(k)'
    BY <1>2, <1>3, <1>5, <2>2 DEF Good, TokensOf
  <2>4. Charged(k)'
    BY <1>2, <1>3, <1>4, <2>2 DEF Good, Charged, CallCounted, Retries
  <2>5. call' = [call EXCEPT ![c] = k]
    BY <1>5, <2>1 DEF LockToken
  <2> QED BY <1>1, <2>2, <2>3, <2>4, <2>5, MovesGood
<1>6. CASE token = 0
  <2>1. PICK k : k = [was EXCEPT !.at = "fetch"]
    OBVIOUS
  <2>2. /\ k \in CallType /\ k.at = "fetch" /\ k.tok = was.tok
        /\ k.inst = was.inst /\ k.sent = was.sent /\ k.stage = was.stage /\ k.old = was.old
        /\ k.told = was.told /\ k.why = was.why /\ k.result = was.result /\ k.calls = was.calls
    BY <1>2, <2>1 DEF CallType
  <2>3. TokensOf(k)'
    BY <1>2, <1>3, <2>2 DEF Good, TokensOf
  <2>4. Charged(k)'
    BY <1>2, <1>3, <1>4, <2>2 DEF Good, Charged, CallCounted, Retries
  <2>5. call' = [call EXCEPT ![c] = k]
    BY <1>6, <2>1 DEF LockToken
  <2> QED BY <1>1, <2>2, <2>3, <2>4, <2>5, MovesGood
<1> QED BY <1>5, <1>6

LEMMA FetchGood ==
    ASSUME SearchInv, NEW c \in Callers, NEW why \in {"token", "outage"},
           FetchToken(c) \/ FetchFails(c, why)
    PROVE  SearchInv'
<1> DEFINE was == call[c]
<1>1. Globals' /\ TokenMoves
  BY DEF FetchToken, FetchFails, ReleaseLock, SearchInv, Globals, TokenMoves, Intervals
<1>2. was \in CallType /\ Good(was) /\ was.at = "fetch" /\ minted \in Nat
  BY DEF FetchToken, FetchFails, SearchInv, At, Globals
<1>3. D' = D
  BY DEF FetchToken, FetchFails, D
<1>4. ~(D.stages > 1)
  BY <1>2, Entries DEF SearchInv, Good, Charged, Sane
<1>5. CASE FetchToken(c)
  <2>1. PICK t \in Nat : t = minted + 1
    BY <1>2
  <2>7. PICK k : k = [was EXCEPT !.at = "wait", !.tok = t]
    OBVIOUS
  <2>2. /\ k \in CallType /\ k.at = "wait" /\ k.tok = t
        /\ k.inst = was.inst /\ k.sent = was.sent /\ k.stage = was.stage /\ k.old = was.old
        /\ k.told = was.told /\ k.why = was.why /\ k.result = was.result /\ k.calls = was.calls
    BY <1>2, <2>7 DEF CallType
  <2>3. minted' = t /\ token' = t
    BY <1>5, <2>1 DEF FetchToken
  <2>4. TokensOf(k)'
    <3>1. was.old \in Nat /\ was.old <= minted
      BY <1>2 DEF CallType, Good, TokensOf
    <3> QED BY <1>2, <1>3, <2>1, <2>2, <2>3, <3>1 DEF TokensOf
  <2>5. Charged(k)'
    BY <1>2, <1>3, <1>4, <2>2 DEF Good, Charged, CallCounted, Retries
  <2>6. call' = [call EXCEPT ![c] = k]
    BY <1>5, <2>3, <2>7 DEF FetchToken
  <2> QED BY <1>1, <2>2, <2>4, <2>5, <2>6, MovesGood
<1>6. CASE FetchFails(c, why)
  <2>1. call' = [call EXCEPT ![c] = Ended(c, Dead("api"), why, 0)]
    BY <1>6 DEF FetchFails
  <2>2. Dead("api") \in Results /\ why \in Whys /\ Dead("api").permanent
    BY FailureTypes DEF Kinds, Whys, Dead, Failed
  <2>3. Fits(why, was.inst, Dead("api"))
    BY <2>2 DEF Fits
  <2> QED BY <1>1, <1>4, <2>1, <2>2, <2>3, EndsGood
<1> QED BY <1>5, <1>6

(* The limiter: what it gives out are times.                               *)
LEMMA Rates ==
    ASSUME Globals, NEW i \in Instances
    PROVE  /\ Every(i) \in Intervals /\ Every(i) \in Nat /\ now \in Nat
           /\ free[Every(i)] \in Nat /\ NextFree(i) \in Nat
           /\ free[Every(i)] <= NextFree(i)
<1>1. D.every \in {0, 1, 2} /\ OwnEvery \in Nat /\ now \in Nat
  BY Entries, CallsAssumption DEF Globals, Sane
<1>2. Every(i) \in {0, 1, OwnEvery, D.every}
  BY DEF Every
<1>3. Every(i) \in Intervals /\ Every(i) \in Nat
  BY <1>1, <1>2 DEF Intervals
<1>4. free[Every(i)] \in Nat
  BY <1>3 DEF Globals
<1> QED BY <1>1, <1>3, <1>4 DEF NextFree

LEMMA FreeType ==
    ASSUME Globals, NEW e, NEW t \in Nat, free' = [free EXCEPT ![e] = t],
           UNCHANGED <<driver, meet, token, minted, lock, now>>
    PROVE  Globals' /\ TokenMoves
BY DEF Globals, TokenMoves, Intervals

LEMMA WaitGood ==
    ASSUME SearchInv, NEW c \in Callers, WaitLimit(c)
    PROVE  SearchInv'
<1> DEFINE was == call[c]
           e == Every(was.inst)
<1>1. was \in CallType /\ Good(was) /\ was.at = "wait" /\ was.inst \in Instances
  BY DEF WaitLimit, SearchInv, At, CallType
<1>2. UNCHANGED <<driver, meet, token, minted, lock, now>>
  BY DEF WaitLimit
<1>3. PICK t \in Nat : t = NextFree(was.inst)
  BY <1>1, Rates DEF SearchInv
<1>4. PICK u \in Nat : u = t + e
  BY <1>1, <1>3, Rates DEF SearchInv
<1>5. CASE e = 0 \/ t <= was.deadline
  <2>1. free' = [free EXCEPT ![e] = u]
    BY <1>3, <1>4, <1>5 DEF WaitLimit
  <2>2. Globals' /\ TokenMoves
    BY <1>2, <2>1, FreeType DEF SearchInv
  <2>3. PICK k : k = [was EXCEPT !.at = "ready", !.ready = t]
    OBVIOUS
  <2>4. /\ k \in CallType /\ k.at = "ready" /\ k.tok = was.tok
        /\ k.inst = was.inst /\ k.sent = was.sent /\ k.stage = was.stage /\ k.old = was.old
        /\ k.told = was.told /\ k.why = was.why /\ k.result = was.result /\ k.calls = was.calls
    BY <1>1, <2>3 DEF CallType
  <2>5. D' = D
    BY <1>2 DEF D
  <2>6. TokensOf(k)' /\ Charged(k)'
    BY <1>1, <1>2, <2>4, <2>5 DEF Good, TokensOf, Charged, StagesCounted, CallCounted, Retries
  <2>7. call' = [call EXCEPT ![c] = k]
    BY <1>3, <1>5, <2>3 DEF WaitLimit
  <2> QED BY <2>2, <2>4, <2>6, <2>7, MovesGood
<1>6. CASE ~(e = 0 \/ t <= was.deadline)
  <2>1. /\ call' = [call EXCEPT ![c] = Ended(c, Failed("net"), "lost", Told(c))]
        /\ UNCHANGED free
    BY <1>3, <1>6 DEF WaitLimit
  <2>2. Globals' /\ TokenMoves
    BY <1>2, <2>1 DEF SearchInv, Globals, TokenMoves, Intervals
  <2>3. Failed("net") \in Results /\ ~Failed("net").permanent /\ "lost" \in Whys
    BY FailureTypes DEF Kinds, Whys
  <2>4. Fits("lost", was.inst, Failed("net"))
    BY <2>3 DEF Fits
  <2> QED BY <1>1, <2>1, <2>2, <2>3, <2>4, ToldCovers, EndsGood
<1> QED BY <1>5, <1>6

LEMMA DepartGood ==
    ASSUME SearchInv, NEW c \in Callers, Depart(c)
    PROVE  SearchInv'
<1> DEFINE was == call[c]
<1>1. was \in CallType /\ Good(was) /\ was.at = "ready" /\ was.calls \in Nat
  BY DEF Depart, SearchInv, At, CallType
<1>2. UNCHANGED <<driver, meet, free, token, minted, lock, now>>
  BY DEF Depart
<1>3. Globals' /\ TokenMoves /\ D' = D
  BY <1>2 DEF SearchInv, Globals, TokenMoves, Intervals, D
<1>4. PICK n \in Nat : n = was.calls + 1
  BY <1>1
<1>5. PICK k : k = [was EXCEPT !.at = "call", !.calls = n]
  OBVIOUS
<1>6. /\ k \in CallType /\ k.at = "call" /\ k.tok = was.tok /\ k.calls = n
      /\ k.inst = was.inst /\ k.sent = was.sent /\ k.stage = was.stage /\ k.old = was.old
      /\ k.told = was.told /\ k.why = was.why /\ k.result = was.result
  BY <1>1, <1>5 DEF CallType
<1>7. TokensOf(k)'
  BY <1>1, <1>2, <1>3, <1>6 DEF Good, TokensOf
<1>8. was.stage \in Nat /\ was.told \in Nat /\ was.stage <= D.stages /\ D.stages \in {1, 2, 3}
  BY <1>1, Entries DEF CallType, Good, Stays, SearchInv
<1>9. Charged(was)
  BY <1>1 DEF Good
<1> HIDE DEF was
<1>10. Charged(k)'
  BY <1>1, <1>3, <1>4, <1>6, <1>8, <1>9 DEF Charged, StagesCounted, CallCounted, Retries
<1>11. call' = [call EXCEPT ![c] = k]
  BY <1>4, <1>5 DEF Depart, was
<1> QED BY <1>3, <1>6, <1>7, <1>10, <1>11, MovesGood DEF was

LEMMA LeaveGood ==
    ASSUME SearchInv, NEW c \in Callers, NEW kind \in {"net", "timeout"}, Leave(c, kind)
    PROVE  SearchInv'
<1> DEFINE e == Every(call[c].inst)
<1>1. call[c].at = "ready" /\ call[c].ready \in Nat
  BY DEF Leave, At, SearchInv, CallType
<1>2. free' = [free EXCEPT ![e] = call[c].ready] \/ free' = free
  BY DEF Leave
<1>3. UNCHANGED <<driver, meet, token, minted, lock, now>>
  BY DEF Leave
<1>4. Globals' /\ TokenMoves
  <2>1. CASE free' = [free EXCEPT ![e] = call[c].ready]
    BY <1>1, <1>3, <2>1, FreeType DEF SearchInv
  <2>2. CASE free' = free
    BY <1>3, <2>2 DEF SearchInv, Globals, TokenMoves, Intervals
  <2> QED BY <1>2, <2>1, <2>2
<1>5. call' = [call EXCEPT ![c] = Ended(c, Failed(kind), "lost", Told(c))]
  BY DEF Leave
<1>6. Failed(kind) \in Results /\ ~Failed(kind).permanent /\ "lost" \in Whys
  BY FailureTypes DEF Kinds, Whys
<1>7. Fits("lost", call[c].inst, Failed(kind))
  BY <1>6 DEF Fits
<1> QED BY <1>1, <1>4, <1>5, <1>6, <1>7, ToldCovers, EndsGood

LEMMA RejectGood ==
    ASSUME SearchInv, NEW c \in Callers, NEW r \in RepliesOf, Reject(c, r)
    PROVE  SearchInv'
<1> DEFINE was == call[c]
<1>1. /\ was \in CallType /\ Good(was) /\ was.at = "call" /\ was.old = 0
      /\ D.token = "call"
  BY DEF Reject, Reauthenticates, SearchInv, At
<1>2. Globals' /\ TokenMoves /\ D' = D /\ token' = 0 /\ minted' = minted
  BY DEF Reject, Invalidate, SearchInv, Globals, TokenMoves, Intervals, D
<1>3. PICK k : k = [was EXCEPT !.at = "token", !.old = was.tok, !.tok = 0]
  OBVIOUS
<1>4. /\ k \in CallType /\ k.at = "token" /\ k.tok = 0 /\ k.calls = was.calls
      /\ k.inst = was.inst /\ k.sent = was.sent /\ k.stage = was.stage /\ k.old = was.tok
      /\ k.told = was.told /\ k.why = was.why /\ k.result = was.result
  BY <1>1, <1>3 DEF CallType
<1>5. was.tok # 0 /\ was.tok <= minted /\ minted \in Nat
  BY <1>1 DEF Good, TokensOf, SearchInv, Globals
<1>6. Stays(k)' /\ Fitting(k)' /\ WithinCap(k)'
  BY <1>1, <1>2, <1>4 DEF Good, Stays, Fitting, Fits, WithinCap, CallType, TokenMoves
<1>7. TokensOf(k)'
  BY <1>2, <1>4, <1>5 DEF TokensOf
<1>8. ~(D.stages > 1)
  BY <1>1, Entries DEF SearchInv, Sane
<1>9. Charged(k)'
  <2>1. Charged(was)
    BY <1>1 DEF Good
  <2>2. was.calls = 1 /\ was.told = 0
    BY <1>1, <1>8, <2>1 DEF Charged, CallCounted, Retries
  <2> QED BY <1>1, <1>2, <1>4, <1>5, <1>8, <2>2 DEF Charged, CallCounted, Retries
<1>10. Good(k)'
  BY <1>6, <1>7, <1>9 DEF Good
<1>11. call' = [call EXCEPT ![c] = k]
  BY <1>3 DEF Reject
<1> QED BY <1>2, <1>10, <1>11, OneMoves

LEMMA ReplyGood ==
    ASSUME SearchInv, NEW c \in Callers, NEW r \in RepliesOf, Reply(c, r)
    PROVE  SearchInv'
<1> DEFINE was == call[c]
<1>1. was \in CallType /\ Good(was) /\ was.at = "call" /\ was.inst \in Instances
  BY DEF Reply, SearchInv, At, CallType
<1>2. UNCHANGED <<driver, meet, free, token, minted, lock, now>>
  BY DEF Reply
<1>3. Globals' /\ TokenMoves /\ D' = D
  BY <1>2 DEF SearchInv, Globals, TokenMoves, Intervals, D
<1>4. PICK next : next = IF D.stages > 1 THEN StageOutcome(D, was.inst, r, was.stage)
                                         ELSE Outcome(D, was.inst, r)
  OBVIOUS
<1>5. /\ next \in Results \cup {Panic, More}
      /\ next = More => D.stages > 1 /\ was.stage < D.stages
  BY <1>4, OutcomeOf
<1>6. call' = [call EXCEPT ![c] =
          IF next = More
          THEN [was EXCEPT !.at = "wait", !.stage = was.stage + 1, !.told = Told(c)]
          ELSE Ended(c, next, Trouble(r), Told(c))]
  BY <1>4 DEF Reply, Reported
<1>7. /\ was.stage \in Nat /\ was.calls \in Nat /\ was.told \in Nat
      /\ was.stage <= D.stages /\ D.stages \in {1, 2, 3}
  BY <1>1, Entries DEF CallType, Good, Stays, SearchInv
<1>8. CASE next = More
  <2>1. PICK n : n = was.stage + 1
    OBVIOUS
  <2>2. n \in {1, 2, 3} /\ n <= D.stages
    BY <1>5, <1>7, <1>8, <2>1
  <2>3. PICK t \in Nat : t = Told(c)
    BY <1>1, ToldCovers
  <2>4. PICK k : k = [was EXCEPT !.at = "wait", !.stage = n, !.told = t]
    OBVIOUS
  <2>5. /\ k \in CallType /\ k.at = "wait" /\ k.tok = was.tok /\ k.calls = was.calls
        /\ k.inst = was.inst /\ k.sent = was.sent /\ k.stage = n /\ k.old = was.old
        /\ k.told = t /\ k.why = was.why /\ k.result = was.result
    BY <1>1, <2>2, <2>4 DEF CallType
  <2>6. Stays(k)' /\ Fitting(k)' /\ WithinCap(k)'
    BY <1>1, <1>2, <1>3, <2>2, <2>5 DEF Good, Stays, Fitting, Fits, WithinCap, CallType
  <2>7. TokensOf(k)'
    BY <1>1, <1>2, <1>3, <2>5 DEF Good, TokensOf
  <2>8. t = was.told + 1
    BY <1>5, <1>8, <2>3 DEF Told
  <2>9. Charged(was)
    BY <1>1 DEF Good
  <2> HIDE DEF was
  <2>10. was.calls = was.stage /\ was.told = was.calls - 1
         /\ was.calls <= D.stages /\ (was.old # 0 => D.token = "call")
    BY <1>1, <1>5, <1>8, <2>9 DEF Charged, StagesCounted
  <2>11. Charged(k)'
    BY <1>3, <1>5, <1>7, <1>8, <2>1, <2>2, <2>5, <2>8, <2>10 DEF Charged, StagesCounted
  <2>12. call' = [call EXCEPT ![c] = k]
    BY <1>6, <1>8, <2>1, <2>3, <2>4
  <2> QED BY <1>3, <2>6, <2>7, <2>11, <2>12, OneMoves DEF Good
<1>9. CASE next # More
  <2>1. PICK why \in Whys : why = Trouble(r)
    BY DEF Whys, Trouble
  <2>2. call' = [call EXCEPT ![c] = Ended(c, next, why, Told(c))]
    BY <1>6, <1>9, <2>1
  <2>3. Fits(why, was.inst, next)
    <3>1. why \in {"lost", "busy", "answer"}
      BY <2>1 DEF Trouble
    <3>2. Sane(D) /\ (driver # "serpbase" => D.http # "serpbase")
      BY Entries DEF SearchInv, Entry
    <3>3. GoodReply(r)
      BY OutcomeOf
    <3>4. ASSUME why = "lost" \/ (why = "busy" /\ driver # "serpbase" /\ ~was.inst.ownCodes)
          PROVE  ~next.permanent
      <4>1. was.inst \in Instances
        BY <1>1 DEF CallType
      <4> QED BY <1>4, <2>1, <3>2, <3>3, <3>4, <4>1, TroubleFails
    <3> QED BY <3>1, <3>4 DEF Fits
  <2>4. next \in Results \cup {Panic}
    BY <1>5, <1>9
  <2> QED BY <1>1, <1>3, <2>2, <2>3, <2>4, ToldCovers, EndsGood
<1> QED BY <1>8, <1>9

LEMMA SearchInit == Init => SearchInv
<1> SUFFICES ASSUME Init PROVE SearchInv
  OBVIOUS
<1>1. Globals
  BY CallsAssumption DEF Init, Globals, Intervals
<1>2. call \in [Callers -> CallType] /\ \A c \in Callers : call[c] = Idle
  BY IdleType DEF Init
<1>3. Good(Idle)
  BY <1>1, IdleType, Entries DEF Globals, Good, Stays, Fitting, Fits, Charged, StagesCounted,
     CallCounted, Retries, WithinCap, TokensOf
<1> QED BY <1>1, <1>2, <1>3 DEF SearchInv

LEMMA SearchStep == SearchInv /\ [Next]_vars => SearchInv'
<1> SUFFICES ASSUME SearchInv, [Next]_vars PROVE SearchInv'
  OBVIOUS
<1>1. CASE ExpireToken \/ Tick \/ UNCHANGED vars
  <2>1. Globals' /\ TokenMoves
    BY <1>1, CallsAssumption DEF ExpireToken, Tick, vars, SearchInv, Globals, TokenMoves, Intervals
  <2>2. UNCHANGED call
    BY <1>1 DEF ExpireToken, Tick, vars
  <2>3. \A c \in Callers : Good(call[c])'
    <3>1. \A k : Good(k) => Good(k)'
      BY <2>1, OthersGood DEF SearchInv
    <3> QED BY <2>2, <3>1 DEF SearchInv
  <2> QED BY <2>1, <2>2, <2>3 DEF SearchInv, CallType
<1> QED BY <1>1, SearchGood, LockGood, FetchGood, WaitGood, DepartGood, LeaveGood, RejectGood,
           ReplyGood DEF Next

(* Every variable keeps its type, and every result is one that the engine  *)
(* can take, or the panic of a driver.                                     *)
THEOREM SearchTypes == Spec => []TypeOK
<1>1. SearchInv => TypeOK
  <2> SUFFICES ASSUME SearchInv PROVE TypeOK
    OBVIOUS
  <2>1. ASSUME NEW c \in Callers
        PROVE  /\ call[c].at \in {"idle", "token", "fetch", "wait", "ready", "call", "done"}
               /\ call[c].inst \in Instances
               /\ call[c].sent \in 0 .. Huge
               /\ call[c].result \in Results \cup {Panic}
               /\ call[c].why \in Whys
               /\ call[c].stage \in {1, 2, 3} /\ call[c].stage <= D.stages
    BY DEF SearchInv, Good, Stays, CallType
  <2>2. D.stages \in {1, 2, 3}
    BY Entries DEF SearchInv
  <2>3. \A c \in Callers : call[c].stage \in 1 .. D.stages
    BY <2>1, <2>2
  <2> QED BY <2>1, <2>3 DEF TypeOK, SearchInv, Globals
<1> QED BY SearchInit, SearchStep, <1>1, PTL DEF Spec

(* Lost and unreadable replies never end a search for good, a busy         *)
(* upstream does not either unless the instance lists codes of its own or  *)
(* the driver is SerpBase; trouble of a token endpoint does.               *)
THEOREM PermanenceFits == Spec => []TroubleClassified
<1>1. SearchInv => TroubleClassified
  BY DEF SearchInv, Good, Fitting, TroubleClassified
<1> QED BY SearchInit, SearchStep, <1>1, PTL DEF Spec

(* The upstream calls of a search are charged to the attempt budget.       *)
THEOREM ChargedCalls == Spec => []CallsAreCharged
<1>1. SearchInv => CallsAreCharged
  <2> SUFFICES ASSUME SearchInv, NEW c \in Callers, NEW k, k = call[c]
               PROVE  /\ At(c, "done") /\ D.token # "call" =>
                            k.calls =< IF k.told > 1 THEN k.told ELSE 1
                      /\ k.calls =< IF D.token = "call" THEN 2 ELSE D.stages
                      /\ k.told =< k.calls + 1
    BY DEF CallsAreCharged
  <2>1. Charged(k) /\ k.calls \in Nat /\ k.told \in Nat /\ (At(c, "done") <=> k.at = "done")
    BY DEF SearchInv, Good, CallType, At
  <2>2. D.stages \in {1, 2, 3} /\ (D.stages > 1 => D.token = "never")
    BY Entries DEF SearchInv, Sane
  <2>3. CASE D.stages > 1
    BY <2>1, <2>2, <2>3 DEF Charged, StagesCounted
  <2>4. CASE D.stages = 1
    BY <2>1, <2>2, <2>4 DEF Charged, CallCounted
  <2> QED BY <2>2, <2>3, <2>4
<1> QED BY SearchInit, SearchStep, <1>1, PTL DEF Spec

(* A retry after a 401 never uses the token that was rejected.             *)
THEOREM RetriesWithAnotherToken == Spec => []RetryUsesAnotherToken
<1>1. SearchInv => RetryUsesAnotherToken
  BY DEF SearchInv, Good, TokensOf, RetryUsesAnotherToken
<1> QED BY SearchInit, SearchStep, <1>1, PTL DEF Spec

-----------------------------------------------------------------------------
(* The rate limit: who holds a moment holds the interval after it, and the *)
(* limiter is free no earlier than that.                                   *)

Moment(c) == call[c].ready
Rate(c) == Every(call[c].inst)
Holds(c) == call[c].at \in {"ready", "call"} /\ Rate(c) > 0

Spaced ==
    /\ \A c \in Callers : Holds(c) => Moment(c) + Rate(c) <= free[Rate(c)]
    /\ \A a, b \in Callers :
          a # b /\ Holds(a) /\ Holds(b) /\ Rate(a) = Rate(b) =>
              Moment(a) + Rate(a) <= Moment(b) \/ Moment(b) + Rate(b) <= Moment(a)

LEMMA Moments ==
    ASSUME SearchInv, NEW c \in Callers
    PROVE  /\ Moment(c) \in Nat /\ Rate(c) \in Nat /\ Rate(c) \in Intervals
           /\ free[Rate(c)] \in Nat /\ free \in [Intervals -> Nat]
<1>1. call[c].inst \in Instances /\ call[c].ready \in Nat
  BY DEF SearchInv, CallType
<1> QED BY <1>1, Rates DEF SearchInv, Moment, Rate, Globals

(* c still holds what it held.                                             *)
Keeps(c) == Holds(c)' => Holds(c) /\ Moment(c)' = Moment(c) /\ Rate(c)' = Rate(c)

LEMMA KeepersSpaced ==
    ASSUME SearchInv, Spaced, \A c \in Callers : Keeps(c), free' = free
    PROVE  Spaced'
<1>1. \A c \in Callers : Holds(c)' =>
        Holds(c) /\ Moment(c)' = Moment(c) /\ Rate(c)' = Rate(c)
  BY DEF Keeps
<1> QED BY <1>1 DEF Spaced

(* A step of one search changes nothing for the others.                    *)
LEMMA OthersKeep ==
    ASSUME SearchInv, UNCHANGED driver, NEW c \in Callers, NEW k,
           call' = [call EXCEPT ![c] = k], NEW b \in Callers, b # c
    PROVE  Keeps(b)
<1>1. call'[b] = call[b] /\ D' = D
  BY DEF SearchInv, D
<1> QED BY <1>1 DEF Keeps, Holds, Moment, Rate, Every

LEMMA SpacedStep ==
    ASSUME SearchInv, Spaced, [Next]_vars
    PROVE  Spaced'
<1>1. UNCHANGED driver /\ D' = D
  BY DEF Next, vars, Search, LockToken, FetchToken, FetchFails, WaitLimit, Depart, Leave, Reject,
         Reply, ExpireToken, Tick, D
<1>2. ASSUME NEW c \in Callers, NEW k, k.at \notin {"ready", "call"}, free' = free,
             call' = [call EXCEPT ![c] = k]
      PROVE  Spaced'
  <2>1. call'[c] = k
    BY <1>2 DEF SearchInv
  <2>2. Keeps(c)
    BY <1>2, <2>1 DEF Keeps, Holds
  <2> QED BY <1>1, <1>2, <2>2, OthersKeep, KeepersSpaced
<1>3. ASSUME NEW c \in Callers, NEW ask \in AsksOf, Search(c, ask[1], ask[2])
      PROVE  Spaced'
  <2>1. PICK k : /\ k.at \notin {"ready", "call"}
                 /\ call' = [call EXCEPT ![c] = k]
    <3> DEFINE Refused == [Idle EXCEPT !.at = "done", !.inst = ask[1], !.result = Dead("api"),
                                       !.why = "refused"]
               Started == [Idle EXCEPT !.at = IF D.token = "never" THEN "wait" ELSE "token",
                                       !.inst = ask[1], !.sent = Sent(D, ask[1], ask[2]),
                                       !.deadline = now + Timeout]
    <3>1. Refused.at = "done" /\ Started.at \in {"wait", "token"}
      BY IdleType DEF CallType
    <3>2. call' = [call EXCEPT ![c] = Refused] \/ call' = [call EXCEPT ![c] = Started]
      BY <1>3 DEF Search
    <3> HIDE DEF Refused, Started
    <3> QED BY <3>1, <3>2
  <2> QED BY <1>2, <1>3, <2>1 DEF Search
<1>4. ASSUME NEW c \in Callers, NEW result, NEW why, NEW told, free' = free,
             call' = [call EXCEPT ![c] = Ended(c, result, why, told)]
      PROVE  Spaced'
  <2>1. Ended(c, result, why, told).at = "done"
    BY IdleType DEF Ended, CallType
  <2> QED BY <1>2, <1>4, <2>1
<1>5. ASSUME NEW c \in Callers, LockToken(c)
      PROVE  Spaced'
  <2>1. call[c] \in CallType
    BY DEF SearchInv
  <2>2. /\ [call[c] EXCEPT !.at = "wait", !.tok = token].at = "wait"
        /\ [call[c] EXCEPT !.at = "fetch"].at = "fetch"
    BY <2>1 DEF CallType
  <2>3. /\ \/ call' = [call EXCEPT ![c] = [call[c] EXCEPT !.at = "wait", !.tok = token]]
           \/ call' = [call EXCEPT ![c] = [call[c] EXCEPT !.at = "fetch"]]
        /\ free' = free
    BY <1>5 DEF LockToken
  <2>4. CASE call' = [call EXCEPT ![c] = [call[c] EXCEPT !.at = "wait", !.tok = token]]
    BY <1>2, <2>2, <2>3, <2>4
  <2>5. CASE call' = [call EXCEPT ![c] = [call[c] EXCEPT !.at = "fetch"]]
    BY <1>2, <2>2, <2>3, <2>5
  <2> QED BY <2>3, <2>4, <2>5
<1>6. ASSUME NEW c \in Callers, FetchToken(c)
      PROVE  Spaced'
  <2>1. call[c] \in CallType
    BY DEF SearchInv
  <2>2. PICK k : k = [call[c] EXCEPT !.at = "wait", !.tok = minted']
    OBVIOUS
  <2>3. k.at = "wait"
    BY <2>1, <2>2 DEF CallType
  <2> QED BY <1>2, <1>6, <2>2, <2>3 DEF FetchToken
<1>7. ASSUME NEW c \in Callers, NEW why \in {"token", "outage"}, FetchFails(c, why)
      PROVE  Spaced'
  BY <1>4, <1>7 DEF FetchFails
<1>8. ASSUME NEW c \in Callers, WaitLimit(c)
      PROVE  Spaced'
  <2> DEFINE e == Rate(c)
  <2>1. call[c] \in CallType /\ call[c].inst \in Instances
    BY DEF SearchInv, CallType
  <2>2. PICK t \in Nat : t = NextFree(call[c].inst) /\ free[e] <= t
    BY <2>1, Rates DEF SearchInv, Rate
  <2>3. PICK k : k = [call[c] EXCEPT !.at = "ready", !.ready = t]
    OBVIOUS
  <2>4. k.ready = t /\ k.inst = call[c].inst
    BY <2>1, <2>3 DEF CallType
  <2>5. CASE e = 0 \/ t <= call[c].deadline
    <3>1. call' = [call EXCEPT ![c] = k] /\ free' = [free EXCEPT ![e] = t + e]
      BY <1>8, <2>2, <2>3, <2>5 DEF WaitLimit, Rate
    <3>2. call'[c] = k
      BY <3>1 DEF SearchInv
    <3>3. Moment(c)' = t /\ Rate(c)' = e
      BY <1>1, <2>4, <3>2 DEF Moment, Rate, Every
    <3>4. e \in Nat /\ e \in Intervals /\ free \in [Intervals -> Nat]
      BY Moments
    <3>5. \A b \in Callers : b # c => Keeps(b)
      BY <1>1, <3>1, OthersKeep
    <3>6. \A b \in Callers : Moment(b) \in Nat /\ Rate(b) \in Nat /\ Rate(b) \in Intervals
                             /\ free[Rate(b)] \in Nat
      BY Moments
    <3> HIDE DEF e
    <3>7. ASSUME NEW b \in Callers, b # c, Holds(b)'
          PROVE  /\ Holds(b) /\ Moment(b)' = Moment(b) /\ Rate(b)' = Rate(b)
                 /\ Moment(b) + Rate(b) <= free[Rate(b)]
      BY <3>5, <3>7 DEF Keeps, Spaced
    <3>8. free'[e] = t + e /\ \A f \in Intervals : f # e => free'[f] = free[f]
      BY <3>1, <3>4
    <3>9. \A b \in Callers : Holds(b)' => Moment(b)' + Rate(b)' <= free'[Rate(b)']
      BY <2>2, <3>3, <3>4, <3>6, <3>7, <3>8
    <3>10. \A b \in Callers : b # c /\ Holds(b)' /\ Rate(b)' = e => Moment(b)' + e <= t
      BY <2>2, <3>4, <3>6, <3>7
    <3>11. ASSUME NEW a \in Callers, NEW b \in Callers, a # b, Holds(a)', Holds(b)',
                  Rate(a)' = Rate(b)'
           PROVE  Moment(a)' + Rate(a)' <= Moment(b)' \/ Moment(b)' + Rate(b)' <= Moment(a)'
      <4>1. CASE a = c \/ b = c
        BY <3>3, <3>10, <3>11, <4>1
      <4>2. CASE a # c /\ b # c
        BY <3>7, <3>11, <4>2 DEF Spaced
      <4> QED BY <4>1, <4>2
    <3> QED BY <3>9, <3>11 DEF Spaced
  <2>6. CASE ~(e = 0 \/ t <= call[c].deadline)
    BY <1>4, <1>8, <2>2, <2>6 DEF WaitLimit, Rate
  <2> QED BY <2>5, <2>6
<1>9. ASSUME NEW c \in Callers, Depart(c)
      PROVE  Spaced'
  <2>1. call[c] \in CallType /\ call[c].at = "ready" /\ free' = free
    BY <1>9 DEF Depart, At, SearchInv
  <2>2. PICK k : k = [call[c] EXCEPT !.at = "call", !.calls = call[c].calls + 1]
    OBVIOUS
  <2>3. k.at = "call" /\ k.ready = call[c].ready /\ k.inst = call[c].inst
    BY <2>1, <2>2 DEF CallType
  <2>4. call' = [call EXCEPT ![c] = k] /\ call'[c] = k
    BY <1>9, <2>2 DEF Depart, SearchInv
  <2>5. Keeps(c)
    BY <1>1, <2>1, <2>3, <2>4 DEF Keeps, Holds, Moment, Rate, Every
  <2> QED BY <1>1, <2>1, <2>4, <2>5, OthersKeep, KeepersSpaced
<1>10. ASSUME NEW c \in Callers, NEW kind \in {"net", "timeout"}, Leave(c, kind)
      PROVE  Spaced'
  <2> DEFINE e == Rate(c)
  <2>1. call[c].at = "ready" /\ Holds(c)
    BY <1>10 DEF Leave, At, Holds, Rate
  <2>2. call' = [call EXCEPT ![c] = Ended(c, Failed(kind), "lost", Told(c))]
    BY <1>10 DEF Leave
  <2>3. CASE free' = free
    BY <1>4, <2>2, <2>3
  <2>4. CASE free' # free
    <3>1. free' = [free EXCEPT ![e] = Moment(c)] /\ free[e] = Moment(c) + e
      BY <1>10, <2>4 DEF Leave, Moment, Rate
    <3>2. e \in Nat /\ e > 0 /\ e \in Intervals /\ free \in [Intervals -> Nat]
          /\ Moment(c) \in Nat
      BY <2>1, Moments DEF Holds
    <3>3. \A b \in Callers : b # c => Keeps(b)
      BY <1>1, <2>2, OthersKeep
    <3>4. ~Holds(c)'
      <4>1. call'[c].at = "done"
        BY <2>2, IdleType DEF Ended, CallType, SearchInv
      <4> QED BY <4>1 DEF Holds
    <3>5. \A b \in Callers : Moment(b) \in Nat /\ Rate(b) \in Nat /\ Rate(b) \in Intervals
                             /\ free[Rate(b)] \in Nat
      BY Moments
    <3> HIDE DEF e
    <3>6. ASSUME NEW b \in Callers, Holds(b)'
          PROVE  /\ b # c /\ Holds(b) /\ Moment(b)' = Moment(b) /\ Rate(b)' = Rate(b)
                 /\ Moment(b) + Rate(b) <= free[Rate(b)]
      BY <3>3, <3>4, <3>6 DEF Keeps, Spaced
    <3>7. ASSUME NEW b \in Callers, Holds(b)', Rate(b) = e
          PROVE  Moment(b) + e <= Moment(c)
      <4>1. Moment(b) + e <= Moment(c) \/ Moment(c) + e <= Moment(b)
        BY <2>1, <3>6, <3>7 DEF Spaced, e
      <4>2. Moment(b) + e <= Moment(c) + e
        BY <3>1, <3>6, <3>7
      <4> QED BY <3>2, <3>5, <4>1, <4>2
    <3>8. free'[e] = Moment(c) /\ \A f \in Intervals : f # e => free'[f] = free[f]
      BY <3>1, <3>2
    <3>9. \A b \in Callers : Holds(b)' => Moment(b)' + Rate(b)' <= free'[Rate(b)']
      BY <3>5, <3>6, <3>7, <3>8
    <3>10. ASSUME NEW a \in Callers, NEW b \in Callers, a # b, Holds(a)', Holds(b)',
                  Rate(a)' = Rate(b)'
           PROVE  Moment(a)' + Rate(a)' <= Moment(b)' \/ Moment(b)' + Rate(b)' <= Moment(a)'
      BY <3>6, <3>10 DEF Spaced
    <3> QED BY <3>9, <3>10 DEF Spaced
  <2> QED BY <2>3, <2>4
<1>11. ASSUME NEW c \in Callers, NEW r \in RepliesOf, Reject(c, r)
      PROVE  Spaced'
  <2>1. call[c] \in CallType
    BY DEF SearchInv
  <2>2. PICK k : k = [call[c] EXCEPT !.at = "token", !.old = call[c].tok, !.tok = 0]
    OBVIOUS
  <2>3. k.at = "token"
    BY <2>1, <2>2 DEF CallType
  <2> QED BY <1>2, <1>11, <2>2, <2>3 DEF Reject
<1>12. ASSUME NEW c \in Callers, NEW r \in RepliesOf, Reply(c, r)
      PROVE  Spaced'
  <2>1. call[c] \in CallType /\ free' = free
    BY <1>12 DEF SearchInv, Reply
  <2>2. PICK next : next = IF D.stages > 1 THEN StageOutcome(D, call[c].inst, r, call[c].stage)
                                           ELSE Outcome(D, call[c].inst, r)
    OBVIOUS
  <2>3. call' = [call EXCEPT ![c] =
            IF next = More
            THEN [call[c] EXCEPT !.at = "wait", !.stage = call[c].stage + 1, !.told = Told(c)]
            ELSE Ended(c, next, Trouble(r), Told(c))]
    BY <1>12, <2>2 DEF Reply, Reported
  <2>4. CASE next = More
    <3>1. PICK k : k = [call[c] EXCEPT !.at = "wait", !.stage = call[c].stage + 1, !.told = Told(c)]
      OBVIOUS
    <3>2. k.at = "wait"
      BY <2>1, <3>1 DEF CallType
    <3> QED BY <1>2, <2>1, <2>3, <2>4, <3>1, <3>2
  <2>5. CASE next # More
    BY <1>4, <2>1, <2>3, <2>5
  <2> QED BY <2>4, <2>5
<1>13. CASE ExpireToken \/ Tick \/ UNCHANGED vars
  <2>1. call' = call /\ free' = free
    BY <1>13 DEF ExpireToken, Tick, vars
  <2>2. \A c \in Callers : Keeps(c)
    BY <1>1, <2>1 DEF Keeps, Holds, Moment, Rate, Every
  <2> QED BY <2>1, <2>2, KeepersSpaced
<1> QED BY <1>3, <1>5, <1>6, <1>7, <1>8, <1>9, <1>10, <1>11, <1>12, <1>13 DEF Next

(* The count stays below the upstream's limit, and the moments of one      *)
(* limiter lie an interval apart.                                          *)
THEOREM LimitsKept == Spec => []UpstreamLimits
<1>1. Init => Spaced
  BY IdleType DEF Init, Spaced, Holds
<1>2. SearchInv /\ Spaced => UpstreamLimits
  <2> SUFFICES ASSUME SearchInv, Spaced PROVE UpstreamLimits
    OBVIOUS
  <2>1. \A c \in Callers :
         (~call[c].inst.ownCount /\ D.cap # NoCap /\ driver # "perplexity")
             => call[c].sent =< D.cap
    BY DEF SearchInv, Good, WithinCap
  <2>2. \A a, b \in Callers :
         (/\ a # b /\ Rate(a) > 0 /\ Rate(b) = Rate(a)
          /\ {call[a].at, call[b].at} \subseteq {"ready", "call"})
            => Moment(a) + Rate(a) =< Moment(b) \/ Moment(b) + Rate(a) =< Moment(a)
    BY DEF Spaced, Holds
  <2> QED BY <2>1, <2>2 DEF UpstreamLimits, Moment, Rate
<1> QED BY SearchInit, SearchStep, SpacedStep, <1>1, <1>2, PTL DEF Spec

=============================================================================
