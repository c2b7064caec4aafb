---------------------------- MODULE DriverTable ----------------------------
(***************************************************************************)
(* The provider drivers of internal/providers: what each one asks of its   *)
(* upstream and what it makes of the answer, as the Result the engine sees *)
(* (NodeRun's attempt results).  rest.go drives most of them from a table; *)
(* the others have a Search of their own, with the same steps.             *)
(*                                                                         *)
(* A reply is the data a driver can tell apart: how the transport failed,  *)
(* the status, whether the body is a JSON object, the error marker in it,  *)
(* the result list with the link fields of its item, a generated text.     *)
(* Titles, snippets, the language and the country are left out.            *)
(***************************************************************************)
EXTENDS Naturals, FiniteSets

NoCap == 0         \* no limit to a count
Huge == 5000       \* a count beyond every limit

Retryable == {429, 500, 502, 503, 504}
Fatal == {400, 401, 403, 404}
Built == "built"           \* the link that is made from the id of the item

(* What the fields of a driver say:                                        *)
(*   need    what must be filled in: nothing, something, or it never works *)
(*   count   how the requested count is sent; cap is the upstream's limit  *)
(*   over    a parameter of the instance may replace the count             *)
(*   fatal, retry, http    which statuses are permanent, and by which rule *)
(*   every   the time between two calls, when the driver limits them at    *)
(*           all; throttles: a wait in the body                            *)
(*   links   the fields of an item that make a row of it                   *)
(*   missing, soft, hard, void, zero    a body without the list, with an   *)
(*           error marker (passing, fatal, "nothing found"), without rows  *)
(*   cut     the kind of a body that cannot be read                        *)
(*   answers, token    a generated text; when an access token is fetched   *)
(*   stages  the upstream calls of one search                              *)
Rest ==
    [need |-> "nothing", count |-> "capped", cap |-> NoCap, over |-> TRUE,
     fatal |-> Fatal, retry |-> Retryable, http |-> "classify",
     every |-> 0, limits |-> TRUE, throttles |-> FALSE, links |-> {"url"}, missing |-> "norows",
     soft |-> "ignored", hard |-> "ignored", void |-> "ignored", zero |-> "empty",
     cut |-> "read", answers |-> "none", token |-> "never", stages |-> 1]

(* A driver whose own code builds the body from nothing but the query. *)
Fixed == [Rest EXCEPT !.over = FALSE]
Unlimited == [Fixed EXCEPT !.limits = FALSE]

-----------------------------------------------------------------------------
(* The table of rest.go *)

Brave == [Rest EXCEPT !.cap = 20]
Serper == [Rest EXCEPT !.links = {"link", "url"}]
SerpApi == [Rest EXCEPT !.links = {"link", "url"}, !.soft = "norows", !.hard = "norows"]
SearchApi == [Rest EXCEPT !.links = {"link", "url"}, !.soft = "norows", !.hard = "norows"]
DataForSEO == [Fixed EXCEPT !.cap = 200]
YouCom == [Rest EXCEPT !.missing = "panic"]
Jina == [Fixed EXCEPT !.count = "none"]
Firecrawl == [Rest EXCEPT !.links = {"url"}]
Mojeek == [Rest EXCEPT !.soft = "norows", !.hard = "norows"]
Marginalia == [Rest EXCEPT !.cap = 100]
Tavily == [Rest EXCEPT !.cap = 20]
Exa == [Rest EXCEPT !.links = {"url"}]
Linkup == [Rest EXCEPT !.count = "raw"]
Perplexity == [Rest EXCEPT !.count = "raw", !.cap = 50]
Valyu == [Rest EXCEPT !.cap = 20]
Parallel == [Rest EXCEPT !.count = "none"]
Ollama == [Fixed EXCEPT !.cap = 10]

(* The Search API of Kagi takes a count, FastGPT does not. *)
Kagi(mode) ==
    IF mode = "search" THEN [Rest EXCEPT !.count = "raw"]
                       ELSE [Fixed EXCEPT !.count = "none"]

OpenAlex ==
    [Rest EXCEPT !.cap = 200, !.fatal = {400},
                 !.links = {"doi", "landing_page_url", "id"}]
SemanticScholar ==
    [Rest EXCEPT !.cap = 100, !.fatal = {400, 403}, !.every = 1,
                 !.links = {"url", "DOI"}]
Crossref ==
    [Rest EXCEPT !.cap = 1000, !.fatal = {400, 404}, !.links = {"URL", "DOI"}]
GitHub ==
    [Rest EXCEPT !.cap = 100, !.fatal = {401, 422}, !.every = 2, !.links = {"html_url"}]
HackerNews == [Rest EXCEPT !.cap = 1000, !.fatal = {400}, !.links = {"url", Built}]
StackExchange ==
    [Rest EXCEPT !.cap = 100, !.fatal = {400, 401, 403}, !.throttles = TRUE,
                 !.links = {"link", Built}]

(* With an Entra credential the token is fetched while the request is built. *)
AzureSearch(auth) ==
    [Rest EXCEPT !.need = "something", !.count = "raw", !.fatal = Fatal \cup {413},
                 !.token = IF auth = "aad" THEN "build" ELSE "never"]
Vectara ==
    [Fixed EXCEPT !.need = "something", !.fatal = {400, 403, 404},
                  !.links = {"url", "source"}]
Kendra == [Fixed EXCEPT !.need = "impossible", !.count = "none", !.fatal = {400}]

-----------------------------------------------------------------------------
(* The drivers with a Search of their own *)

ApiSerpent ==
    [Unlimited EXCEPT !.links = {"url", "link"}, !.http = "noFatal", !.soft = "api",
                  !.hard = "permanent", !.zero = "ok"]
SerpBase ==
    [Unlimited EXCEPT !.count = "none", !.fatal = {401, 403}, !.http = "serpbase",
                  !.links = {"link", "url"}, !.soft = "api", !.hard = "permanent",
                  !.zero = "ok"]
SearXNG ==
    [Unlimited EXCEPT !.need = "something", !.count = "none", !.http = "never",
                  !.links = {"url", "link"}, !.soft = "apiIfMissing",
                  !.hard = "apiIfMissing", !.zero = "ok"]
GoogleCSE ==
    [Unlimited EXCEPT !.cap = 10, !.fatal = {400, 401, 403}, !.http = "fatalOnly",
                  !.links = {"link"}, !.soft = "permanent", !.hard = "permanent",
                  !.zero = "ok"]
DeepSeek == [Fixed EXCEPT !.cap = 50, !.fatal = Fatal \cup {402}, !.retry = Retryable \cup {408}]
KimiSearch == [Fixed EXCEPT !.cap = 20, !.fatal = {400, 401, 403}]
KimiSearchPro == [Fixed EXCEPT !.cap = 20, !.fatal = {400, 401, 403}]
Anthropic ==
    [Fixed EXCEPT !.need = "something", !.count = "none", !.fatal = {400, 401, 403},
                  !.answers = "needed"]
Yandex ==
    [Fixed EXCEPT !.fatal = {400, 401, 403}, !.missing = "json", !.soft = "api",
                  !.hard = "permanent", !.void = "empty"]
YandexGen == [Unlimited EXCEPT !.count = "none", !.fatal = {400, 401, 403}, !.answers = "extra",
                           !.links = {"url", "link"}]
Gemini ==
    [Unlimited EXCEPT !.count = "none", !.fatal = {400, 401, 403}, !.http = "fatalOnly",
                  !.answers = "extra"]
VertexSearch ==
    [Fixed EXCEPT !.need = "something", !.token = "call", !.cut = "net",
                  !.links = {"link", "url"}]
PubMed(abstracts) ==
    [Fixed EXCEPT !.fatal = {400}, !.every = 2, !.cut = "net",
                  !.links = {"document"}, !.stages = IF abstracts THEN 3 ELSE 2]

(* google_vertex and google choose among the drivers of Google. *)
GoogleVertex(mode) ==
    IF mode \in {"enterprise", "vertex_search", "search"} THEN VertexSearch ELSE Gemini
Google(driver) ==
    IF driver \in {"cse", "customsearch", "legacy"} THEN GoogleCSE
    ELSE GoogleVertex(IF driver \in {"vertex_search", "enterprise", "search"}
                      THEN "enterprise" ELSE "gemini")

-----------------------------------------------------------------------------
(* The registry, by code; a driver with a mode that matters has an entry   *)
(* for each.                                                               *)
Registry ==
    [brave |-> Brave, serper |-> Serper, serpapi |-> SerpApi, searchapi |-> SearchApi,
     dataforseo |-> DataForSEO, youcom |-> YouCom, jina |-> Jina,
     firecrawl |-> Firecrawl, mojeek |-> Mojeek, marginalia |-> Marginalia,
     tavily |-> Tavily, exa |-> Exa, linkup |-> Linkup, perplexity |-> Perplexity,
     valyu |-> Valyu, parallel |-> Parallel, ollama |-> Ollama,
     kagi |-> Kagi("search"), kagi_fastgpt |-> Kagi("fastgpt"),
     openalex |-> OpenAlex, semanticscholar |-> SemanticScholar,
     crossref |-> Crossref, github |-> GitHub, hn |-> HackerNews,
     stackexchange |-> StackExchange, azure_search |-> AzureSearch("api_key"),
     azure_entra |-> AzureSearch("aad"), vectara |-> Vectara, kendra |-> Kendra,
     apiserpent |-> ApiSerpent, serpbase |-> SerpBase, searxng |-> SearXNG,
     google_cse |-> GoogleCSE, deepseek_search |-> DeepSeek,
     kimi_search |-> KimiSearch, kimi_search_pro |-> KimiSearchPro,
     anthropic |-> Anthropic, yandex |-> Yandex, yandex_gen |-> YandexGen,
     google_vertex |-> GoogleVertex("gemini"), google |-> Google("vertex_search"),
     vertex_search |-> VertexSearch, pubmed |-> PubMed(FALSE),
     pubmed_abstracts |-> PubMed(TRUE)]

Codes == DOMAIN Registry

=============================================================================
