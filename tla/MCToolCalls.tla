---------------------------- MODULE MCToolCalls ----------------------------
(***************************************************************************)
(* The tools ToolCalls is checked with: families of configs around a plain *)
(* one, each for a question the code answers with a branch.                *)
(***************************************************************************)
EXTENDS ToolCalls

City == [city |-> "rio", unit |-> "km"]

GetPublic ==
    [url |-> [host |-> "public", holes |-> {}], urlTemplate |-> NoURL, baseUrl |-> "none",
     method |-> "GET", headers |-> {}, properties |-> {},
     bodyTemplate |-> "null", body_template |-> "null", body |-> "null",
     timeoutSeconds |-> 0, timeout_seconds |-> 0, timeoutMs |-> 0,
     authType |-> "", auth_type |-> "", authToken |-> "", auth_token |-> "",
     useCallerToken |-> FALSE]

\* One key in every combination of spellings, declared in the schema or not.
Templates ==
    {[GetPublic EXCEPT !.url.holes = holes, !.properties = declared, !.method = m] :
        holes \in SUBSET ({"city"} \X Forms),
        declared \in {{}, {"city"}, {"unit"}},
        m \in {"GET", "POST"}}

Hosts ==
    {[GetPublic EXCEPT !.url = url, !.urlTemplate.host = template, !.baseUrl = base] :
        url \in {NoURL} \cup {[host |-> h, holes |-> {}] : h \in {"relative", "internal"}},
        template \in {"none", "relative", "public"},
        base \in {"none", "public", "internal"}}

Bodies ==
    {[GetPublic EXCEPT !.method = "POST", !.bodyTemplate = camel, !.body_template = snake,
                       !.body = "third"] :
        camel \in {"null", "", "first"}, snake \in {"null", "second"}}

Auths ==
    {[GetPublic EXCEPT !.headers = hs, !.authType = type, !.authToken = "token",
                       !.useCallerToken = use] :
        hs \in {{}, {"own", "OWN"}}, type \in {"", "bearer"}, use \in BOOLEAN}

MCHttpJobs ==
    {[type |-> "HTTP", input |-> City, http |-> h, caller |-> ""] : h \in Templates \cup Hosts \cup Bodies}
    \cup {[type |-> "HTTP", input |-> City, http |-> h, caller |-> caller] :
              h \in Auths, caller \in {"", "jwt"}}

-----------------------------------------------------------------------------
Param(n, name) == [kind |-> "param", n |-> n, key |-> "", name |-> name, inner |-> FALSE]
Hole(key) == [kind |-> "hole", n |-> 0, key |-> key, name |-> "", inner |-> FALSE]
Quoted(place) == [place EXCEPT !.inner = TRUE]

Select(query, limit) ==
    [datasource_id |-> "ds", query |-> query, operation |-> "", max_rows |-> limit]

Account == [id |-> "42", email |-> "a@b"]

\* The keys id and email in queries of up to three holes, one that the input
\* lacks, and places within quotes.
HoleQueries ==
    UNION {[1..n -> {Hole("id"), Hole("email"), Hole("other")}] : n \in 1..3}
    \cup {<<Quoted(Hole("id")), Hole("email")>>, <<Quoted(Param(1, "$1")), Hole("id")>>}

Sql(config, rows) == [type |-> "SQL", input |-> Account, sql |-> config, table |-> rows]

MCSqlJobs ==
    {Sql(Select(query, 0), 1) : query \in HoleQueries}
    \cup {Sql([Select(<<Hole("id")>>, 0) EXCEPT !.operation = "UPDATE"], 1)}
    \cup {Sql([Select(<<Hole("id")>>, 0) EXCEPT !.datasource_id = ""], 1), Sql(Select(<<>>, 0), 1)}
    \cup {Sql(Select(<<Hole("id")>>, limit), rows) : limit \in {-1, 0, 2}, rows \in 0..3}

\* Queries with parameters of their own; the input names their values "$1", "$2".
ParamJobs ==
    {[Sql(Select(query, 0), 1) EXCEPT !.input = [k \in {"$1", "$2", "id"} |-> k]] :
        query \in {<<Param(1, "$1")>>, <<Param(1, "$1"), Hole("id")>>, <<Hole("id")>>,
                   <<Param(2, "$2"), Hole("id")>>}}

-----------------------------------------------------------------------------
Search ==
    [knowledge_base_id |-> "kb", kbId |-> "", embedding_url |-> "", embeddingUrl |-> "",
     top_k |-> 0, topK |-> <<>>, limit |-> 0,
     similarity_threshold |-> 0, similarityThreshold |-> 0]

Corpus == {[base |-> "kb", score |-> s] : s \in {3, 6, 8, 9}} \cup {[base |-> "old", score |-> 7]}

Searches ==
    {[Search EXCEPT !.top_k = n, !.topK = k, !.limit = 1, !.similarity_threshold = t,
                    !.similarityThreshold = u] :
        n \in {-1, 0, 2}, k \in {<<>>, <<3>>}, t \in {0, 6}, u \in {0, 9}}
    \cup {[Search EXCEPT !.knowledge_base_id = b, !.kbId = "old", !.embedding_url = url,
                         !.embeddingUrl = "other"] : b \in {"", "kb"}, url \in {"", "own"}}
    \cup {[Search EXCEPT !.knowledge_base_id = ""]}

MCDocJobs ==
    {[type |-> "DOCUMENT_SEARCH", input |-> [query |-> text], doc |-> config, corpus |-> Corpus] :
        config \in Searches, text \in {"", "text"}}

MCScriptJobs ==
    {[type |-> "SCRIPT", input |-> [x |-> "1", y |-> "2"], script |-> s] : s \in BOOLEAN}

None == {}
=============================================================================
