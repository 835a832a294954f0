----------------------------- MODULE ToolCalls ------------------------------
(***************************************************************************)
(* One call of Invoke (module Invoker) with the executor it wraps taken    *)
(* apart: the HTTP, SQL, document-search and script executors, step by     *)
(* step between the points where they wait for somebody else.  McpSession  *)
(* models the MCP executor.                                                *)
(*                                                                         *)
(* A job is what the handler hands to Invoke, with the part of the world   *)
(* the tool reads: [type, input, <config>, ...], where the config is the   *)
(* field http, sql, doc or script.                                         *)
(***************************************************************************)
EXTENDS Tools, HttpTool, SqlTool, DocSearch

CONSTANTS
    HttpJobs,       \* [type, input, http, caller]
    SqlJobs,        \* [type, input, sql, table]: table is how many rows the query has
    DocJobs,        \* [type, input, doc, corpus]
    ScriptJobs,     \* [type, input, script]: whether there is one
    MaxRetries,     \* DefaultConfig
    MaxRequests,    \* what an http.Client sends for one Do, redirects followed: 10
    MaxReplays      \* bound: how often the transport repeats one request

ASSUME ToolCallAssumption ==
    /\ MaxRetries \in Nat
    /\ MaxRequests \in Nat \ {0}
    /\ MaxReplays \in Nat
    /\ \A j \in HttpJobs : j.type = "HTTP"
    /\ \A j \in SqlJobs :
           /\ j.type = "SQL" /\ j.table \in Nat /\ j.sql.max_rows \in Int
           /\ Len(j.sql.query) \in Nat
           /\ \A i \in 1..Len(j.sql.query) :
                  LET place == j.sql.query[i]
                  IN  place.kind = "hole" \/ (place.kind = "param" /\ place.n \in Nat \ {0})
    /\ \A j \in DocJobs :
           /\ j.type = "DOCUMENT_SEARCH"
           /\ j.doc.top_k \in Int /\ j.doc.limit \in Int
           /\ j.doc.similarity_threshold \in Int /\ j.doc.similarityThreshold \in Int
           /\ j.doc.topK = <<>> \/ j.doc.topK[1] \in Int
           /\ IsFiniteSet(j.corpus)
           /\ \A d, e \in j.corpus : d.score \in Int /\ (d.score = e.score => d = e)
    /\ \A j \in ScriptJobs : j.type = "SCRIPT" /\ j.script \in BOOLEAN

VARIABLES
    job,
    input,      \* the input map; every attempt is handed the same one
    step,       \* where Execute is, "start" outside of it
    acts,       \* history: what was handed over, [run, hop, what]: the attempt it was
                \* part of, and which request of its client (1 for anything else)
    got,        \* rows read from the database in this attempt
    failures, pc, attempt, ret, expired, ctxDone, outcome, runs, streak, due

invokerVars == <<failures, pc, attempt, ret, expired, ctxDone, outcome, runs, streak, due>>
vars == <<job, input, step, acts, got, invokerVars>>

c == "call"
Inv == INSTANCE Invoker WITH
           Calls <- {c}, Invokers <- {c}, InvokerOf <- [call \in {c} |-> c],
           Threshold <- 5, HasTimeout <- TRUE

-----------------------------------------------------------------------------
Init ==
    /\ Inv!Init
    /\ \/ \E j \in HttpJobs : job = j
       \/ \E j \in SqlJobs : job = j
       \/ \E j \in DocJobs : job = j
       \/ \E j \in ScriptJobs : job = j
    /\ input = job.input
    /\ step = "start"
    /\ acts = <<>>
    /\ got = 0

-----------------------------------------------------------------------------
(* Steps of Execute *)

Executes(type) == pc[c] = "executing" /\ step = "start" /\ job.type = type

Go(next) == step' = next /\ UNCHANGED <<job, invokerVars>>

Return(v) == Inv!ExecuteReturns(c, v) /\ step' = "start" /\ UNCHANGED <<job, input, acts, got>>

\* The attempt hands something over: a request, a statement, a script.
Act(what) ==
    /\ acts' = Append(acts, [run |-> runs[c], hop |-> 1, what |-> what])
    /\ got' = 0
    /\ UNCHANGED input

HttpExecute ==
    /\ Executes("HTTP")
    /\ IF Sendable(job.http)
       THEN \E a \in Authorizations(job.http, job.caller) :
                Act(RequestOf(job.http, input, a)) /\ Go("response")
       ELSE Return("transient")

\* An http.Client waits for an answer.
Exchanging == step \in {"response", "embedding"}

SendsMore(act) == acts' = Append(acts, act) /\ UNCHANGED <<job, input, step, got, invokerVars>>

\* The answer is a redirect, which client.Do follows.  It refuses to send more than
\* MaxRequests, and an error it returns is one of Breaks.
Redirected(repeats) ==
    /\ Exchanging
    /\ LET last == acts[Len(acts)]
       IN  /\ last.hop < MaxRequests
           /\ SendsMore([run |-> last.run, hop |-> last.hop + 1,
                         what |-> Redirection(last.what, repeats)])

\* The transport sends a request again over another connection.
Replayed ==
    /\ Exchanging
    /\ LET last == acts[Len(acts)]
       IN  /\ last.what.method \in Repeatable
           /\ Cardinality({i \in 1..Len(acts) : acts[i] = last}) <= MaxReplays
           /\ SendsMore(last)

\* Mutated: a bad status is tried once more before it is reported.
HttpAnswered_Resends(status) ==
    /\ step = "response"
    /\ LET last == acts[Len(acts)]
           again == Len(acts) > 1 /\ acts[Len(acts) - 1] = last
       IN  IF status = "below 400" THEN Return("ok")
           ELSE IF again THEN Return("transient") ELSE SendsMore(last)

\* The body was read to its end; a status of 400 or more is an error.
HttpAnswered(status) ==
    /\ step = "response"
    /\ Return(IF status = "below 400" THEN "ok" ELSE "transient")

SqlExecute ==
    /\ Executes("SQL")
    /\ IF job.sql.datasource_id = "" \/ job.sql.query = <<>>
       THEN Return("permanent")
       ELSE Go("datasource") /\ UNCHANGED <<input, acts, got>>

\* fetchDatasource returned a row.
SqlDatasource(type) ==
    /\ step = "datasource"
    /\ IF type = "POSTGRESQL"
       THEN Go("connect") /\ UNCHANGED <<input, acts, got>>
       ELSE Return("transient")

\* The datasource is connected and conn.Query or conn.Exec is called.
SqlStatement ==
    /\ step = "connect"
    /\ IF Bindable(job.sql.query)
       THEN /\ Act(Bound(job.sql.query, input))
            /\ Go(IF IsSelect(job.sql) THEN "rows" ELSE "affected")
       ELSE Return("transient")

SqlAffected == step = "affected" /\ Return("ok")

DocExecute ==
    /\ Executes("DOCUMENT_SEARCH")
    /\ IF Searchable(job.doc, input)
       THEN /\ Act([method |-> "POST", url |-> EmbeddingURL(job.doc), body |-> input["query"]])
            /\ Go("embedding")
       ELSE Return("transient")

\* Embed wants status 200 and a vector that is not empty.
DocEmbedded(answer) ==
    /\ step = "embedding"
    /\ IF answer = "vector" THEN Go("search") /\ UNCHANGED <<input, acts, got>>
       ELSE Return("transient")

\* How many rows the loop over rows.Next can read.
Readable ==
    IF step = "search" THEN Cardinality(Matches(job.doc, job.corpus))
    ELSE IF job.table < MaxRows(job.sql) THEN job.table
    ELSE MaxRows(job.sql)

ReadRow ==
    /\ step \in {"rows", "search"}
    /\ got < Readable
    /\ got' = got + 1
    /\ UNCHANGED <<job, input, step, acts, invokerVars>>

\* Mutated: rows.Err is not looked at after the loop.
RowsEnd_NoErr == step \in {"rows", "search"} /\ Return("ok")

\* rows.Next returned false, or max_rows are read, and rows.Err is nil.
RowsEnd == step \in {"rows", "search"} /\ got = Readable /\ Return("ok")

-----------------------------------------------------------------------------
(* Scripts *)

ScriptExecute ==
    /\ Executes("SCRIPT")
    /\ IF job.script THEN Act(input) /\ Go("running") ELSE Return("transient")

\* goja wraps the input map itself: an assignment of the script changes it.
ScriptWrites(k) ==
    /\ step = "running"
    /\ input' = [input EXCEPT ![k] = "changed"]
    /\ UNCHANGED <<job, step, acts, got, invokerVars>>

\* It ran to its end; or it threw, or its own timer interrupted it.
ScriptEnds(v) == step = "running" /\ Return(v)

-----------------------------------------------------------------------------
(* Failures *)

Waiting ==
    {"response", "datasource", "connect", "rows", "affected", "embedding", "search"}

\* The other side is unreachable, refuses, breaks off or answers what does not
\* decode; a request may have been carried out all the same.
Breaks == step \in Waiting /\ Return("transient")

\* Mutated: a script runs on when the context ends.
ContextEnds_NotScripts == (expired[c] \/ ctxDone[c]) /\ step \in Waiting /\ Return("transient")

\* The context of the attempt ends what is waited for, and a script at its next
\* instruction.
ContextEnds ==
    (expired[c] \/ ctxDone[c]) /\ step \in Waiting \cup {"running"} /\ Return("transient")

ExecuteLocally == HttpExecute \/ SqlExecute \/ DocExecute \/ ScriptExecute

ExecuteStep ==
    \/ ExecuteLocally
    \/ \E status \in {"below 400", "400 or more"} : HttpAnswered(status)
    \/ \E repeats \in BOOLEAN : Redirected(repeats)
    \/ Replayed
    \/ \E type \in {"POSTGRESQL", "other"} : SqlDatasource(type)
    \/ SqlStatement \/ SqlAffected
    \/ \E answer \in {"vector", "unusable"} : DocEmbedded(answer)
    \/ ReadRow \/ RowsEnd
    \/ \E k \in DOMAIN input : ScriptWrites(k)
    \/ \E v \in {"ok", "transient"} : ScriptEnds(v)
    \/ Breaks \/ ContextEnds

InvokeStep ==
    /\ \/ Inv!RejectOpen(c) \/ Inv!Admit(c) \/ Inv!AttemptTimeout(c)
       \/ Inv!LoopStep(c) \/ Inv!CancelCtx(c)
    /\ UNCHANGED <<job, input, step, acts, got>>

Next == ExecuteStep \/ InvokeStep

Spec == Init /\ [][Next]_vars

(***************************************************************************)
(* The goroutine computes, and a context that has ended is noticed.  Nobody*)
(* the executor waits for need ever answer.                                *)
(***************************************************************************)
FairSpec == Spec /\ WF_vars(ExecuteLocally) /\ WF_vars(ContextEnds)

-----------------------------------------------------------------------------
\* The fields an executor requires are there.
ConfigClass ==
    LET missing ==
        CASE job.type = "HTTP" -> RawURL(job.http).host = "none"
          [] job.type = "SQL" -> job.sql.datasource_id = "" \/ job.sql.query = <<>>
          [] job.type = "DOCUMENT_SEARCH" -> KnowledgeBase(job.doc) = ""
          [] OTHER -> ~job.script
    IN  IF missing THEN "incomplete" ELSE "complete"

\* What SkillRuntime assumes of the executors: they return only the classes of
\* error its table lists.
ReturnsAsListed ==
    ret[c] \in {"none"} \cup ExecutorReturns([type |-> job.type, config |-> ConfigClass])

\* The other assumption of SkillRuntime: an executor whose context has ended
\* returns, though nobody it waits for answers and a script never ends.
ContextEndsExecution ==
    (pc[c] = "executing" /\ (expired[c] \/ ctxDone[c])) ~> pc[c] = "returned"

\* How often an effect can have happened.  An attempt hands over one statement or
\* script, or one request for each hop of its redirects, and none of them twice but
\* what the transport may repeat; nothing is handed over outside of an attempt.  A
\* success has acted in its last attempt, and a call answered with a permanent error,
\* or without a required field, never did.
ActsFitAttempts ==
    LET requests == job.type \in {"HTTP", "DOCUMENT_SEARCH"}
    IN  /\ \A i \in 1..Len(acts) :
               /\ acts[i].run \in 1..runs[c]
               /\ acts[i].hop \in 1..(IF requests THEN MaxRequests ELSE 1)
        /\ \A i, j \in 1..Len(acts) :
               (i < j /\ acts[i].run = acts[j].run /\ acts[i].hop = acts[j].hop) =>
                   requests /\ acts[i].what.method \in Repeatable
        /\ outcome[c] = "ok" => acts /= <<>> /\ acts[Len(acts)].run = runs[c]
        /\ (outcome[c] = "permanent" \/ ConfigClass = "incomplete") => acts = <<>>

\* "Parameters the LLM provided are not silently dropped", and those it invented
\* are not sent: a request without a body carries an input in its path or query
\* exactly when the tool declares or its template names it, and carries it twice
\* only when the template names it as {{args.k}} alone.  What a redirect leads to is
\* the business of the other side.
InputReachesUpstream ==
    (job.type = "HTTP" /\ job.http.method \in Bodyless) =>
        \A i \in 1..Len(acts), k \in DOMAIN job.input : acts[i].hop = 1 =>
            LET request == acts[i].what
                named(forms) == \E f \in forms : <<k, f>> \in RawURL(job.http).holes
            IN  /\ k \in DOMAIN request.path \cup DOMAIN request.query <=>
                       \/ named(Forms)
                       \/ job.http.properties = {}
                       \/ k \in job.http.properties
                /\ k \in DOMAIN request.path \cap DOMAIN request.query =>
                       ~named(Forms \ {"{{args.k}}"})

\* A query of holes always runs, and every hole is bound to its own input, however
\* often a key occurs and whatever is quoted around it.  A hole within a quoted
\* string is the exception, and a query with a $n of its own: see
\* ParametersHaveValues.
BoundAsWritten ==
    job.type = "SQL" =>
        LET query == job.sql.query
            plain == \A i \in 1..Len(query) : query[i].kind = "hole" /\ ~query[i].inner
        IN  /\ (step = "connect" /\ plain) => Bindable(query)
            /\ maxSQLParamIndex(query) = 0 =>
                   \A a \in 1..Len(acts), i \in 1..Len(query) :
                       ~query[i].inner => acts[a].what[i] = ValueOf(job.input, query[i].key)

\* A SELECT that succeeds has read all the rows of the table up to the limit of its
\* config, 100 where there is none.
SelectIsComplete ==
    (outcome[c] = "ok" /\ job.type = "SQL" /\ IsSelect(job.sql)) =>
        got = job.table \/ (got > 0 /\ got = job.sql.max_rows) \/ got = 100

\* A document search that succeeds has read all matching chunks of its knowledge base
\* up to the number asked for, the best ones.
SearchIsComplete ==
    (outcome[c] = "ok" /\ job.type = "DOCUMENT_SEARCH") =>
        LET found == Matches(job.doc, job.corpus)
            read == {d \in found : Cardinality(Better(found, d)) < got}
        IN  \A d \in job.corpus \ read :
                \/ d.base /= KnowledgeBase(job.doc)
                \/ d.score < MinScore(job.doc)
                \/ got = TopK(job.doc) /\ \A e \in read : e.score > d.score

\* A read that breaks off is never taken for its end: a success has all the rows, and
\* all the chunks, that its query means.
RowsAreComplete == SelectIsComplete /\ SearchIsComplete

\* Config.query may be "parameterized with $1, $2... or {{input.field}}", and the
\* tests of the renderer want a $n bound to the input of that name: when the
\* statement is about to run, every place has an argument, its own.
ParametersHaveValues ==
    step = "connect" =>
        LET query == job.sql.query
            key(i) == IF query[i].kind = "param" THEN query[i].name ELSE query[i].key
        IN  \A i \in 1..Len(query) :
                ~query[i].inner =>
                    /\ NumberAt(query, i) \in DOMAIN Args(query, input)
                    /\ Args(query, input)[NumberAt(query, i)] = ValueOf(input, key(i))
=============================================================================
