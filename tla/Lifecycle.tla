----------------------------- MODULE Lifecycle ------------------------------
(***************************************************************************)
(* cmd/skillruntime/main.go: the process from its start to its exit, with  *)
(* the database pool that every request shares.  The main goroutine loads  *)
(* its configuration, connects, serves, and on a signal drains the server  *)
(* (Shutdown), closes the pool (deferred) and returns, which ends whatever *)
(* still runs.                                                             *)
(*                                                                         *)
(* A request is a sequence of queries, each on a connection of the pool,   *)
(* and of executions that need none.  What they compute is left to the     *)
(* other modules: here a query hits, misses or fails, and an execution     *)
(* succeeds or fails.                                                      *)
(***************************************************************************)
EXTENDS Naturals, FiniteSets, SequencesExt

CONSTANTS
    Requests,
    Kinds,          \* which requests there are (KindType)
    Conns,          \* MaxConns
    MaxTries        \* Config.MaxRetries + 1

\* /ready pings the pool; an execute route looks a tool of some type up.
KindType ==
    [route : {"ready", "tool", "skill"},
     tool : {"none", "HTTP", "SQL", "DOCUMENT_SEARCH", "MCP", "SCRIPT"}]

ASSUME LifecycleAssumption ==
    /\ IsFiniteSet(Requests)
    /\ Kinds \subseteq KindType
    /\ Conns \in Nat \ {0}
    /\ MaxTries \in Nat \ {0}

VARIABLES
    main,       \* where the main goroutine is
    drain,      \* what Shutdown returned: "none" before, then "nil" or "deadline"
    kind,       \* the kind of each request
    stage,      \* where each request is
    work,       \* what each request has yet to do in its stage
    tries,      \* the attempts of its execution
    left,       \* the requests whose clients have left, which ends their contexts
    waiters,    \* the requests waiting for a connection, in order
    holding,    \* [Requests -> Nat], the connections each of them has
    refused     \* history: the requests that met a closed pool

requestVars == <<kind, stage, work, tries, left, waiters, holding, refused>>
vars == <<main, drain, requestVars>>

-----------------------------------------------------------------------------
(* What requests do *)

\* The queries of the resolver, or the ping.
Lookups(k) == IF k.route = "skill" THEN <<"query", "query", "query">> ELSE <<"query">>

\* One attempt: SQL and MCP read their row before they run, a document search
\* queries after its embedding has arrived.
Attempt(k) ==
    IF k.tool \in {"SQL", "MCP"} THEN <<"query", "run">>
    ELSE IF k.tool = "DOCUMENT_SEARCH" THEN <<"run", "query">>
    ELSE <<"run">>

InFlight(r) == stage[r] \in {"lookup", "execute"}
Held == FoldFunction(LAMBDA n, sum : n + sum, 0, holding)

\* Mutated: the pool is closed as soon as the signal arrives.
PoolClosed_AtSignal == main \in {"draining", "closing"}

PoolClosed == main = "closing"
Alive == main \in {"serving", "draining", "closing"}
Waiting(r) == r \in ToSet(waiters)

Init ==
    /\ main = "loading"
    /\ drain = "none"
    /\ kind \in [Requests -> Kinds]
    /\ stage = [r \in Requests |-> "new"]
    /\ work = [r \in Requests |-> <<>>]
    /\ tries = [r \in Requests |-> 0]
    /\ left = {}
    /\ waiters = <<>>
    /\ holding = [r \in Requests |-> 0]
    /\ refused = {}

TypeOK ==
    /\ main \in {"loading", "connecting", "serving", "draining", "closing", "exited"}
    /\ drain \in {"none", "nil", "deadline"}
    /\ kind \in [Requests -> Kinds]
    /\ stage \in [Requests -> {"new", "lookup", "execute", "answered", "lost"}]
    /\ \A r \in Requests : IsSuffix(work[r], Lookups(kind[r])) \/ IsSuffix(work[r], Attempt(kind[r]))
    /\ tries \in [Requests -> 0..MaxTries]
    /\ left \subseteq Requests /\ refused \subseteq Requests
    /\ IsInjective(waiters) /\ ToSet(waiters) \subseteq Requests
    /\ holding \in [Requests -> 0..1] /\ Held <= Conns
    /\ \A r \in Requests : (Waiting(r) \/ holding[r] > 0) => InFlight(r)

-----------------------------------------------------------------------------
(* The requests *)

\* The listener is open until Shutdown.
Arrive(r) ==
    /\ main = "serving"
    /\ stage[r] = "new"
    /\ stage' = [stage EXCEPT ![r] = "lookup"]
    /\ work' = [work EXCEPT ![r] = Lookups(kind[r])]
    /\ UNCHANGED <<main, drain, kind, tries, left, waiters, holding, refused>>

AnswerNow(r) ==
    /\ stage' = [stage EXCEPT ![r] = "answered"]
    /\ work' = [work EXCEPT ![r] = <<>>]
    /\ UNCHANGED tries

TryTool(r) ==
    /\ stage' = [stage EXCEPT ![r] = "execute"]
    /\ work' = [work EXCEPT ![r] = Attempt(kind[r])]
    /\ tries' = [tries EXCEPT ![r] = @ + 1]

Continue(r) ==
    /\ work' = [work EXCEPT ![r] = Tail(@)]
    /\ UNCHANGED <<stage, tries>>

\* The step at the head of work succeeded.  The probe is answered, and so is a
\* request for a tool without an executor.
Succeeds(r) ==
    IF stage[r] = "lookup"
    THEN IF kind[r].tool = "none" THEN AnswerNow(r) ELSE TryTool(r)
    ELSE IF Len(work[r]) > 1 THEN Continue(r) ELSE AnswerNow(r)

\* It missed or failed: the resolver asks its next source, Invoke tries again.
\* When the client has left in the backoff, select may pick either.
Fails(r) ==
    IF stage[r] = "lookup" /\ Len(work[r]) > 1 THEN Continue(r)
    ELSE \/ stage[r] = "execute" /\ tries[r] < MaxTries /\ TryTool(r)
         \/ (stage[r] = "lookup" \/ tries[r] = MaxTries \/ r \in left) /\ AnswerNow(r)

Ready(r, what) ==
    /\ Alive /\ InFlight(r)
    /\ Head(work[r]) = what

\* Mutated: a second query is begun while the first one waits for its connection.
Acquire_Twice(r) ==
    /\ Ready(r, "query")
    /\ holding[r] = 0 /\ Len(waiters) < 4
    /\ IF PoolClosed
       THEN Fails(r) /\ refused' = refused \cup {r} /\ UNCHANGED waiters
       ELSE waiters' = Append(waiters, r) /\ UNCHANGED <<stage, work, tries, refused>>
    /\ UNCHANGED <<main, drain, kind, left, holding>>

\* pool.QueryRow, pool.Query and pool.Ping begin with Acquire.
Acquire(r) ==
    /\ Ready(r, "query")
    /\ ~Waiting(r) /\ holding[r] = 0
    /\ IF PoolClosed
       THEN Fails(r) /\ refused' = refused \cup {r} /\ UNCHANGED waiters
       ELSE waiters' = Append(waiters, r) /\ UNCHANGED <<stage, work, tries, refused>>
    /\ UNCHANGED <<main, drain, kind, left, holding>>

\* The pool serves its waiters in order.
Grant ==
    /\ Alive /\ ~PoolClosed
    /\ waiters /= <<>> /\ Held < Conns
    /\ holding' = [holding EXCEPT ![Head(waiters)] = @ + 1]
    /\ waiters' = Tail(waiters)
    /\ UNCHANGED <<main, drain, kind, stage, work, tries, left, refused>>

StopWaiting(r) ==
    /\ Ready(r, "query")
    /\ Waiting(r)
    /\ \E i \in 1..Len(waiters) : waiters[i] = r /\ waiters' = RemoveAt(waiters, i)
    /\ Fails(r)
    /\ UNCHANGED <<main, drain, kind, left, holding>>

\* The context ended: the client's, or that of an attempt.  The resolver's queries
\* have no other.
Abandon(r) == (r \in left \/ stage[r] = "execute") /\ StopWaiting(r) /\ UNCHANGED refused

\* Close sends the waiters away.
TurnAway(r) == PoolClosed /\ StopWaiting(r) /\ refused' = refused \cup {r}

\* Mutated: the rows of a query are left open until the request ends.
QueryEnds_KeepsRows(r) ==
    /\ Ready(r, "query")
    /\ holding[r] > 0 /\ ~Waiting(r)
    /\ \/ holding' = [holding EXCEPT ![r] = 0] /\ Succeeds(r) /\ UNCHANGED waiters
       \/ /\ Fails(r)
          /\ IF stage'[r] = "answered" \/ work'[r][1] = "run"
             THEN holding' = [holding EXCEPT ![r] = 0] /\ UNCHANGED waiters
             ELSE waiters' = Append(waiters, r) /\ UNCHANGED holding
    /\ UNCHANGED <<main, drain, kind, left, refused>>

\* The row is scanned or the rows are closed, and the connection goes back.
QueryEnds(r) ==
    /\ Ready(r, "query")
    /\ holding[r] > 0
    /\ holding' = [holding EXCEPT ![r] = 0]
    /\ Succeeds(r) \/ Fails(r)
    /\ UNCHANGED <<main, drain, kind, left, waiters, refused>>

\* The config of the tool lacks a field, which an executor that begins with a
\* query notices before it: a permanent error for SQL.
Incomplete(r) ==
    /\ Ready(r, "query")
    /\ stage[r] = "execute" /\ work[r] = <<"query", "run">>
    /\ ~Waiting(r) /\ holding[r] = 0
    /\ IF kind[r].tool = "SQL" THEN AnswerNow(r) ELSE Fails(r)
    /\ UNCHANGED <<main, drain, kind, left, waiters, holding, refused>>

\* The part of an execution that uses no connection of the pool is over.
RunEnds(r) ==
    /\ Ready(r, "run")
    /\ Succeeds(r) \/ Fails(r)
    /\ UNCHANGED <<main, drain, kind, left, waiters, holding, refused>>

ClientLeaves(r) ==
    /\ Alive /\ InFlight(r)
    /\ left' = left \cup {r}
    /\ UNCHANGED <<main, drain, kind, stage, work, tries, waiters, holding, refused>>

-----------------------------------------------------------------------------
(* The main goroutine *)

GoOn(next) == main' = next /\ UNCHANGED <<drain, requestVars>>

\* The process ends with everything in it.
Exit ==
    /\ main' = "exited"
    /\ stage' = [r \in Requests |-> IF InFlight(r) THEN "lost" ELSE stage[r]]
    /\ waiters' = <<>>
    /\ holding' = [r \in Requests |-> 0]
    /\ UNCHANGED <<drain, kind, work, tries, left, refused>>

\* Load wants its variables; a failure exits.
LoadConfig == main = "loading" /\ (GoOn("connecting") \/ Exit)

\* NewPool pings; then the handler for signals is in place.
Connect == main = "connecting" /\ (GoOn("serving") \/ Exit)

\* ListenAndServe failed: os.Exit, which runs nothing deferred.
ListenFails == main = "serving" /\ Exit

\* SIGINT or SIGTERM ends a process that has not asked for it yet.
Signal ==
    \/ main \in {"loading", "connecting"} /\ Exit
    \/ main = "serving" /\ GoOn("draining")

ShutdownReturns(result) ==
    /\ main = "draining"
    /\ drain' = result
    /\ main' = "closing"
    /\ UNCHANGED requestVars

\* Mutated: only the requests that use the database are waited for.
Drained_IdlePool == waiters = <<>> /\ Held = 0 /\ ShutdownReturns("nil")

\* No connection is active any more.
Drained == (\A r \in Requests : ~InFlight(r)) /\ ShutdownReturns("nil")

\* Mutated: Shutdown runs on a context without a deadline.
DrainDeadline_Never == FALSE /\ ShutdownReturns("deadline")

\* 30 s are over; the error is logged and main goes on.
DrainDeadline == (\E r \in Requests : InFlight(r)) /\ ShutdownReturns("deadline")

\* pool.Close returns when every connection is back, and main after it.
CloseReturns == PoolClosed /\ Held = 0 /\ Exit

Main == LoadConfig \/ Connect \/ Drained \/ DrainDeadline \/ CloseReturns

RequestStep(r) ==
    \/ Arrive(r) \/ Acquire(r) \/ Abandon(r) \/ TurnAway(r)
    \/ QueryEnds(r) \/ Incomplete(r) \/ RunEnds(r) \/ ClientLeaves(r)

Next == Main \/ Signal \/ ListenFails \/ Grant \/ \E r \in Requests : RequestStep(r)

Spec == Init /\ [][Next]_vars

(***************************************************************************)
(* The main goroutine and the pool go on, and the database answers: no     *)
(* query has a deadline that would end it.  An execution ends with the     *)
(* context of its attempt, but for MCP, whose helper processes may hold it *)
(* (McpSession).  Nobody need leave, and no signal need come.              *)
(***************************************************************************)
Fairness ==
    /\ WF_vars(Main) /\ WF_vars(Grant)
    /\ \A r \in Requests :
        /\ WF_vars(Acquire(r)) /\ WF_vars(TurnAway(r)) /\ WF_vars(QueryEnds(r))
        /\ WF_vars(kind[r].tool /= "MCP" /\ RunEnds(r))

FairSpec == Spec /\ Fairness

-----------------------------------------------------------------------------
\* A graceful shutdown is graceful: when Shutdown returned nil, no request is cut
\* off by the exit, whether it was executing, querying or waiting for its turn.
DrainLosesNothing == drain = "nil" => \A r \in Requests : stage[r] /= "lost"

\* The pool outlives the requests it serves: only one that was still running when
\* the 30 s were over can find it closed (and be told 404 for a tool that exists).
ClosedPoolNeedsDeadline == refused /= {} => drain = "deadline"

\* Requests that share the connections never block each other for good: one that
\* waits for a connection gets it or ends, even when every other is waiting too.
EveryWaiterServed == \A r \in Requests : Waiting(r) ~> ~Waiting(r)

\* A signal ends the process, though an execution never ends: Shutdown gives up
\* on it, and Close waits only for connections.
SignalEnds == main = "draining" ~> main = "exited"
=============================================================================
