---------------------------- MODULE SkillRuntime ----------------------------
(***************************************************************************)
(* internal/server: what happens to an execute request between the Auth    *)
(* middleware and its response.  Each request runs in its own goroutine    *)
(* and, once its tool is resolved, makes one call of Invoke (module        *)
(* Invoker) on a ToolInvoker of its own.                                   *)
(*                                                                         *)
(* JwksCache and SkillResolver model authentication and resolution; here   *)
(* each of them succeeds or fails.                                         *)
(***************************************************************************)
EXTENDS Naturals, FiniteSets, Tools

CONSTANTS
    Requests,       \* the execute requests
    MaxRetries,     \* DefaultConfig, as in Invoker
    Threshold,
    HasTimeout

ASSUME RuntimeAssumption ==
    /\ IsFiniteSet(Requests)
    /\ MaxRetries \in Nat
    /\ Threshold \in Nat
    /\ HasTimeout \in BOOLEAN

VARIABLES
    stage,          \* what each request waits for next
    route,          \* "skill" or "tool"
    body,           \* the class of its body
    tool,           \* the row of the tool table it resolved to
    status,         \* the response, 0 before it is written
    failures, pc, attempt, ret, expired, ctxDone, outcome, runs, streak, due

invokerVars == <<failures, pc, attempt, ret, expired, ctxDone, outcome, runs, streak, due>>
vars == <<stage, route, body, tool, status, invokerVars>>

\* executeTool calls invoker.New for every request.
InvokerOf == [r \in Requests |-> r]

Inv == INSTANCE Invoker WITH Calls <- Requests, Invokers <- Requests

-----------------------------------------------------------------------------
(* Requests *)

Routes == {"skill", "tool"}

\* The bodies parseExecuteBody tells apart: not a JSON object; without "input";
\* with an "input" but no runner context; and, with a runner context, an
\* "input" that is null, an object, or something else.
Bodies == {"malformed", "flat", "inputOnly", "nullInput", "objectInput", "otherInput"}

\* The direct route takes any object as the input, the skill route refuses an
\* envelope whose input is not an object.
parseExecuteBodyFails(rt, b) == b = "malformed" \/ (rt = "skill" /\ b = "otherInput")

TypeOK ==
    /\ Inv!TypeOK
    /\ stage \in [Requests -> {"auth", "parse", "resolve", "dispatch", "invoke", "done"}]
    /\ route \in [Requests -> Routes]
    /\ body \in [Requests -> Bodies]
    /\ tool \in [Requests -> ToolRows \cup {NoTool}]
    /\ status \in [Requests -> {0, 200, 400, 401, 404, 422, 500, 503}]

Init ==
    /\ Inv!Init
    /\ stage = [r \in Requests |-> "auth"]
    /\ route \in [Requests -> Routes]
    /\ body \in [Requests -> Bodies]
    /\ tool = [r \in Requests |-> NoTool]
    /\ status = [r \in Requests |-> 0]

-----------------------------------------------------------------------------
(* The handlers *)

Proceed(r, next) ==
    /\ stage' = [stage EXCEPT ![r] = next]
    /\ UNCHANGED <<route, body, status, invokerVars>>

Answer(r, code) ==
    /\ stage' = [stage EXCEPT ![r] = "done"]
    /\ status' = [status EXCEPT ![r] = code]
    /\ UNCHANGED <<route, body, invokerVars>>

Auth(r) ==
    /\ stage[r] = "auth"
    /\ Answer(r, 401) \/ Proceed(r, "parse")
    /\ UNCHANGED tool

ParseBody(r) ==
    /\ stage[r] = "parse"
    /\ IF parseExecuteBodyFails(route[r], body[r])
       THEN Answer(r, 400)
       ELSE Proceed(r, "resolve")
    /\ UNCHANGED tool

\* Any error of the resolver, not only a missing row, is a 404.
Resolve(r) ==
    /\ stage[r] = "resolve"
    /\ \/ Answer(r, 404) /\ UNCHANGED tool
       \/ \E t \in ToolRows : tool' = [tool EXCEPT ![r] = t] /\ Proceed(r, "dispatch")

\* executeTool, up to the call of Invoke.
Dispatch(r) ==
    /\ stage[r] = "dispatch"
    /\ IF tool[r].type \notin Registered THEN Answer(r, 422)
       ELSE IF tool[r].config = "undecodable" THEN Answer(r, 500)
       ELSE Proceed(r, "invoke")
    /\ UNCHANGED tool

InvokeStep(r) ==
    \/ Inv!RejectOpen(r) \/ Inv!Admit(r) \/ Inv!AttemptTimeout(r)
    \/ \E v \in ExecutorReturns(tool[r]) : Inv!ExecuteReturns(r, v)
    \/ Inv!LoopStep(r)

Invoke(r) ==
    /\ stage[r] = "invoke"
    /\ InvokeStep(r)
    /\ UNCHANGED <<stage, route, body, tool, status>>

\* Mutated: every error of the invoker is reported as "temporarily unavailable".
StatusOf_AnyError(o) == IF o = "ok" THEN 200 ELSE 503

\* Result.Error is not looked at.
StatusOf(o) == CASE o = "ok" -> 200 [] o = "open" -> 503 [] OTHER -> 500

\* Mutated: a call that ran out of attempts is invoked once more.
Respond_InvokesAgain(r) ==
    /\ stage[r] = "invoke"
    /\ pc[r] = "done"
    /\ IF outcome[r] = "exhausted"
       THEN /\ pc' = [pc EXCEPT ![r] = "idle"]
            /\ UNCHANGED <<stage, route, body, status, failures, attempt, ret, expired,
                           ctxDone, outcome, runs, streak, due>>
       ELSE Answer(r, StatusOf(outcome[r]))
    /\ UNCHANGED tool

Respond(r) ==
    /\ stage[r] = "invoke"
    /\ pc[r] = "done"
    /\ Answer(r, StatusOf(outcome[r]))
    /\ UNCHANGED tool

\* An executor panics; Recovery answers and the call is abandoned.
Panic(r) ==
    /\ stage[r] = "invoke"
    /\ pc[r] = "executing"
    /\ Answer(r, 500)
    /\ UNCHANGED tool

\* The client disconnects: net/http cancels the context of the request.
Disconnect(r) ==
    /\ stage[r] /= "done"
    /\ Inv!CancelCtx(r)
    /\ UNCHANGED <<stage, route, body, tool, status>>

Handler(r) == Auth(r) \/ ParseBody(r) \/ Resolve(r) \/ Dispatch(r) \/ Respond(r)

Next == \E r \in Requests : Handler(r) \/ Invoke(r) \/ Panic(r) \/ Disconnect(r)

Spec == Init /\ [][Next]_vars

(***************************************************************************)
(* Goroutines that can run do.  Keycloak (bounded by its own timeout) and  *)
(* the database (bounded by nothing but the client's patience) answer.  In *)
(* Invoke, only a fired deadline or a cancelled context makes an executor  *)
(* return, and for a server of an MCP tool not even that is enough: a      *)
(* helper of it that holds a pipe keeps Execute waiting (McpSession).      *)
(***************************************************************************)
MayStay(t) == t.type = "MCP" /\ t.config = "complete"

ExecutorGivesUp(r) ==
    /\ stage[r] = "invoke"
    /\ ~MayStay(tool[r])
    /\ expired[r] \/ ctxDone[r]
    /\ \E v \in ExecutorReturns(tool[r]) : Inv!ExecuteReturns(r, v)
    /\ UNCHANGED <<stage, route, body, tool, status>>

InvokerRuns(r) ==
    /\ stage[r] = "invoke"
    /\ Inv!RejectOpen(r) \/ Inv!Admit(r) \/ Inv!AttemptTimeout(r) \/ Inv!LoopStep(r)
    /\ UNCHANGED <<stage, route, body, tool, status>>

Fairness ==
    \A r \in Requests :
        WF_vars(Handler(r)) /\ WF_vars(InvokerRuns(r)) /\ WF_vars(ExecutorGivesUp(r))

FairSpec == Spec /\ Fairness

-----------------------------------------------------------------------------
\* The status tells a client whether its call had an effect.  A 4xx and a 503 are
\* clean refusals: the tool has not run and never will for this request, so the
\* agent may correct the call and send it again.  A 200 reports the last execution,
\* and every request whose execution did succeed is answered 200: retries,
\* cancellation and panics never turn an error into a success or a success into an
\* error.
StatusFitsRuns ==
    \A r \in Requests :
        /\ status[r] \in {400, 401, 404, 422, 503} => runs[r] = 0
        /\ status[r] = 200 => ret[r] \in Inv!Success
        /\ (stage[r] = "done" /\ ret[r] \in Inv!Success) => status[r] = 200

\* In the pipeline, Invoke behaves as module Invoker says, with one invoker per
\* request: what is proved there holds here.
InvokerIsKept == Inv!Spec

\* Every request is answered, even when its tool never returns by itself, unless it
\* is left for ever in an attempt that calls the server of an MCP tool.
EveryRequestAnswered ==
    \A r \in Requests :
        <>(stage[r] = "done") \/ <>[](pc[r] = "executing" /\ MayStay(tool[r]))

\* Result.Error "describes the failure reason when execution was unsuccessful":
\* an execution that set it is not answered as a success.
UnsuccessfulIsNot200 == \A r \in Requests : status[r] = 200 => ret[r] /= "soft"
=============================================================================
