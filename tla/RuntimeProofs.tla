---------------------------- MODULE RuntimeProofs -----------------------------
(***************************************************************************)
(* Proofs about SkillRuntime, for any number of requests.                  *)
(*                                                                         *)
(* Every step of the pipeline is a step of its Invoker or leaves it alone, *)
(* so the invariants proved of Invoker hold here and are cited, as Loop!.  *)
(* PipelineInv adds what the handlers know: how far a request has come     *)
(* tells whether its call has begun, and its status what the call said.    *)
(***************************************************************************)
EXTENDS SkillRuntime, TLAPS

Loop == INSTANCE InvokerProofs WITH Calls <- Requests, Invokers <- Requests

LEMMA InvokerOfRequests == Loop!InvokerAssumption
BY RuntimeAssumption
DEF RuntimeAssumption, Loop!InvokerAssumption, InvokerOf, Loop!IsFiniteSet, IsFiniteSet

-----------------------------------------------------------------------------
(* The pipeline takes only steps of its invoker *)

LEMMA ReturnsAreValues ==
    ASSUME NEW t PROVE ExecutorReturns(t) \subseteq Loop!ReturnValues
BY DEF ExecutorReturns, Loop!ReturnValues, Loop!Success

LEMMA InvokeIsCallStep ==
    ASSUME NEW r \in Requests, InvokeStep(r) \/ Inv!CancelCtx(r) PROVE Loop!CallStep(r)
BY ReturnsAreValues
DEF InvokeStep, Loop!CallStep, Loop!Return, Inv!LoopStep, Loop!LoopStep,
    Inv!RejectOpen, Loop!RejectOpen, Inv!Open, Loop!Open, Inv!NoteStreak, Loop!NoteStreak,
    Inv!Finish, Loop!Finish, Inv!Admit, Loop!Admit, Inv!StartAttempt, Loop!StartAttempt,
    Inv!ExecuteReturns, Loop!ExecuteReturns, Inv!AttemptTimeout, Loop!AttemptTimeout,
    Inv!history, Loop!history, Inv!Success, Loop!Success, Inv!Succeed, Loop!Succeed,
    Inv!CountFailure, Loop!CountFailure, Inv!FailPermanent, Loop!FailPermanent,
    Inv!FailExhausted, Loop!FailExhausted, Inv!StartBackoff, Loop!StartBackoff,
    Inv!Retry, Loop!Retry, Inv!CancelledInBackoff, Loop!CancelledInBackoff,
    Inv!CancelCtx, Loop!CancelCtx

\* A handler that answers or passes the request on, for whatever reason.
HandlerMoves(r) ==
    /\ UNCHANGED <<invokerVars, route, body>>
    /\ \/ Auth(r) \/ ParseBody(r) \/ Resolve(r) \/ Dispatch(r) \/ Respond(r) \/ Panic(r)

\* What a step of the pipeline is to the invoker.
LEMMA StepOfRequest ==
    ASSUME [Next]_vars
    PROVE  \/ UNCHANGED vars
           \/ \E r \in Requests : HandlerMoves(r)
           \/ \E r \in Requests :
                /\ stage[r] /= "done"
                /\ Loop!CallStep(r)
                /\ stage[r] /= "invoke" => UNCHANGED pc
                /\ UNCHANGED <<stage, route, body, tool, status>>
<1>1. ASSUME NEW r \in Requests, Handler(r) \/ Panic(r) PROVE HandlerMoves(r)
  BY <1>1 DEF HandlerMoves, Handler, Auth, ParseBody, Resolve, Dispatch, Respond, Panic,
     Proceed, Answer
<1>2. ASSUME NEW r \in Requests, Invoke(r) \/ Disconnect(r)
      PROVE  /\ stage[r] /= "done"
             /\ Loop!CallStep(r)
             /\ stage[r] /= "invoke" => UNCHANGED pc
             /\ UNCHANGED <<stage, route, body, tool, status>>
  BY <1>2, InvokeIsCallStep DEF Invoke, Disconnect, Inv!CancelCtx
<1> QED
  BY <1>1, <1>2 DEF Next

LEMMA StepOfInvoker == [Next]_vars => [Loop!Next]_(Loop!vars)
BY StepOfRequest
DEF HandlerMoves, vars, invokerVars, Loop!Next, Loop!vars, Loop!callVars, Loop!history

\* The spec of the invoker under either of its names.
LEMMA SameInvoker ==
    /\ Inv!Init <=> Loop!Init
    /\ [Loop!Next]_(Loop!vars) => [Inv!Next]_(Inv!vars)
<1>1. Inv!Init <=> Loop!Init
  BY DEF Inv!Init, Loop!Init
<1>2. Loop!Next => Inv!Next
  BY DEF Inv!Next, Loop!Next, Inv!CallStep, Loop!CallStep, Inv!Return, Loop!Return,
     Inv!LoopStep, Loop!LoopStep, Inv!ReturnValues, Loop!ReturnValues,
     Inv!RejectOpen, Loop!RejectOpen, Inv!Open, Loop!Open, Inv!NoteStreak, Loop!NoteStreak,
     Inv!Finish, Loop!Finish, Inv!Admit, Loop!Admit, Inv!StartAttempt, Loop!StartAttempt,
     Inv!ExecuteReturns, Loop!ExecuteReturns, Inv!AttemptTimeout, Loop!AttemptTimeout,
     Inv!history, Loop!history, Inv!Success, Loop!Success, Inv!Succeed, Loop!Succeed,
     Inv!CountFailure, Loop!CountFailure, Inv!FailPermanent, Loop!FailPermanent,
     Inv!FailExhausted, Loop!FailExhausted, Inv!StartBackoff, Loop!StartBackoff,
     Inv!Retry, Loop!Retry, Inv!CancelledInBackoff, Loop!CancelledInBackoff,
     Inv!CancelCtx, Loop!CancelCtx
<1> QED
  BY <1>1, <1>2 DEF Inv!vars, Loop!vars, Inv!callVars, Loop!callVars, Inv!history, Loop!history

\* Between authentication and response, Invoke does what module Invoker says, for
\* any number of requests: what InvokerProofs shows of it holds in the pipeline.
THEOREM PipelineKeepsInvoker == Spec => InvokerIsKept
<1>1. Init => Inv!Init
  BY DEF Init
<1>2. [Next]_vars => [Inv!Next]_(Inv!vars)
  BY StepOfInvoker, SameInvoker
<1> QED
  BY <1>1, <1>2, PTL DEF Spec, InvokerIsKept, Inv!Spec

-----------------------------------------------------------------------------
(* A status and the call behind it *)

\* An answered request: its call never began; it ended with the outcome the
\* status stands for; or its executor panicked.
Settled(r) ==
    \/ status[r] \in {400, 401, 404, 422, 500} /\ pc[r] = "idle"
    \/ status[r] = 503 /\ outcome[r] = "open"
    \/ status[r] = 200 /\ outcome[r] = "ok"
    \/ status[r] = 500 /\ outcome[r] \in {"permanent", "exhausted", "cancelled"}
    \/ status[r] = 500 /\ pc[r] = "executing"

Stages == {"auth", "parse", "resolve", "dispatch", "invoke", "done"}

PipelineInvOf(r) ==
    /\ stage[r] \notin {"invoke", "done"} => pc[r] = "idle" /\ status[r] = 0
    /\ stage[r] = "invoke" => status[r] = 0
    /\ stage[r] = "done" => Settled(r)

RequestsTyped ==
    /\ stage \in [Requests -> Stages]
    /\ route \in [Requests -> Routes]
    /\ body \in [Requests -> Bodies]
    /\ tool \in [Requests -> ToolRows \cup {NoTool}]
    /\ status \in [Requests -> {0, 200, 400, 401, 404, 422, 500, 503}]

PipelineInv ==
    /\ Loop!LoopInv /\ Loop!AnswerInv
    /\ RequestsTyped
    /\ \A r \in Requests : PipelineInvOf(r)

LEMMA PipelineInit == Init => PipelineInv
<1> SUFFICES ASSUME Init PROVE PipelineInv
  OBVIOUS
<1>1. Loop!Init
  BY SameInvoker DEF Init
<1>2. Loop!LoopInv
  BY <1>1, Loop!LoopInit, InvokerOfRequests
<1>3. Loop!AnswerInv
  BY <1>1 DEF Loop!Init, Loop!AnswerInv
<1>4. RequestsTyped
  BY DEF Init, RequestsTyped, Stages
<1>5. \A r \in Requests : PipelineInvOf(r)
  BY DEF Init, Inv!Init, PipelineInvOf
<1> QED
  BY <1>2, <1>3, <1>4, <1>5 DEF PipelineInv

LEMMA HandlerKeepsInv ==
    ASSUME PipelineInv, NEW r \in Requests, HandlerMoves(r)
    PROVE  RequestsTyped' /\ \A q \in Requests : PipelineInvOf(q)'
<1> USE DEF PipelineInv, RequestsTyped, PipelineInvOf, Settled, Stages, HandlerMoves,
        invokerVars, Proceed, Answer
<1>1. CASE Auth(r)
  BY <1>1 DEF Auth
<1>2. CASE ParseBody(r)
  BY <1>2 DEF ParseBody
<1>3. CASE Resolve(r)
  BY <1>3 DEF Resolve
<1>4. CASE Dispatch(r)
  BY <1>4 DEF Dispatch
<1>5. CASE Respond(r)
  <2>1. outcome[r] \in {"permanent", "exhausted", "cancelled", "ok", "open"}
    BY <1>5 DEF Respond, Loop!LoopInv, Loop!LoopInvOf, Loop!TypeOK, Loop!Outcomes,
       Loop!CountedOutcomes
  <2>2. /\ StatusOf(outcome[r]) \in {200, 500, 503}
        /\ StatusOf(outcome[r]) = 200 <=> outcome[r] = "ok"
        /\ StatusOf(outcome[r]) = 503 <=> outcome[r] = "open"
    BY <2>1 DEF StatusOf
  <2>3. Answer(r, StatusOf(outcome[r])) /\ UNCHANGED tool /\ stage[r] = "invoke"
    BY <1>5 DEF Respond
  <2> QED
    BY <2>1, <2>2, <2>3
<1>6. CASE Panic(r)
  BY <1>6 DEF Panic
<1> QED
  BY <1>1, <1>2, <1>3, <1>4, <1>5, <1>6

LEMMA PipelineStep == PipelineInv /\ [Next]_vars => PipelineInv'
<1> SUFFICES ASSUME PipelineInv, [Next]_vars PROVE PipelineInv'
  OBVIOUS
<1>1. Loop!LoopInv'
  BY StepOfInvoker, Loop!LoopStepKeepsInv, InvokerOfRequests DEF PipelineInv
<1>2. Loop!AnswerInv'
  BY StepOfInvoker, Loop!AnswerStep, InvokerOfRequests DEF PipelineInv
<1>3. RequestsTyped' /\ \A q \in Requests : PipelineInvOf(q)'
  <2>1. CASE UNCHANGED vars
    BY <2>1 DEF PipelineInv, vars, invokerVars, RequestsTyped, PipelineInvOf, Settled
  <2>2. ASSUME NEW r \in Requests, HandlerMoves(r)
        PROVE  RequestsTyped' /\ \A q \in Requests : PipelineInvOf(q)'
    BY <2>2, HandlerKeepsInv
  <2>3. ASSUME NEW r \in Requests, stage[r] /= "done", Loop!CallStep(r),
               stage[r] /= "invoke" => UNCHANGED pc,
               UNCHANGED <<stage, route, body, tool, status>>
        PROVE  RequestsTyped' /\ \A q \in Requests : PipelineInvOf(q)'
    <3>1. \A q \in Requests : q /= r => pc'[q] = pc[q] /\ outcome'[q] = outcome[q]
      BY <2>3, Loop!OthersUntouched, InvokerOfRequests DEF PipelineInv
    <3>2. RequestsTyped'
      BY <2>3 DEF PipelineInv, RequestsTyped
    <3>3. ASSUME NEW q \in Requests PROVE PipelineInvOf(q)'
      BY <2>3, <3>1 DEF PipelineInv, PipelineInvOf, Settled
    <3> QED
      BY <3>2, <3>3
  <2> QED
    BY <2>1, <2>2, <2>3, StepOfRequest
<1> QED
  BY <1>1, <1>2, <1>3 DEF PipelineInv

LEMMA PipelineInvHolds == Spec => []PipelineInv
BY PipelineInit, PipelineStep, PTL DEF Spec

\* Every variable of the pipeline keeps its type, those of its invoker included.
THEOREM PipelineTypeCorrect == Spec => []TypeOK
<1>1. PipelineInv => TypeOK
  BY DEF PipelineInv, RequestsTyped, Stages, TypeOK, Loop!LoopInv, Loop!TypeOK, Inv!TypeOK,
     Loop!PCs, Inv!PCs, Loop!ReturnValues, Inv!ReturnValues, Loop!Success, Inv!Success,
     Loop!Outcomes, Inv!Outcomes, Loop!CountedOutcomes, Inv!CountedOutcomes
<1> QED
  BY <1>1, PipelineInvHolds, PTL

\* The status of a response fits the executions behind it: a refusal has none, and
\* a 200 is written exactly when the last one succeeded.
THEOREM StatusIsHonest == Spec => []StatusFitsRuns
<1>1. ASSUME PipelineInv, NEW r \in Requests
      PROVE  /\ status[r] \in {400, 401, 404, 422, 503} => runs[r] = 0
             /\ status[r] = 200 => ret[r] \in Inv!Success
             /\ (stage[r] = "done" /\ ret[r] \in Inv!Success) => status[r] = 200
  <2>1. stage[r] \in Stages /\ PipelineInvOf(r) /\ Loop!LoopInvOf(r)
    BY <1>1 DEF PipelineInv, RequestsTyped, Loop!LoopInv
  <2>2. outcome[r] = "ok" <=> pc[r] = "done" /\ ret[r] \in Inv!Success
    BY <1>1 DEF PipelineInv, Loop!AnswerInv, Loop!Success, Inv!Success
  <2>3. pc[r] \in {"idle", "executing", "returned", "backoff", "done"}
    BY <1>1 DEF PipelineInv, Loop!LoopInv, Loop!TypeOK, Loop!PCs
  <2>4. /\ pc[r] \in {"idle", "executing"} => ret[r] = "none"
        /\ pc[r] = "idle" => runs[r] = 0
        /\ outcome[r] = "open" => runs[r] = 0
        /\ outcome[r] /= "none" => pc[r] = "done"
    BY <2>1, <2>3 DEF Loop!LoopInvOf
  <2> QED
    BY <2>1, <2>2, <2>4 DEF PipelineInvOf, Settled, Stages, Inv!Success
<1>2. PipelineInv => StatusFitsRuns
  BY <1>1 DEF StatusFitsRuns
<1> QED
  BY <1>2, PipelineInvHolds, PTL
=============================================================================
