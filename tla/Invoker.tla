------------------------------ MODULE Invoker -------------------------------
(***************************************************************************)
(* internal/invoker/invoker.go: ToolInvoker.Invoke, the loop that wraps a  *)
(* ToolExecutor with a circuit breaker, a timeout per attempt and retries. *)
(*                                                                         *)
(* Every member of Calls is one call of Invoke, run by its own goroutine.  *)
(* Calls made on the same *ToolInvoker share its failures counter, whose   *)
(* Load, Store and Add are separate atomic operations: InvokerOf says which *)
(* call uses which invoker, so one module models a shared invoker and the  *)
(* server's invoker-per-request.                                           *)
(*                                                                         *)
(* Time is abstract: the attempt deadline and the backoff timer are events *)
(* (Deadlines models the durations).                                       *)
(***************************************************************************)
EXTENDS Naturals, FiniteSets

CONSTANTS
    Calls,          \* the calls of Invoke
    Invokers,       \* the *ToolInvoker values
    InvokerOf,      \* the invoker each call is made on
    MaxRetries,     \* Config.MaxRetries
    Threshold,      \* Config.CircuitBreakerThreshold, 0 disables the breaker
    HasTimeout      \* Config.Timeout > 0

ASSUME InvokerAssumption ==
    /\ IsFiniteSet(Calls)
    /\ InvokerOf \in [Calls -> Invokers]
    /\ MaxRetries \in Nat
    /\ Threshold \in Nat
    /\ HasTimeout \in BOOLEAN

VARIABLES
    failures,   \* [Invokers -> Nat], the atomic counter of each invoker
    pc,         \* where each call is
    attempt,    \* the loop variable of each call
    ret,        \* what the last Execute of each call returned
    expired,    \* the attempt context of each call passed its deadline
    ctxDone,    \* the caller's context of each call was cancelled
    outcome,    \* what Invoke returned
    runs,       \* history: how often each call executed the tool
    streak,     \* history: failures answered since the last success, over all calls
    due         \* history: the streak had reached Threshold when the call began

callVars == <<pc, attempt, ret, expired, ctxDone, outcome>>
history == <<runs, streak, due>>
vars == <<failures, callVars, history>>

\* Execute returns (result, nil); (result with its Error set, nil), which is
\* "soft"; an ordinary error; or an error that IsPermanent recognises.
Success == {"ok", "soft"}
ReturnValues == Success \cup {"transient", "permanent"}
CountedOutcomes == {"permanent", "exhausted"}
Outcomes == CountedOutcomes \cup {"none", "ok", "open", "cancelled"}
PCs == {"idle", "executing", "returned", "backoff", "done"}

TypeOK ==
    /\ failures \in [Invokers -> Nat]
    /\ pc \in [Calls -> PCs]
    /\ attempt \in [Calls -> 0..MaxRetries]
    /\ ret \in [Calls -> ReturnValues \cup {"none"}]
    /\ expired \in [Calls -> BOOLEAN]
    /\ ctxDone \in [Calls -> BOOLEAN]
    /\ outcome \in [Calls -> Outcomes]
    /\ runs \in [Calls -> Nat]
    /\ streak \in Nat
    /\ due \in [Calls -> BOOLEAN]

Init ==
    /\ failures = [i \in Invokers |-> 0]
    /\ pc = [c \in Calls |-> "idle"]
    /\ attempt = [c \in Calls |-> 0]
    /\ ret = [c \in Calls |-> "none"]
    /\ expired = [c \in Calls |-> FALSE]
    /\ ctxDone = [c \in Calls |-> FALSE]
    /\ outcome = [c \in Calls |-> "none"]
    /\ runs = [c \in Calls |-> 0]
    /\ streak = 0
    /\ due = [c \in Calls |-> FALSE]

-----------------------------------------------------------------------------
(* The breaker *)

\* Mutated: the breaker trips one failure late.
Open_OffByOne(i) == Threshold > 0 /\ failures[i] > Threshold

Open(i) == Threshold > 0 /\ failures[i] >= Threshold

\* Mutated: the counter is bumped once for every attempt of the call.
CountFailure_PerAttempt(c) ==
    /\ failures' = [failures EXCEPT ![InvokerOf[c]] = @ + attempt[c] + 1]
    /\ streak' = streak + 1

\* inv.failures.Add(1), then the call returns.
CountFailure(c) ==
    /\ failures' = [failures EXCEPT ![InvokerOf[c]] = @ + 1]
    /\ streak' = streak + 1

Finish(c, o) ==
    /\ pc' = [pc EXCEPT ![c] = "done"]
    /\ outcome' = [outcome EXCEPT ![c] = o]

-----------------------------------------------------------------------------
(* The steps of Invoke *)

NoteStreak(c) == due' = [due EXCEPT ![c] = Threshold > 0 /\ streak >= Threshold]

\* The Load at the top of Invoke found the circuit open.
RejectOpen(c) ==
    /\ pc[c] = "idle"
    /\ Open(InvokerOf[c])
    /\ NoteStreak(c)
    /\ Finish(c, "open")
    /\ UNCHANGED <<failures, attempt, ret, expired, ctxDone, runs, streak>>

\* attemptOnce: a fresh context WithTimeout, and Execute is entered.
StartAttempt(c) ==
    /\ pc' = [pc EXCEPT ![c] = "executing"]
    /\ expired' = [expired EXCEPT ![c] = FALSE]
    /\ ret' = [ret EXCEPT ![c] = "none"]
    /\ runs' = [runs EXCEPT ![c] = @ + 1]

\* The circuit is closed: attempt 0 starts.
Admit(c) ==
    /\ pc[c] = "idle"
    /\ ~Open(InvokerOf[c])
    /\ NoteStreak(c)
    /\ StartAttempt(c)
    /\ UNCHANGED <<failures, attempt, ctxDone, outcome, streak>>

\* The executor answers; it may do so before or after its context ends.
ExecuteReturns(c, r) ==
    /\ pc[c] = "executing"
    /\ ret' = [ret EXCEPT ![c] = r]
    /\ pc' = [pc EXCEPT ![c] = "returned"]
    /\ UNCHANGED <<failures, attempt, expired, ctxDone, outcome, runs, streak, due>>

\* Mutated: the test of cfg.Timeout is inverted.
AttemptTimeout_Inverted(c) ==
    /\ ~HasTimeout
    /\ pc[c] = "executing"
    /\ ~expired[c]
    /\ expired' = [expired EXCEPT ![c] = TRUE]
    /\ UNCHANGED <<failures, pc, attempt, ret, ctxDone, outcome, history>>

\* The deadline of the attempt's context passes.
AttemptTimeout(c) ==
    /\ HasTimeout
    /\ pc[c] = "executing"
    /\ ~expired[c]
    /\ expired' = [expired EXCEPT ![c] = TRUE]
    /\ UNCHANGED <<failures, pc, attempt, ret, ctxDone, outcome, history>>

\* err == nil: Store(0), whatever the Result says in its Error field.
Succeed(c) ==
    /\ pc[c] = "returned"
    /\ ret[c] \in Success
    /\ failures' = [failures EXCEPT ![InvokerOf[c]] = 0]
    /\ streak' = 0
    /\ Finish(c, "ok")
    /\ UNCHANGED <<attempt, ret, expired, ctxDone, runs, due>>

\* IsPermanent(err): counted, and returned without a retry.
FailPermanent(c) ==
    /\ pc[c] = "returned"
    /\ ret[c] = "permanent"
    /\ CountFailure(c)
    /\ Finish(c, "permanent")
    /\ UNCHANGED <<attempt, ret, expired, ctxDone, runs, due>>

\* Mutated: permanent errors are retried too.
StartBackoff_RetriesPermanent(c) ==
    /\ pc[c] = "returned"
    /\ ret[c] \in {"transient", "permanent"}
    /\ attempt[c] < MaxRetries
    /\ pc' = [pc EXCEPT ![c] = "backoff"]
    /\ UNCHANGED <<failures, attempt, ret, expired, ctxDone, outcome, history>>

\* Mutated: one attempt too many.
StartBackoff_OffByOne(c) ==
    /\ pc[c] = "returned"
    /\ ret[c] = "transient"
    /\ attempt[c] <= MaxRetries
    /\ pc' = [pc EXCEPT ![c] = "backoff"]
    /\ UNCHANGED <<failures, attempt, ret, expired, ctxDone, outcome, history>>

\* An ordinary error with attempts left: wait for the retry delay.
StartBackoff(c) ==
    /\ pc[c] = "returned"
    /\ ret[c] = "transient"
    /\ attempt[c] < MaxRetries
    /\ pc' = [pc EXCEPT ![c] = "backoff"]
    /\ UNCHANGED <<failures, attempt, ret, expired, ctxDone, outcome, history>>

\* Mutated: the loop gives up one attempt early.
FailExhausted_OffByOne(c) ==
    /\ pc[c] = "returned"
    /\ ret[c] = "transient"
    /\ attempt[c] + 1 >= MaxRetries
    /\ CountFailure(c)
    /\ Finish(c, "exhausted")
    /\ UNCHANGED <<attempt, ret, expired, ctxDone, runs, due>>

\* An ordinary error on the last attempt: counted once for the whole call.
FailExhausted(c) ==
    /\ pc[c] = "returned"
    /\ ret[c] = "transient"
    /\ attempt[c] = MaxRetries
    /\ CountFailure(c)
    /\ Finish(c, "exhausted")
    /\ UNCHANGED <<attempt, ret, expired, ctxDone, runs, due>>

\* case <-time.After(...).  When the context is done as well the select picks
\* either case, so a cancelled call may still start an attempt.
Retry(c) ==
    /\ pc[c] = "backoff"
    /\ attempt' = [attempt EXCEPT ![c] = @ + 1]
    /\ StartAttempt(c)
    /\ UNCHANGED <<failures, ctxDone, outcome, streak, due>>

\* case <-ctx.Done(): returned without touching the counter.
CancelledInBackoff(c) ==
    /\ pc[c] = "backoff"
    /\ ctxDone[c]
    /\ Finish(c, "cancelled")
    /\ UNCHANGED <<failures, attempt, ret, expired, ctxDone, history>>

\* The caller's context ends: the HTTP client left, or a parent deadline passed.
CancelCtx(c) ==
    /\ pc[c] /= "done"
    /\ ~ctxDone[c]
    /\ ctxDone' = [ctxDone EXCEPT ![c] = TRUE]
    /\ UNCHANGED <<failures, pc, attempt, ret, expired, outcome, history>>

\* What the goroutine of a call does between two answers of its executor.
LoopStep(c) ==
    \/ Succeed(c) \/ FailPermanent(c) \/ FailExhausted(c)
    \/ StartBackoff(c) \/ Retry(c) \/ CancelledInBackoff(c)

Return(c) == \E r \in ReturnValues : ExecuteReturns(c, r)

CallStep(c) ==
    \/ RejectOpen(c) \/ Admit(c) \/ Return(c) \/ AttemptTimeout(c)
    \/ LoopStep(c) \/ CancelCtx(c)

Next == \E c \in Calls : CallStep(c)

Spec == Init /\ [][Next]_vars

-----------------------------------------------------------------------------
(* Safety *)

CallsOn(i) == {c \in Calls : InvokerOf[c] = i}
Counted(i) == {c \in CallsOn(i) : outcome[c] \in CountedOutcomes}
InFlight(i) == {c \in CallsOn(i) : pc[c] \notin {"idle", "done"}}

\* The breaker never counts a failure that was not answered: however the Adds
\* and Stores of concurrent calls interleave, the counter is at most the number
\* of calls on this invoker that ended in a permanent error or ran out of
\* attempts.  Retried attempts, refusals and cancellations add nothing
\* (Invoke's Add at the two failing returns only).
FailuresAccounted == \A i \in Invokers : failures[i] <= Cardinality(Counted(i))

\* ErrCircuitOpen is never spurious: a call is refused only when at least
\* Threshold other calls on the same invoker had failed.
OpenNeedsFailures ==
    \A c \in Calls :
        outcome[c] = "open" =>
            Threshold > 0 /\ Cardinality(Counted(InvokerOf[c])) >= Threshold

\* What the caller is told fits how often the tool was executed: never, when
\* the circuit was open; exactly MaxRetries + 1 times when all attempts failed;
\* and a cancelled call gave up with at least one attempt unused.
RunsFitOutcome ==
    \A c \in Calls :
        /\ outcome[c] = "open" => runs[c] = 0
        /\ outcome[c] = "exhausted" => runs[c] = MaxRetries + 1
        /\ outcome[c] = "cancelled" => runs[c] \in 1..MaxRetries
        /\ outcome[c] \in {"ok", "permanent"} => runs[c] \in 1..(MaxRetries + 1)

\* A tool is executed again only after an ordinary error: never after a success
\* and never after an error IsPermanent recognises, so an effect that was
\* reported done is not repeated.
OnlyTransientIsRetried ==
    [][\A c \in Calls : runs'[c] /= runs[c] => ret[c] \in {"none", "transient"}]_vars

\* The circuit is open and no call that could still succeed is under way.
Wedged(i) == Open(i) /\ InFlight(i) = {}

\* An open breaker has no half-open state: once the calls in flight have ended,
\* every later call is refused before it could succeed and reset the counter,
\* so the invoker never serves again.
BreakerNeverHalfOpens == [][\A i \in Invokers : Wedged(i) => Wedged(i)']_vars

\* Config.CircuitBreakerThreshold is "the number of consecutive failures before
\* the circuit opens": a call that begins when that many calls of the tool in a
\* row have failed is refused.  It holds of calls that share one invoker.
BreakerTrips ==
    \A c \in Calls : (due[c] /\ pc[c] = "done") => outcome[c] = "open"

-----------------------------------------------------------------------------
(* Refinement *)

PhaseOf(c) ==
    IF pc[c] = "idle" THEN "waiting"
    ELSE IF pc[c] = "done" THEN "answered"
    ELSE IF pc[c] = "returned" /\ ret[c] \in Success THEN "succeeded"
    ELSE IF pc[c] = "returned" /\ ret[c] = "permanent" THEN "failed"
    ELSE "running"

AnswerOf(c) ==
    IF outcome[c] = "none" THEN "none"
    ELSE IF outcome[c] = "open" THEN "refused"
    ELSE IF outcome[c] = "ok" THEN "result"
    ELSE "error"

Contract == INSTANCE InvokeContract WITH
    MaxRuns <- MaxRetries + 1,
    phase <- [c \in Calls |-> PhaseOf(c)],
    answer <- [c \in Calls |-> AnswerOf(c)]

\* The retry loop implements InvokeContract: one answer per call, at most
\* MaxRetries + 1 executions, none after a success or a permanent error.
ContractSpec == Contract!Spec
=============================================================================
