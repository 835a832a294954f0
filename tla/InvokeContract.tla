--------------------------- MODULE InvokeContract ---------------------------
(***************************************************************************)
(* What ToolInvoker.Invoke promises its caller, with the circuit breaker,  *)
(* the retries, the timeouts and the context left out.  A call waits, then *)
(* is either refused without the tool ever running, or runs the tool at    *)
(* least once and at most MaxRuns times before it is answered.  An answer  *)
(* is final.  A success is the answer of the last run: a run that          *)
(* succeeded is never followed by another one.                             *)
(***************************************************************************)
EXTENDS Naturals

CONSTANTS
    Calls,      \* the calls of Invoke
    MaxRuns     \* how often one call may execute its tool

VARIABLES
    phase,      \* [Calls -> {"waiting", "running", "succeeded", "failed", "answered"}]
    runs,       \* [Calls -> Nat]
    answer      \* [Calls -> {"none", "refused", "result", "error"}]

contractVars == <<phase, runs, answer>>

Init ==
    /\ phase = [c \in Calls |-> "waiting"]
    /\ runs = [c \in Calls |-> 0]
    /\ answer = [c \in Calls |-> "none"]

Refuse(c) ==
    /\ phase[c] = "waiting"
    /\ phase' = [phase EXCEPT ![c] = "answered"]
    /\ answer' = [answer EXCEPT ![c] = "refused"]
    /\ UNCHANGED runs

Run(c) ==
    /\ phase[c] \in {"waiting", "running"}
    /\ runs[c] < MaxRuns
    /\ phase' = [phase EXCEPT ![c] = "running"]
    /\ runs' = [runs EXCEPT ![c] = @ + 1]
    /\ UNCHANGED answer

\* The run in progress decided the call: it succeeded, or failed for good.
Settle(c) ==
    /\ phase[c] = "running"
    /\ phase' \in {[phase EXCEPT ![c] = p] : p \in {"succeeded", "failed"}}
    /\ UNCHANGED <<runs, answer>>

AnswerResult(c) ==
    /\ phase[c] = "succeeded"
    /\ phase' = [phase EXCEPT ![c] = "answered"]
    /\ answer' = [answer EXCEPT ![c] = "result"]
    /\ UNCHANGED runs

AnswerError(c) ==
    /\ phase[c] \in {"running", "failed"}
    /\ phase' = [phase EXCEPT ![c] = "answered"]
    /\ answer' = [answer EXCEPT ![c] = "error"]
    /\ UNCHANGED runs

Next ==
    \E c \in Calls :
        \/ Refuse(c) \/ Run(c) \/ Settle(c)
        \/ AnswerResult(c) \/ AnswerError(c)

Spec == Init /\ [][Next]_contractVars
=============================================================================
