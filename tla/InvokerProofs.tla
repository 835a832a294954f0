--------------------------- MODULE InvokerProofs ----------------------------
(***************************************************************************)
(* Proofs about Invoker, for any set of calls, any number of invokers and  *)
(* any configuration.  LoopInv ties the program counter of a call to its   *)
(* attempt, its last result and its answer; everything else follows from   *)
(* it, step by step.                                                       *)
(***************************************************************************)
EXTENDS Invoker, FiniteSetTheorems, TLAPS

USE InvokerAssumption

\* Type correctness alone is inductive: Retry needs the bound on attempt that
\* a call in backoff keeps.
BackoffInv == \A c \in Calls : pc[c] = "backoff" => attempt[c] < MaxRetries

LEMMA TypeStep == TypeOK /\ BackoffInv /\ [Next]_vars => TypeOK' /\ BackoffInv'
<1> SUFFICES ASSUME TypeOK, BackoffInv, [Next]_vars PROVE TypeOK' /\ BackoffInv'
  OBVIOUS
<1> USE DEF TypeOK, BackoffInv, PCs, Outcomes, CountedOutcomes, ReturnValues, Success
<1>1. CASE UNCHANGED vars
  BY <1>1 DEF vars, callVars, history
<1>2. ASSUME NEW c \in Calls, CallStep(c) PROVE TypeOK' /\ BackoffInv'
  <2>1. CASE RejectOpen(c)
    BY <2>1 DEF RejectOpen, NoteStreak, Finish
  <2>2. CASE Admit(c)
    BY <2>2 DEF Admit, NoteStreak, StartAttempt
  <2>3. ASSUME NEW r \in ReturnValues, ExecuteReturns(c, r)
        PROVE TypeOK' /\ BackoffInv'
    BY <2>3 DEF ExecuteReturns
  <2>4. CASE AttemptTimeout(c)
    BY <2>4 DEF AttemptTimeout, history
  <2>5. CASE Succeed(c)
    BY <2>5 DEF Succeed, Finish
  <2>6. CASE FailPermanent(c)
    BY <2>6 DEF FailPermanent, CountFailure, Finish
  <2>7. CASE FailExhausted(c)
    BY <2>7 DEF FailExhausted, CountFailure, Finish
  <2>8. CASE StartBackoff(c)
    BY <2>8 DEF StartBackoff, history
  <2>9. CASE Retry(c)
    BY <2>9 DEF Retry, StartAttempt
  <2>10. CASE CancelledInBackoff(c)
    BY <2>10 DEF CancelledInBackoff, Finish, history
  <2>11. CASE CancelCtx(c)
    BY <2>11 DEF CancelCtx, history
  <2> QED
    BY <1>2, <2>1, <2>2, <2>3, <2>4, <2>5, <2>6, <2>7, <2>8, <2>9, <2>10, <2>11
    DEF CallStep, LoopStep, Return
<1> QED
  BY <1>1, <1>2 DEF Next

\* Every variable keeps its type: in particular no call goes past its last
\* attempt and no counter becomes negative.
THEOREM TypeCorrect == Spec => []TypeOK
<1>1. Init => TypeOK /\ BackoffInv
  BY DEF Init, TypeOK, BackoffInv, PCs, Outcomes, CountedOutcomes, ReturnValues, Success
<1> QED
  BY <1>1, TypeStep, PTL DEF Spec

-----------------------------------------------------------------------------
(* The loop of one call *)

\* Where a call is determines what it has done: the number of executions is one
\* more than the attempt it is on, and its answer is written at the end.
LoopInvOf(c) ==
    /\ pc[c] = "idle" =>
         attempt[c] = 0 /\ runs[c] = 0 /\ ret[c] = "none" /\ outcome[c] = "none"
    /\ pc[c] \in {"executing", "returned", "backoff"} =>
         runs[c] = attempt[c] + 1 /\ outcome[c] = "none"
    /\ pc[c] = "executing" => ret[c] = "none"
    /\ pc[c] = "returned" => ret[c] \in ReturnValues
    /\ pc[c] = "backoff" => ret[c] = "transient" /\ attempt[c] < MaxRetries
    /\ pc[c] = "done" => outcome[c] /= "none"
    /\ outcome[c] = "open" => runs[c] = 0
    /\ outcome[c] = "exhausted" => runs[c] = MaxRetries + 1
    /\ outcome[c] = "cancelled" => runs[c] \in 1..MaxRetries
    /\ outcome[c] \in {"ok", "permanent"} => runs[c] \in 1..(MaxRetries + 1)

LoopInv == TypeOK /\ \A c \in Calls : LoopInvOf(c)

LEMMA LoopInit == Init => LoopInv
BY DEF Init, LoopInv, LoopInvOf, TypeOK, PCs, Outcomes, CountedOutcomes, ReturnValues, Success

LEMMA LoopStepKeepsInv == LoopInv /\ [Next]_vars => LoopInv'
<1> SUFFICES ASSUME LoopInv, [Next]_vars PROVE LoopInv'
  OBVIOUS
<1>1. TypeOK'
  BY TypeStep DEF LoopInv, LoopInvOf, BackoffInv
<1>2. ASSUME NEW d \in Calls PROVE LoopInvOf(d)'
  <2> USE DEF LoopInv, LoopInvOf, TypeOK, PCs, Outcomes, CountedOutcomes, ReturnValues, Success
  <2>1. CASE UNCHANGED vars
    BY <2>1 DEF vars, callVars, history
  <2>2. ASSUME NEW c \in Calls, CallStep(c) PROVE LoopInvOf(d)'
    <3>1. CASE RejectOpen(c)
      BY <3>1 DEF RejectOpen, NoteStreak, Finish
    <3>2. CASE Admit(c)
      BY <3>2 DEF Admit, NoteStreak, StartAttempt
    <3>3. ASSUME NEW r \in ReturnValues, ExecuteReturns(c, r) PROVE LoopInvOf(d)'
      BY <3>3 DEF ExecuteReturns
    <3>4. CASE AttemptTimeout(c)
      BY <3>4 DEF AttemptTimeout, history
    <3>5. CASE Succeed(c)
      BY <3>5 DEF Succeed, Finish
    <3>6. CASE FailPermanent(c)
      BY <3>6 DEF FailPermanent, CountFailure, Finish
    <3>7. CASE FailExhausted(c)
      BY <3>7 DEF FailExhausted, CountFailure, Finish
    <3>8. CASE StartBackoff(c)
      BY <3>8 DEF StartBackoff, history
    <3>9. CASE Retry(c)
      BY <3>9 DEF Retry, StartAttempt
    <3>10. CASE CancelledInBackoff(c)
      BY <3>10 DEF CancelledInBackoff, Finish, history
    <3>11. CASE CancelCtx(c)
      BY <3>11 DEF CancelCtx, history
    <3> QED
      BY <2>2, <3>1, <3>2, <3>3, <3>4, <3>5, <3>6, <3>7, <3>8, <3>9, <3>10, <3>11
      DEF CallStep, LoopStep, Return
  <2> QED
    BY <2>1, <2>2 DEF Next
<1> QED
  BY <1>1, <1>2 DEF LoopInv

LEMMA LoopCorrect == Spec => []LoopInv
BY LoopInit, LoopStepKeepsInv, PTL DEF Spec

\* A step of call c leaves every other call where it is.
LEMMA OthersUntouched ==
  ASSUME LoopInv, NEW c \in Calls, CallStep(c), NEW d \in Calls, d /= c
  PROVE  /\ pc'[d] = pc[d] /\ ret'[d] = ret[d]
         /\ outcome'[d] = outcome[d] /\ runs'[d] = runs[d]
BY DEF LoopInv, TypeOK, CallStep, LoopStep, Return, RejectOpen, Admit, StartAttempt,
   Finish, ExecuteReturns, AttemptTimeout, Succeed, FailPermanent, FailExhausted,
   StartBackoff, Retry, CancelledInBackoff, CancelCtx, history

\* A call answers "ok" exactly when it is done and its last execution succeeded,
\* and "permanent" only for an error IsPermanent recognised.
AnswerInv ==
    \A c \in Calls :
        /\ outcome[c] = "ok" <=> pc[c] = "done" /\ ret[c] \in Success
        /\ outcome[c] = "permanent" => ret[c] = "permanent"

LEMMA AnswerStep == LoopInv /\ AnswerInv /\ [Next]_vars => AnswerInv'
<1> DEFINE Fits(d) ==
      /\ outcome'[d] = "ok" <=> pc'[d] = "done" /\ ret'[d] \in Success
      /\ outcome'[d] = "permanent" => ret'[d] = "permanent"
<1> SUFFICES ASSUME LoopInv, AnswerInv, [Next]_vars, NEW d \in Calls PROVE Fits(d)
  BY DEF AnswerInv
<1>1. CASE UNCHANGED vars
  BY <1>1 DEF AnswerInv, vars, callVars
<1>2. ASSUME NEW c \in Calls, CallStep(c), c /= d PROVE Fits(d)
  BY <1>2, OthersUntouched DEF AnswerInv
<1>3. CASE CallStep(d)
  BY <1>3 DEF AnswerInv, LoopInv, LoopInvOf, TypeOK, ReturnValues, Success, CallStep, LoopStep,
     Return, RejectOpen, Admit, StartAttempt, Finish, ExecuteReturns, AttemptTimeout, Succeed,
     FailPermanent, FailExhausted, StartBackoff, Retry, CancelledInBackoff, CancelCtx, history
<1> QED
  BY <1>1, <1>2, <1>3 DEF Next

\* The answer of a call fits the number of times its tool was executed: none
\* when refused, all MaxRetries + 1 when the attempts ran out.
THEOREM RunsFit == Spec => []RunsFitOutcome
<1>1. LoopInv => RunsFitOutcome
  BY DEF LoopInv, LoopInvOf, RunsFitOutcome
<1> QED
  BY <1>1, LoopCorrect, PTL

\* A call executes its tool again only after an ordinary error.
THEOREM NoRetryAfterSuccess == Spec => OnlyTransientIsRetried
<1>1. ASSUME LoopInv, [Next]_vars
      PROVE [\A c \in Calls : runs'[c] /= runs[c] => ret[c] \in {"none", "transient"}]_vars
  <2>1. ASSUME NEW c \in Calls, CallStep(c), NEW d \in Calls, runs'[d] /= runs[d]
        PROVE ret[d] \in {"none", "transient"}
    <3>1. c = d /\ (Admit(c) \/ Retry(c))
      BY <1>1, <2>1 DEF LoopInv, TypeOK, CallStep, LoopStep, Return, RejectOpen, Admit,
         StartAttempt, ExecuteReturns, AttemptTimeout, Succeed, FailPermanent, FailExhausted,
         StartBackoff, Retry, CancelledInBackoff, CancelCtx, history
    <3> QED
      BY <1>1, <3>1 DEF LoopInv, LoopInvOf, Admit, Retry
  <2> QED
    BY <1>1, <2>1 DEF Next
<1> QED
  BY <1>1, LoopCorrect, PTL DEF Spec, OnlyTransientIsRetried

-----------------------------------------------------------------------------
(* The counter against the calls that failed *)

LEMMA DoneIsFinal ==
  ASSUME LoopInv, [Next]_vars, NEW d \in Calls, outcome[d] /= "none"
  PROVE  pc'[d] = pc[d] /\ outcome'[d] = outcome[d]
<1>1. CASE UNCHANGED vars
  BY <1>1 DEF vars, callVars
<1>2. ASSUME NEW c \in Calls, CallStep(c)
      PROVE  pc'[d] = pc[d] /\ outcome'[d] = outcome[d]
  BY <1>2 DEF LoopInv, LoopInvOf, TypeOK, PCs, CallStep, LoopStep, Return, RejectOpen, Admit,
     StartAttempt, Finish, ExecuteReturns, AttemptTimeout, Succeed, FailPermanent,
     FailExhausted, StartBackoff, Retry, CancelledInBackoff, CancelCtx, history
<1> QED
  BY <1>1, <1>2 DEF Next

LEMMA CountedFinite ==
  ASSUME NEW i PROVE IsFiniteSet(Counted(i)) /\ Cardinality(Counted(i)) \in Nat
<1>1. Counted(i) \subseteq Calls
  BY DEF Counted, CallsOn
<1> QED
  BY <1>1, FS_Subset, FS_CardinalityType

LEMMA CountedFinitePrimed ==
  ASSUME NEW i PROVE IsFiniteSet(Counted(i)') /\ Cardinality(Counted(i)') \in Nat
<1>1. Counted(i)' \subseteq Calls
  BY DEF Counted, CallsOn
<1> QED
  BY <1>1, FS_Subset, FS_CardinalityType

\* Answers are final, so the calls that count against an invoker only grow.
LEMMA CountedGrows ==
  ASSUME LoopInv, [Next]_vars, NEW i
  PROVE  Cardinality(Counted(i)) <= Cardinality(Counted(i)')
<1>1. Counted(i) \subseteq Counted(i)'
  BY DoneIsFinal DEF Counted, CallsOn, CountedOutcomes
<1> QED
  BY <1>1, FS_Subset, CountedFinitePrimed

\* A call that bumps the counter of its invoker was not counted before.
LEMMA CountedStep ==
  ASSUME LoopInv, NEW c \in Calls, pc[c] = "returned",
         Finish(c, "permanent") \/ Finish(c, "exhausted")
  PROVE  Cardinality(Counted(InvokerOf[c])') = Cardinality(Counted(InvokerOf[c])) + 1
<1> DEFINE i == InvokerOf[c]
<1>1. c \notin Counted(i)
  BY DEF LoopInv, LoopInvOf, Counted, CountedOutcomes
<1>2. Counted(i)' = Counted(i) \cup {c}
  BY DEF LoopInv, TypeOK, Finish, Counted, CallsOn, CountedOutcomes
<1> QED
  BY <1>1, <1>2, CountedFinite, FS_AddElement

LEMMA AccountStep ==
  LoopInv /\ FailuresAccounted /\ [Next]_vars => FailuresAccounted'
<1> SUFFICES ASSUME LoopInv, FailuresAccounted, [Next]_vars, NEW i \in Invokers
             PROVE  failures'[i] <= Cardinality(Counted(i)')
  BY DEF FailuresAccounted
<1>1. /\ failures[i] \in Nat
      /\ failures[i] <= Cardinality(Counted(i))
      /\ Cardinality(Counted(i)) \in Nat
      /\ Cardinality(Counted(i)') \in Nat
      /\ Cardinality(Counted(i)) <= Cardinality(Counted(i)')
  BY CountedFinite, CountedFinitePrimed, CountedGrows DEF LoopInv, TypeOK, FailuresAccounted
<1>2. CASE failures'[i] = failures[i] \/ failures'[i] = 0
  BY <1>1, <1>2
<1>3. ASSUME NEW c \in Calls, FailPermanent(c) \/ FailExhausted(c), i = InvokerOf[c]
      PROVE  failures'[i] <= Cardinality(Counted(i)')
  <2>1. failures'[i] = failures[i] + 1
    BY <1>3 DEF LoopInv, TypeOK, FailPermanent, FailExhausted, CountFailure
  <2>2. Cardinality(Counted(i)') = Cardinality(Counted(i)) + 1
    BY <1>3, CountedStep DEF FailPermanent, FailExhausted
  <2> QED
    BY <1>1, <2>1, <2>2
<1>4. \/ failures'[i] = failures[i] \/ failures'[i] = 0
      \/ \E c \in Calls : (FailPermanent(c) \/ FailExhausted(c)) /\ i = InvokerOf[c]
  BY DEF LoopInv, TypeOK, Next, CallStep, LoopStep, Return, RejectOpen, Admit,
     ExecuteReturns, AttemptTimeout, Succeed, FailPermanent, FailExhausted, CountFailure,
     StartBackoff, Retry, CancelledInBackoff, CancelCtx, vars
<1> QED
  BY <1>2, <1>3, <1>4

\* The failures counter never exceeds the number of failed calls.
THEOREM FailuresAreAccounted == Spec => []FailuresAccounted
<1>1. Init => FailuresAccounted
  <2> SUFFICES ASSUME Init, NEW i \in Invokers PROVE failures[i] <= Cardinality(Counted(i))
    BY DEF FailuresAccounted
  <2> QED
    BY CountedFinite DEF Init
<1> QED
  BY <1>1, LoopCorrect, AccountStep, PTL DEF Spec

LEMMA OpenStep ==
  LoopInv /\ FailuresAccounted /\ OpenNeedsFailures /\ [Next]_vars => OpenNeedsFailures'
<1> SUFFICES ASSUME LoopInv, FailuresAccounted, OpenNeedsFailures, [Next]_vars,
                    NEW d \in Calls, outcome'[d] = "open"
             PROVE  Threshold > 0 /\ Cardinality(Counted(InvokerOf[d])') >= Threshold
  BY DEF OpenNeedsFailures
<1> DEFINE i == InvokerOf[d]
<1>1. /\ i \in Invokers /\ failures[i] \in Nat
      /\ Cardinality(Counted(i)) \in Nat
      /\ Cardinality(Counted(i)') \in Nat
      /\ Cardinality(Counted(i)) <= Cardinality(Counted(i)')
  BY CountedFinite, CountedFinitePrimed, CountedGrows DEF LoopInv, TypeOK
<1>2. CASE outcome[d] = "open"
  BY <1>1, <1>2 DEF OpenNeedsFailures
<1>3. CASE outcome[d] /= "open"
  <2>1. RejectOpen(d)
    BY <1>3 DEF LoopInv, TypeOK, Next, CallStep, LoopStep, Return, RejectOpen, Admit, Finish,
       ExecuteReturns, AttemptTimeout, Succeed, FailPermanent, FailExhausted,
       StartBackoff, Retry, CancelledInBackoff, CancelCtx, vars, callVars
  <2>2. Threshold > 0 /\ failures[i] >= Threshold
    BY <2>1 DEF RejectOpen, Open
  <2> QED
    BY <1>1, <2>2 DEF FailuresAccounted
<1> QED
  BY <1>2, <1>3

\* A call is refused only when Threshold calls on its invoker had failed.
THEOREM OpenIsEarned == Spec => []OpenNeedsFailures
<1>1. Init => OpenNeedsFailures
  BY DEF Init, OpenNeedsFailures
<1> QED
  BY <1>1, LoopCorrect, FailuresAreAccounted, OpenStep, PTL DEF Spec

-----------------------------------------------------------------------------
(* The breaker, once open *)

LEMMA WedgedStep ==
  ASSUME LoopInv, [Next]_vars, NEW i \in Invokers, Wedged(i)
  PROVE  Wedged(i)'
<1>1. CASE UNCHANGED vars
  BY <1>1 DEF vars, callVars, Wedged, Open, InFlight, CallsOn
<1>2. ASSUME NEW c \in Calls, CallStep(c) PROVE Wedged(i)'
  <2>1. CASE InvokerOf[c] = i
    <3>1. RejectOpen(c) \/ CancelCtx(c)
      BY <1>2, <2>1 DEF Wedged, InFlight, CallsOn, CallStep, LoopStep, Return, Admit,
         ExecuteReturns, AttemptTimeout, Succeed, FailPermanent, FailExhausted,
         StartBackoff, Retry, CancelledInBackoff
    <3> QED
      BY <2>1, <3>1 DEF LoopInv, TypeOK, Wedged, Open, InFlight, CallsOn, RejectOpen,
         Finish, CancelCtx, history
  <2>2. CASE InvokerOf[c] /= i
    <3>1. failures'[i] = failures[i]
      BY <1>2, <2>2 DEF LoopInv, TypeOK, CallStep, LoopStep, Return, RejectOpen, Admit,
         ExecuteReturns, AttemptTimeout, Succeed, FailPermanent, FailExhausted,
         CountFailure, StartBackoff, Retry, CancelledInBackoff, CancelCtx
    <3>2. \A d \in CallsOn(i) : pc'[d] = pc[d]
      BY <1>2, <2>2 DEF LoopInv, TypeOK, CallsOn, CallStep, LoopStep, Return, RejectOpen,
         Admit, StartAttempt, Finish, ExecuteReturns, AttemptTimeout, Succeed,
         FailPermanent, FailExhausted, StartBackoff, Retry, CancelledInBackoff, CancelCtx
    <3> QED
      BY <3>1, <3>2 DEF Wedged, Open, InFlight, CallsOn
  <2> QED
    BY <2>1, <2>2
<1> QED
  BY <1>1, <1>2 DEF Next

\* Once the circuit is open with no call in flight it stays open for good.
THEOREM OpenIsForever == Spec => BreakerNeverHalfOpens
<1>1. LoopInv /\ [Next]_vars => [\A i \in Invokers : Wedged(i) => Wedged(i)']_vars
  BY WedgedStep
<1> QED
  BY <1>1, LoopCorrect, PTL DEF Spec, BreakerNeverHalfOpens

\* With one invoker for all calls the counter is the streak of failures, and a
\* call that began on a due breaker was refused on the spot.
OneInvoker == \A c, d \in Calls : InvokerOf[c] = InvokerOf[d]

StreakInv ==
    /\ \A c \in Calls : failures[InvokerOf[c]] = streak
    /\ \A c \in Calls : due[c] => outcome[c] = "open"

LEMMA StreakStep ==
  ASSUME OneInvoker, LoopInv, StreakInv, [Next]_vars PROVE StreakInv'
<1> USE DEF LoopInv, TypeOK, StreakInv
<1>1. CASE UNCHANGED vars
  BY <1>1 DEF vars, callVars, history
<1>2. ASSUME NEW c \in Calls, CallStep(c) PROVE StreakInv'
  <2>1. CASE RejectOpen(c)
    BY <2>1 DEF RejectOpen, NoteStreak, Finish
  <2>2. CASE Admit(c)
    BY <2>2 DEF Admit, NoteStreak, Open
  <2>3. ASSUME NEW r \in ReturnValues, ExecuteReturns(c, r) PROVE StreakInv'
    BY <2>3 DEF ExecuteReturns
  <2>4. CASE AttemptTimeout(c) \/ StartBackoff(c) \/ CancelCtx(c)
    BY <2>4 DEF AttemptTimeout, StartBackoff, CancelCtx, history
  <2>5. CASE Retry(c)
    BY <2>5 DEF Retry
  <2>6. CASE Succeed(c)
    <3>1. \A d \in Calls : outcome[d] = "open" => outcome'[d] = "open"
      BY <2>6, DoneIsFinal
    <3> QED
      BY <2>6, <3>1 DEF OneInvoker, Succeed
  <2>7. CASE FailPermanent(c) \/ FailExhausted(c)
    <3>1. \A d \in Calls : outcome[d] = "open" => outcome'[d] = "open"
      BY <2>7, DoneIsFinal
    <3> QED
      BY <2>7, <3>1 DEF OneInvoker, FailPermanent, FailExhausted, CountFailure
  <2>8. CASE CancelledInBackoff(c)
    <3>1. \A d \in Calls : outcome[d] = "open" => outcome'[d] = "open"
      BY <2>8, DoneIsFinal
    <3> QED
      BY <2>8, <3>1 DEF CancelledInBackoff, history
  <2> QED
    BY <1>2, <2>1, <2>2, <2>3, <2>4, <2>5, <2>6, <2>7, <2>8 DEF CallStep, LoopStep, Return
<1> QED
  BY <1>1, <1>2 DEF Next

\* When all calls share one invoker, a call that begins after Threshold
\* failures in a row is refused: the promise of CircuitBreakerThreshold, which
\* an invoker per request does not keep.
THEOREM SharedBreakerTrips == ASSUME OneInvoker PROVE Spec => []BreakerTrips
<1>1. Init => StreakInv
  BY DEF Init, StreakInv
<1>2. LoopInv /\ StreakInv /\ [Next]_vars => StreakInv'
  BY StreakStep
<1>3. StreakInv => BreakerTrips
  BY DEF StreakInv, BreakerTrips
<1> QED
  BY <1>1, <1>2, <1>3, LoopCorrect, PTL DEF Spec

-----------------------------------------------------------------------------
(* The loop implements its contract *)

PhaseMap == [c \in Calls |-> PhaseOf(c)]
AnswerMap == [c \in Calls |-> AnswerOf(c)]

\* A step of call c changes the phase, the answer and the runs of no other.
LEMMA OthersKeepPhase ==
  ASSUME LoopInv, NEW c \in Calls, CallStep(c), NEW d \in Calls, d /= c
  PROVE  PhaseOf(d)' = PhaseOf(d) /\ AnswerOf(d)' = AnswerOf(d) /\ runs'[d] = runs[d]
BY OthersUntouched DEF PhaseOf, AnswerOf

\* What the mapped variables of the call itself do.
LEMMA PhaseOfStep ==
  ASSUME LoopInv, NEW c \in Calls, CallStep(c)
  PROVE  \/ PhaseOf(c)' = PhaseOf(c) /\ AnswerOf(c)' = AnswerOf(c) /\ runs'[c] = runs[c]
         \/ /\ PhaseOf(c) = "waiting" /\ PhaseOf(c)' = "answered"
            /\ AnswerOf(c)' = "refused" /\ runs'[c] = runs[c]
         \/ /\ PhaseOf(c) \in {"waiting", "running"} /\ runs[c] < MaxRetries + 1
            /\ PhaseOf(c)' = "running"
            /\ AnswerOf(c)' = AnswerOf(c) /\ runs'[c] = runs[c] + 1
         \/ /\ PhaseOf(c) = "running" /\ PhaseOf(c)' \in {"succeeded", "failed"}
            /\ AnswerOf(c)' = AnswerOf(c) /\ runs'[c] = runs[c]
         \/ /\ PhaseOf(c) = "succeeded" /\ PhaseOf(c)' = "answered"
            /\ AnswerOf(c)' = "result" /\ runs'[c] = runs[c]
         \/ /\ PhaseOf(c) \in {"running", "failed"} /\ PhaseOf(c)' = "answered"
            /\ AnswerOf(c)' = "error" /\ runs'[c] = runs[c]
<1> USE DEF LoopInv, LoopInvOf, TypeOK, ReturnValues, Success, PhaseOf, AnswerOf
<1>1. CASE RejectOpen(c)
  BY <1>1 DEF RejectOpen, Finish
<1>2. CASE Admit(c)
  BY <1>2 DEF Admit, StartAttempt
<1>3. ASSUME NEW r \in ReturnValues, ExecuteReturns(c, r)
      PROVE  \/ PhaseOf(c)' = PhaseOf(c)
             \/ PhaseOf(c) = "running" /\ PhaseOf(c)' \in {"succeeded", "failed"}
  BY <1>3 DEF ExecuteReturns
<1>4. ASSUME NEW r \in ReturnValues, ExecuteReturns(c, r)
      PROVE  AnswerOf(c)' = AnswerOf(c) /\ runs'[c] = runs[c]
  BY <1>4 DEF ExecuteReturns
<1>5. CASE AttemptTimeout(c) \/ CancelCtx(c)
  BY <1>5 DEF AttemptTimeout, CancelCtx, history
<1>6. CASE Succeed(c)
  BY <1>6 DEF Succeed, Finish
<1>7. CASE FailPermanent(c)
  BY <1>7 DEF FailPermanent, Finish
<1>8. CASE FailExhausted(c)
  BY <1>8 DEF FailExhausted, Finish
<1>9. CASE StartBackoff(c)
  BY <1>9 DEF StartBackoff, history
<1>10. CASE Retry(c)
  BY <1>10 DEF Retry, StartAttempt
<1>11. CASE CancelledInBackoff(c)
  BY <1>11 DEF CancelledInBackoff, Finish, history
<1> QED
  BY <1>1, <1>2, <1>3, <1>4, <1>5, <1>6, <1>7, <1>8, <1>9, <1>10, <1>11
  DEF CallStep, LoopStep, Return

\* A step of the loop is a step of the contract or a stutter.
LEMMA ContractStep ==
  ASSUME LoopInv, [Next]_vars
  PROVE  [Contract!Next]_(Contract!contractVars)
<1>1. CASE UNCHANGED vars
  BY <1>1 DEF vars, callVars, history, Contract!contractVars, PhaseOf, AnswerOf
<1>2. ASSUME NEW c \in Calls, CallStep(c)
      PROVE  [Contract!Next]_(Contract!contractVars)
  <2> DEFINE ph == PhaseOf(c)'
             an == AnswerOf(c)'
  <2>1. /\ PhaseMap' = [PhaseMap EXCEPT ![c] = ph]
        /\ AnswerMap' = [AnswerMap EXCEPT ![c] = an]
        /\ runs' = [runs EXCEPT ![c] = runs'[c]]
    <3>1. runs \in [Calls -> Nat] /\ runs' \in [Calls -> Nat]
      BY <1>2, TypeStep DEF LoopInv, LoopInvOf, BackoffInv, TypeOK
    <3> QED
      BY <1>2, <3>1, OthersKeepPhase DEF PhaseMap, AnswerMap
  <2>2. PhaseMap[c] = PhaseOf(c) /\ AnswerMap[c] = AnswerOf(c)
    BY DEF PhaseMap, AnswerMap
  <2>3. runs \in [Calls -> Nat]
    BY DEF LoopInv, TypeOK
  <2> USE DEF PhaseMap, AnswerMap
  <2>4. CASE PhaseOf(c)' = PhaseOf(c) /\ AnswerOf(c)' = AnswerOf(c) /\ runs'[c] = runs[c]
    BY <2>1, <2>3, <2>4 DEF Contract!contractVars
  <2>5. ASSUME PhaseOf(c) = "waiting", PhaseOf(c)' = "answered",
               AnswerOf(c)' = "refused", runs'[c] = runs[c]
        PROVE  Contract!Refuse(c)
    BY <2>1, <2>2, <2>3, <2>5 DEF Contract!Refuse
  <2>6. ASSUME PhaseOf(c) \in {"waiting", "running"}, runs[c] < MaxRetries + 1,
               PhaseOf(c)' = "running", AnswerOf(c)' = AnswerOf(c), runs'[c] = runs[c] + 1
        PROVE  Contract!Run(c)
    BY <2>1, <2>2, <2>3, <2>6 DEF Contract!Run
  <2>7. ASSUME PhaseOf(c) = "running", PhaseOf(c)' \in {"succeeded", "failed"},
               AnswerOf(c)' = AnswerOf(c), runs'[c] = runs[c]
        PROVE  Contract!Settle(c)
    BY <2>1, <2>2, <2>3, <2>7 DEF Contract!Settle
  <2>8. ASSUME PhaseOf(c) = "succeeded", PhaseOf(c)' = "answered",
               AnswerOf(c)' = "result", runs'[c] = runs[c]
        PROVE  Contract!AnswerResult(c)
    BY <2>1, <2>2, <2>3, <2>8 DEF Contract!AnswerResult
  <2>9. ASSUME PhaseOf(c) \in {"running", "failed"}, PhaseOf(c)' = "answered",
               AnswerOf(c)' = "error", runs'[c] = runs[c]
        PROVE  Contract!AnswerError(c)
    BY <2>1, <2>2, <2>3, <2>9 DEF Contract!AnswerError
  <2> HIDE DEF PhaseMap, AnswerMap
  <2> QED
    BY <1>2, <2>4, <2>5, <2>6, <2>7, <2>8, <2>9, PhaseOfStep DEF Contract!Next
<1> QED
  BY <1>1, <1>2 DEF Next

\* ToolInvoker.Invoke keeps InvokeContract for every configuration, however its
\* concurrent calls interleave.
THEOREM ImplementsContract == Spec => ContractSpec
<1>1. Init => Contract!Init
  BY DEF Init, Contract!Init, PhaseOf, AnswerOf
<1>2. LoopInv /\ [Next]_vars => [Contract!Next]_(Contract!contractVars)
  BY ContractStep
<1> QED
  BY <1>1, <1>2, LoopCorrect, PTL DEF Spec, ContractSpec, Contract!Spec
=============================================================================
