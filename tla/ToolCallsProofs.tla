--------------------------- MODULE ToolCallsProofs ----------------------------
(***************************************************************************)
(* Proofs about ToolCalls, for any jobs, any number of retries and any     *)
(* behaviour of the services the executors wait for.                       *)
(*                                                                         *)
(* An execution is a short walk through the steps of its executor: where   *)
(* it stands tells which job it is, what was found right about its config  *)
(* (PlaceInv) and whether it has acted yet.  The histories follow: what    *)
(* was handed over (ActInv) and what came back (ReturnInv).  The invoker   *)
(* around it is that of InvokerProofs, cited as Loop!.                     *)
(***************************************************************************)
EXTENDS ToolCalls, FiniteSetTheorems, SequenceTheorems, WellFoundedInduction, TLAPS

Loop == INSTANCE InvokerProofs WITH
            Calls <- {c}, Invokers <- {c}, InvokerOf <- [call \in {c} |-> c],
            Threshold <- 5, HasTimeout <- TRUE

LEMMA InvokerOfCall == Loop!InvokerAssumption
<1>1. IsFiniteSet({c})
  BY FS_Singleton
<1> QED
  BY <1>1, ToolCallAssumption
  DEF ToolCallAssumption, Loop!InvokerAssumption, Loop!IsFiniteSet, IsFiniteSet

-----------------------------------------------------------------------------
(* The steps of the invoker and of the executor *)

LEMMA ReturnIsCallStep ==
    ASSUME NEW v \in {"ok", "transient", "permanent"}, Return(v)
    PROVE  Loop!CallStep(c)
BY DEF Return, Inv!ExecuteReturns, Loop!ExecuteReturns, Loop!CallStep, Loop!Return,
   Loop!ReturnValues, Loop!Success

LEMMA InvokeStepIsCallStep ==
    ASSUME InvokeStep
    PROVE  Loop!CallStep(c) /\ UNCHANGED <<job, input, step, acts, got>>
BY DEF InvokeStep, Loop!CallStep, Inv!LoopStep, Loop!LoopStep,
    Inv!RejectOpen, Loop!RejectOpen, Inv!Open, Loop!Open, Inv!NoteStreak, Loop!NoteStreak,
    Inv!Finish, Loop!Finish, Inv!Admit, Loop!Admit, Inv!StartAttempt, Loop!StartAttempt,
    Inv!AttemptTimeout, Loop!AttemptTimeout,
    Inv!history, Loop!history, Inv!Success, Loop!Success, Inv!Succeed, Loop!Succeed,
    Inv!CountFailure, Loop!CountFailure, Inv!FailPermanent, Loop!FailPermanent,
    Inv!FailExhausted, Loop!FailExhausted, Inv!StartBackoff, Loop!StartBackoff,
    Inv!Retry, Loop!Retry, Inv!CancelledInBackoff, Loop!CancelledInBackoff,
    Inv!CancelCtx, Loop!CancelCtx

\* Only a return of the executor ends an execution; an attempt that starts has one
\* run more and no answer yet, any other step of the loop keeps both.
LEMMA InvokeStepKeeps ==
    ASSUME Loop!LoopInv, InvokeStep
    PROVE  /\ \/ pc'[c] = "executing" /\ runs'[c] = runs[c] + 1 /\ ret'[c] = "none"
                 /\ pc[c] /= "executing"
              \/ /\ runs'[c] = runs[c] /\ ret'[c] = ret[c]
                 /\ pc'[c] = "executing" <=> pc[c] = "executing"
           /\ UNCHANGED <<job, input, step, acts, got>>
BY DEF Loop!LoopInv, Loop!TypeOK, InvokeStep, Inv!LoopStep, Inv!RejectOpen,
    Inv!Finish, Inv!Admit, Inv!StartAttempt, Inv!AttemptTimeout, Inv!history, Inv!Succeed,
    Inv!FailPermanent, Inv!FailExhausted, Inv!StartBackoff, Inv!Retry,
    Inv!CancelledInBackoff, Inv!CancelCtx

\* What Return does to the call.
LEMMA ReturnEffect ==
    ASSUME Loop!LoopInv, NEW v, Return(v)
    PROVE  /\ pc[c] = "executing" /\ pc'[c] = "returned" /\ ret'[c] = v /\ step' = "start"
           /\ UNCHANGED <<job, input, acts, got, runs>>
BY DEF Loop!LoopInv, Loop!TypeOK, Return, Inv!ExecuteReturns

-----------------------------------------------------------------------------
(* Where an execution stands *)

Complete == ConfigClass = "complete"
SqlPlaces == {"datasource", "connect", "rows", "affected"}
DocPlaces == {"embedding", "search"}

PlaceInv ==
    /\ job \in HttpJobs \cup SqlJobs \cup DocJobs \cup ScriptJobs
    /\ job.type /= "SCRIPT" => input = job.input
    /\ step \in Waiting \cup {"start", "running"}
    /\ step /= "start" => pc[c] = "executing" /\ Complete
    /\ step = "response" => job.type = "HTTP"
    /\ step \in SqlPlaces => job.type = "SQL"
    /\ step \in DocPlaces => job.type = "DOCUMENT_SEARCH"
    /\ step = "running" => job.type = "SCRIPT"
    /\ step = "rows" => IsSelect(job.sql)
    /\ step = "affected" => ~IsSelect(job.sql)

\* The steps in which something has been handed over.
Acted == {"response", "rows", "affected", "embedding", "search", "running"}

\* What a tool that is no script asks for, in every attempt.
Asked(w) ==
    /\ job.type = "HTTP" => \E a \in Authorizations(job.http, job.caller) :
                                w = RequestOf(job.http, job.input, a)
    /\ job.type = "SQL" => w = Bound(job.sql.query, job.input)

FirstAct(w) == [run |-> runs[c], hop |-> 1, what |-> w]

\* The five things an execution can do besides returning.
HandsOver(w) ==
    /\ acts' = Append(acts, FirstAct(w)) /\ Asked(w)
    /\ step \in {"start", "connect"} /\ step' \in Acted
    /\ pc[c] = "executing" /\ Complete

\* A client's next request follows a redirect, or repeats the last one.
Follows(act, last) ==
    /\ act.run = last.run
    /\ \/ act.hop = last.hop + 1 /\ last.hop < MaxRequests
       \/ act = last /\ last.what.method \in Repeatable

SendsOn(act) ==
    /\ acts' = Append(acts, act) /\ Follows(act, acts[Len(acts)])
    /\ Exchanging /\ UNCHANGED <<step, got>>

GoesOn ==
    /\ UNCHANGED <<acts, got>>
    /\ pc[c] = "executing"
    /\ \/ step \in {"start", "datasource"} /\ step' \in {"datasource", "connect"}
       \/ step = "embedding" /\ step' = "search"

Reads == step \in {"rows", "search"} /\ UNCHANGED <<step, acts>>

Writes == step = "running" /\ UNCHANGED <<step, acts, got>>

Progress ==
    /\ UNCHANGED <<job, invokerVars>>
    /\ (\E w : HandsOver(w)) \/ (\E act : SendsOn(act)) \/ GoesOn \/ Reads \/ Writes

\* What an executor returns fits its tool and how far it came.
ReturnFits(v) ==
    /\ v \in ExecutorReturns([type |-> job.type, config |-> ConfigClass])
    /\ v = "ok" => /\ step \in Acted \ {"embedding"}
                   /\ step \in {"rows", "search"} => got = Readable

\* Every step of an executor is one of these, and keeps its place.
StepIsKnown ==
    \/ Progress /\ PlaceInv'
    \/ \E v \in {"ok", "transient", "permanent"} : Return(v) /\ ReturnFits(v)

LEMMA JobTypes ==
    ASSUME PlaceInv
    PROVE  /\ job.type \in {"HTTP", "SQL", "DOCUMENT_SEARCH", "SCRIPT"}
           /\ job.type = "SCRIPT" => job.script \in BOOLEAN
           /\ job.type = "SQL" => job.table \in Nat /\ job.sql.max_rows \in Int
           /\ ConfigClass \in {"complete", "incomplete"}
BY ToolCallAssumption DEF ToolCallAssumption, PlaceInv, ConfigClass

\* Any tool may fail in a way that may pass, but for a SQL tool without its fields.
LEMMA TransientFits ==
    ASSUME PlaceInv, Complete \/ job.type /= "SQL" PROVE ReturnFits("transient")
BY JobTypes DEF ReturnFits, ExecutorReturns, Complete

LEMMA OkFits ==
    ASSUME PlaceInv, step \in Acted \ {"embedding"},
           step \in {"rows", "search"} => got = Readable
    PROVE  ReturnFits("ok")
BY JobTypes DEF ReturnFits, ExecutorReturns, Complete, Acted, PlaceInv

-----------------------------------------------------------------------------
(* Each executor's steps are known *)

LEMMA HttpSteps ==
    ASSUME PlaceInv,
           HttpExecute \/ \E status \in {"below 400", "400 or more"} : HttpAnswered(status)
    PROVE  StepIsKnown
<1>1. CASE HttpExecute
  <2>1. CASE Sendable(job.http)
    <3>1. PICK a \in Authorizations(job.http, job.caller) :
             Act(RequestOf(job.http, input, a)) /\ Go("response")
      BY <1>1, <2>1 DEF HttpExecute
    <3>2. job.type = "HTTP" /\ pc[c] = "executing" /\ step = "start" /\ input = job.input
      BY <1>1 DEF HttpExecute, Executes, PlaceInv
    <3>3. Complete
      BY <2>1, <3>2 DEF Complete, ConfigClass, Sendable
    <3>4. HandsOver(RequestOf(job.http, input, a))
      BY <3>1, <3>2, <3>3 DEF HandsOver, FirstAct, Act, Go, Asked, Acted
    <3>5. PlaceInv'
      BY <3>1, <3>2, <3>3
      DEF PlaceInv, Act, Go, Waiting, SqlPlaces, DocPlaces, invokerVars, Complete, ConfigClass
    <3> QED
      BY <3>1, <3>4, <3>5 DEF StepIsKnown, Progress, Go
  <2>2. CASE ~Sendable(job.http)
    <3>1. Return("transient") /\ job.type = "HTTP"
      BY <1>1, <2>2 DEF HttpExecute, Executes
    <3> QED
      BY <3>1, TransientFits DEF StepIsKnown
  <2> QED
    BY <2>1, <2>2
<1>2. ASSUME NEW status \in {"below 400", "400 or more"}, HttpAnswered(status)
      PROVE  StepIsKnown
  <2>1. step = "response" /\ Complete /\ (Return("ok") \/ Return("transient"))
    BY <1>2 DEF HttpAnswered, PlaceInv
  <2> QED
    BY <2>1, TransientFits, OkFits DEF StepIsKnown, Acted
<1> QED
  BY <1>1, <1>2

LEMMA SqlSteps ==
    ASSUME PlaceInv,
           \/ SqlExecute \/ SqlStatement \/ SqlAffected
           \/ \E type \in {"POSTGRESQL", "other"} : SqlDatasource(type)
    PROVE  StepIsKnown
<1>1. CASE SqlExecute
  <2>1. job.type = "SQL" /\ pc[c] = "executing" /\ step = "start" /\ input = job.input
    BY <1>1 DEF SqlExecute, Executes, PlaceInv
  <2>2. CASE job.sql.datasource_id = "" \/ job.sql.query = <<>>
    <3>1. Return("permanent") /\ ConfigClass = "incomplete"
      BY <1>1, <2>1, <2>2 DEF SqlExecute, ConfigClass
    <3> QED
      BY <2>1, <3>1 DEF StepIsKnown, ReturnFits, ExecutorReturns
  <2>3. CASE ~(job.sql.datasource_id = "" \/ job.sql.query = <<>>)
    <3>1. Go("datasource") /\ UNCHANGED <<input, acts, got>> /\ Complete
      BY <1>1, <2>1, <2>3 DEF SqlExecute, Complete, ConfigClass
    <3>2. PlaceInv'
      BY <2>1, <3>1
      DEF PlaceInv, Go, Waiting, SqlPlaces, DocPlaces, invokerVars, Complete, ConfigClass
    <3> QED
      BY <2>1, <3>1, <3>2 DEF StepIsKnown, Progress, GoesOn, Go
  <2> QED
    BY <2>2, <2>3
<1>2. ASSUME NEW type, SqlDatasource(type) PROVE StepIsKnown
  <2>1. step = "datasource" /\ pc[c] = "executing" /\ Complete /\ job.type = "SQL"
    BY <1>2 DEF SqlDatasource, PlaceInv, SqlPlaces
  <2>2. CASE Go("connect") /\ UNCHANGED <<input, acts, got>>
    <3>1. PlaceInv'
      BY <2>1, <2>2
      DEF PlaceInv, Go, Waiting, SqlPlaces, DocPlaces, invokerVars, Complete, ConfigClass
    <3> QED
      BY <2>1, <2>2, <3>1 DEF StepIsKnown, Progress, GoesOn, Go
  <2>3. CASE Return("transient")
    BY <2>1, <2>3, TransientFits DEF StepIsKnown
  <2> QED
    BY <1>2, <2>2, <2>3 DEF SqlDatasource
<1>3. CASE SqlStatement
  <2>1. /\ step = "connect" /\ pc[c] = "executing" /\ Complete /\ job.type = "SQL"
        /\ input = job.input
    BY <1>3 DEF SqlStatement, PlaceInv, SqlPlaces
  <2>2. CASE /\ Act(Bound(job.sql.query, input))
             /\ Go(IF IsSelect(job.sql) THEN "rows" ELSE "affected")
    <3>1. HandsOver(Bound(job.sql.query, input))
      BY <2>1, <2>2 DEF HandsOver, FirstAct, Act, Go, Asked, Acted
    <3>2. PlaceInv'
      BY <2>1, <2>2
      DEF PlaceInv, Act, Go, Waiting, SqlPlaces, DocPlaces, invokerVars, Complete, ConfigClass
    <3> QED
      BY <2>2, <3>1, <3>2 DEF StepIsKnown, Progress, Go
  <2>3. CASE Return("transient")
    BY <2>1, <2>3, TransientFits DEF StepIsKnown
  <2> QED
    BY <1>3, <2>2, <2>3 DEF SqlStatement
<1>4. CASE SqlAffected
  BY <1>4, OkFits DEF SqlAffected, StepIsKnown, Acted
<1> QED
  BY <1>1, <1>2, <1>3, <1>4

LEMMA DocSteps ==
    ASSUME PlaceInv,
           DocExecute \/ \E answer \in {"vector", "unusable"} : DocEmbedded(answer)
    PROVE  StepIsKnown
<1>1. CASE DocExecute
  <2> DEFINE w == [method |-> "POST", url |-> EmbeddingURL(job.doc), body |-> input["query"]]
  <2>1. /\ job.type = "DOCUMENT_SEARCH" /\ pc[c] = "executing" /\ step = "start"
        /\ input = job.input
    BY <1>1 DEF DocExecute, Executes, PlaceInv
  <2>2. CASE Searchable(job.doc, input)
    <3>1. Act(w) /\ Go("embedding")
      BY <1>1, <2>2 DEF DocExecute
    <3>2. Complete
      BY <2>1, <2>2 DEF Complete, ConfigClass, Searchable
    <3>3. HandsOver(w)
      BY <2>1, <3>1, <3>2 DEF HandsOver, FirstAct, Act, Go, Asked, Acted
    <3>4. PlaceInv'
      BY <2>1, <3>1, <3>2
      DEF PlaceInv, Act, Go, Waiting, SqlPlaces, DocPlaces, invokerVars, Complete, ConfigClass
    <3> QED
      BY <3>1, <3>3, <3>4 DEF StepIsKnown, Progress, Go
  <2>3. CASE ~Searchable(job.doc, input)
    <3>1. Return("transient")
      BY <1>1, <2>3 DEF DocExecute
    <3> QED
      BY <2>1, <3>1, TransientFits DEF StepIsKnown
  <2> QED
    BY <2>2, <2>3
<1>2. ASSUME NEW answer, DocEmbedded(answer) PROVE StepIsKnown
  <2>1. step = "embedding" /\ pc[c] = "executing" /\ Complete /\ job.type = "DOCUMENT_SEARCH"
    BY <1>2 DEF DocEmbedded, PlaceInv, DocPlaces
  <2>2. CASE Go("search") /\ UNCHANGED <<input, acts, got>>
    <3>1. PlaceInv'
      BY <2>1, <2>2
      DEF PlaceInv, Go, Waiting, SqlPlaces, DocPlaces, invokerVars, Complete, ConfigClass
    <3> QED
      BY <2>1, <2>2, <3>1 DEF StepIsKnown, Progress, GoesOn, Go
  <2>3. CASE Return("transient")
    BY <2>1, <2>3, TransientFits DEF StepIsKnown
  <2> QED
    BY <1>2, <2>2, <2>3 DEF DocEmbedded
<1> QED
  BY <1>1, <1>2

LEMMA ScriptSteps ==
    ASSUME PlaceInv,
           \/ ScriptExecute
           \/ \E k \in DOMAIN input : ScriptWrites(k)
           \/ \E v \in {"ok", "transient"} : ScriptEnds(v)
    PROVE  StepIsKnown
<1>1. CASE ScriptExecute
  <2>1. job.type = "SCRIPT" /\ pc[c] = "executing" /\ step = "start"
    BY <1>1 DEF ScriptExecute, Executes
  <2>2. CASE job.script
    <3>1. Act(input) /\ Go("running")
      BY <1>1, <2>2 DEF ScriptExecute
    <3>2. Complete
      BY <2>1, <2>2 DEF Complete, ConfigClass
    <3>3. HandsOver(input)
      BY <2>1, <3>1, <3>2 DEF HandsOver, FirstAct, Act, Go, Asked, Acted
    <3>4. PlaceInv'
      BY <2>1, <3>1, <3>2
      DEF PlaceInv, Act, Go, Waiting, SqlPlaces, DocPlaces, invokerVars, Complete, ConfigClass
    <3> QED
      BY <3>1, <3>3, <3>4 DEF StepIsKnown, Progress, Go
  <2>3. CASE ~job.script
    <3>1. Return("transient")
      BY <1>1, <2>3 DEF ScriptExecute
    <3> QED
      BY <2>1, <3>1, TransientFits DEF StepIsKnown
  <2> QED
    BY <2>2, <2>3
<1>2. ASSUME NEW k, ScriptWrites(k) PROVE StepIsKnown
  <2>1. PlaceInv'
    BY <1>2 DEF ScriptWrites, PlaceInv, Waiting, SqlPlaces, DocPlaces, invokerVars, Complete,
       ConfigClass
  <2> QED
    BY <1>2, <2>1 DEF ScriptWrites, StepIsKnown, Progress, Writes
<1>3. ASSUME NEW v \in {"ok", "transient"}, ScriptEnds(v) PROVE StepIsKnown
  <2>1. step = "running" /\ Complete /\ Return(v)
    BY <1>3 DEF ScriptEnds, PlaceInv
  <2> QED
    BY <2>1, TransientFits, OkFits DEF StepIsKnown, Acted
<1> QED
  BY <1>1, <1>2, <1>3

LEMMA ExchangeSteps ==
    ASSUME PlaceInv, Replayed \/ \E repeats \in BOOLEAN : Redirected(repeats)
    PROVE  StepIsKnown
<1> DEFINE last == acts[Len(acts)]
<1>1. ASSUME NEW act, SendsMore(act), Exchanging, Follows(act, last)
      PROVE  StepIsKnown
  <2>1. PlaceInv'
    BY <1>1 DEF SendsMore, PlaceInv, Waiting, SqlPlaces, DocPlaces, invokerVars, Complete,
       ConfigClass
  <2>2. SendsOn(act)
    BY <1>1 DEF SendsMore, SendsOn
  <2> QED
    BY <1>1, <2>1, <2>2 DEF SendsMore, StepIsKnown, Progress
<1>2. CASE Replayed
  BY <1>1, <1>2 DEF Replayed, Follows
<1>3. ASSUME NEW repeats, Redirected(repeats) PROVE StepIsKnown
  <2> DEFINE act == [run |-> last.run, hop |-> last.hop + 1,
                     what |-> Redirection(last.what, repeats)]
  <2>1. SendsMore(act) /\ Exchanging /\ last.hop < MaxRequests
    BY <1>3 DEF Redirected
  <2>2. Follows(act, last)
    BY <2>1 DEF Follows
  <2> QED
    BY <1>1, <2>1, <2>2
<1> QED
  BY <1>2, <1>3

LEMMA SharedSteps ==
    ASSUME PlaceInv, ReadRow \/ RowsEnd \/ Breaks \/ ContextEnds
    PROVE  StepIsKnown
<1>1. CASE ReadRow
  <2>1. PlaceInv'
    BY <1>1 DEF ReadRow, PlaceInv, Waiting, SqlPlaces, DocPlaces, invokerVars, Complete,
       ConfigClass
  <2> QED
    BY <1>1, <2>1 DEF ReadRow, StepIsKnown, Progress, Reads
<1>2. CASE RowsEnd
  BY <1>2, OkFits DEF RowsEnd, StepIsKnown, Acted
<1>3. CASE Breaks \/ ContextEnds
  <2>1. step /= "start" /\ Return("transient")
    BY <1>3 DEF Breaks, ContextEnds, Waiting
  <2> QED
    BY <2>1, TransientFits DEF StepIsKnown, PlaceInv
<1> QED
  BY <1>1, <1>2, <1>3

LEMMA ExecuteStepIsKnown == ASSUME PlaceInv, ExecuteStep PROVE StepIsKnown
BY HttpSteps, SqlSteps, DocSteps, ScriptSteps, ExchangeSteps, SharedSteps DEF ExecuteStep, ExecuteLocally

-----------------------------------------------------------------------------
(* The invariant *)

IsSequence(s) == \E S : s \in Seq(S)

Requests == job.type \in {"HTTP", "DOCUMENT_SEARCH"}

\* An act among those of its attempt.
ActFits(act) ==
    /\ act.run \in 1..runs[c]
    /\ act.hop \in 1..(IF Requests THEN MaxRequests ELSE 1)
    /\ act.hop = 1 => Asked(act.what)

\* An act and a later one.
InTurn(a, b) ==
    a.run = b.run => /\ a.hop <= b.hop
                     /\ a.hop = b.hop => Requests /\ a.what.method \in Repeatable

LastRun == acts /= <<>> /\ acts[Len(acts)].run = runs[c]

ActInv ==
    /\ IsSequence(acts)
    /\ (pc[c] = "executing" /\ step \in {"start", "datasource", "connect"}) =>
           \A i \in 1..Len(acts) : acts[i].run < runs[c]
    /\ step \in Acted => LastRun
    /\ ~Complete => acts = <<>>
    /\ \A i \in 1..Len(acts) : ActFits(acts[i])
    /\ \A i, j \in 1..Len(acts) : i < j => InTurn(acts[i], acts[j])

\* What the query of a SQL tool lets it read.
SqlReadable == IF job.table < MaxRows(job.sql) THEN job.table ELSE MaxRows(job.sql)

ReturnInv ==
    /\ ReturnsAsListed
    /\ ret[c] = "ok" => LastRun
    /\ (ret[c] = "ok" /\ job.type = "SQL" /\ IsSelect(job.sql)) => got = SqlReadable
    /\ (ret[c] = "ok" /\ job.type = "DOCUMENT_SEARCH") =>
           got = Cardinality(Matches(job.doc, job.corpus))

CallInv ==
    /\ Loop!LoopInv /\ Loop!AnswerInv
    /\ PlaceInv /\ ActInv /\ ReturnInv

LEMMA AppendToSequence ==
    ASSUME NEW s, IsSequence(s), NEW w
    PROVE  /\ IsSequence(Append(s, w))
           /\ Len(s) \in Nat /\ Len(Append(s, w)) = Len(s) + 1
           /\ Append(s, w) /= <<>>
           /\ \A i \in 1..Len(Append(s, w)) : Append(s, w)[i] = IF i <= Len(s) THEN s[i] ELSE w
<1>1. PICK S : s \in Seq(S)
  BY DEF IsSequence
<1> DEFINE T == S \cup {w}
<1>2. s \in Seq(T) /\ w \in T
  BY <1>1, SeqMonotonic
<1> HIDE DEF T
<1>3. Append(s, w) \in Seq(T)
  BY <1>2, AppendProperties
<1> QED
  BY <1>2, <1>3, AppendProperties, LenProperties, EmptySeq DEF IsSequence

LEMMA CallInit == Init => CallInv
<1> SUFFICES ASSUME Init PROVE CallInv
  OBVIOUS
<1>1. Loop!Init
  BY DEF Init, Inv!Init, Loop!Init
<1>2. Loop!LoopInv /\ Loop!AnswerInv
  BY <1>1, Loop!LoopInit, InvokerOfCall DEF Loop!Init, Loop!AnswerInv
<1>3. PlaceInv
  BY DEF Init, PlaceInv, Acted, Waiting, SqlPlaces, DocPlaces
<1>4. ActInv
  <2>1. IsSequence(<<>>) /\ Len(<<>>) = 0
    BY EmptySeq DEF IsSequence
  <2> QED
    BY <2>1 DEF Init, Inv!Init, ActInv, Acted
<1>5. ReturnInv
  BY DEF Init, Inv!Init, ReturnInv, ReturnsAsListed
<1> QED
  BY <1>2, <1>3, <1>4, <1>5 DEF CallInv

\* The loop around the executor goes on.
LEMMA InvokeStepKeepsInv ==
    ASSUME CallInv, InvokeStep
    PROVE  PlaceInv' /\ ActInv' /\ ReturnInv'
<1>1. /\ \/ pc'[c] = "executing" /\ runs'[c] = runs[c] + 1 /\ ret'[c] = "none"
            /\ pc[c] /= "executing"
         \/ /\ runs'[c] = runs[c] /\ ret'[c] = ret[c]
            /\ pc'[c] = "executing" <=> pc[c] = "executing"
      /\ UNCHANGED <<job, input, step, acts, got>>
  BY InvokeStepKeeps DEF CallInv
<1>2. PlaceInv'
  BY <1>1 DEF CallInv, PlaceInv, Complete, ConfigClass
<1>3. ActInv'
  <2>1. runs[c] \in Nat /\ runs'[c] \in {runs[c], runs[c] + 1}
    BY <1>1 DEF CallInv, Loop!LoopInv, Loop!TypeOK
  <2>2. (\A w : Asked(w)' <=> Asked(w)) /\ (Complete' <=> Complete) /\ (Requests' <=> Requests)
    BY <1>1 DEF Asked, Complete, ConfigClass, Requests
  <2>3. step \in Acted => LastRun'
    BY <1>1 DEF CallInv, PlaceInv, ActInv, Acted, LastRun
  <2>4. ASSUME NEW i \in 1..Len(acts) PROVE ActFits(acts[i])'
    BY <1>1, <2>1, <2>2 DEF CallInv, ActInv, ActFits
  <2>5. (pc'[c] = "executing" /\ step \in {"start", "datasource", "connect"}) =>
            \A i \in 1..Len(acts) : acts[i].run < runs'[c]
    BY <1>1, <2>1 DEF CallInv, ActInv, ActFits
  <2>6. \A a, b : InTurn(a, b)' <=> InTurn(a, b)
    BY <2>2 DEF InTurn
  <2> QED
    BY <1>1, <2>2, <2>3, <2>4, <2>5, <2>6 DEF CallInv, ActInv
<1>4. ReturnInv'
  BY <1>1 DEF CallInv, ReturnInv, ReturnsAsListed, ConfigClass, SqlReadable, LastRun
<1> QED
  BY <1>2, <1>3, <1>4

\* The executor answers.
LEMMA ReturnKeepsInv ==
    ASSUME CallInv, NEW v \in {"ok", "transient", "permanent"}, Return(v), ReturnFits(v)
    PROVE  PlaceInv' /\ ActInv' /\ ReturnInv'
<1>1. /\ pc[c] = "executing" /\ pc'[c] = "returned" /\ ret'[c] = v /\ step' = "start"
      /\ UNCHANGED <<job, input, acts, got, runs>>
  BY ReturnEffect DEF CallInv
<1>2. PlaceInv'
  BY <1>1 DEF CallInv, PlaceInv, SqlPlaces, DocPlaces
<1>3. ActInv'
  <2>1. (\A w : Asked(w)' <=> Asked(w)) /\ (Complete' <=> Complete) /\ (Requests' <=> Requests)
    BY <1>1 DEF Asked, Complete, ConfigClass, Requests
  <2>2. (\A a : ActFits(a)' <=> ActFits(a)) /\ (\A a, b : InTurn(a, b)' <=> InTurn(a, b))
    BY <1>1, <2>1 DEF ActFits, InTurn
  <2> QED
    BY <1>1, <2>1, <2>2 DEF CallInv, ActInv, Acted, IsSequence
<1>4. ReturnsAsListed'
  BY <1>1 DEF ReturnsAsListed, ReturnFits, ConfigClass
<1>5. v = "ok" => LastRun
  BY DEF ReturnFits, CallInv, ActInv
<1>6. (v = "ok" /\ job.type = "SQL" /\ IsSelect(job.sql)) => got = SqlReadable
  BY DEF ReturnFits, CallInv, PlaceInv, Acted, SqlPlaces, DocPlaces, Readable, SqlReadable
<1>7. (v = "ok" /\ job.type = "DOCUMENT_SEARCH") =>
          got = Cardinality(Matches(job.doc, job.corpus))
  BY DEF ReturnFits, CallInv, PlaceInv, Acted, SqlPlaces, Readable
<1>8. ReturnInv'
  BY <1>1, <1>4, <1>5, <1>6, <1>7 DEF ReturnInv, SqlReadable, LastRun
<1> QED
  BY <1>2, <1>3, <1>8

\* The executor goes on.
LEMMA ProgressKeepsInv ==
    ASSUME CallInv, Progress, PlaceInv'
    PROVE  ActInv' /\ ReturnInv'
<1>1. UNCHANGED <<job, pc, ret, runs>>
  BY DEF Progress, invokerVars
<1>2. (\A w : Asked(w)' <=> Asked(w)) /\ (Complete' <=> Complete) /\ (Requests' <=> Requests)
  BY <1>1 DEF Asked, Complete, ConfigClass, Requests
<1>3. (\A a : ActFits(a)' <=> ActFits(a)) /\ (\A a, b : InTurn(a, b)' <=> InTurn(a, b))
  BY <1>1, <1>2 DEF ActFits, InTurn
<1>4. pc[c] = "executing" /\ ret[c] = "none"
  BY DEF Progress, HandsOver, SendsOn, Exchanging, GoesOn, Reads, Writes, CallInv, PlaceInv,
     Loop!LoopInv, Loop!LoopInvOf
<1>5. ReturnInv'
  BY <1>1, <1>4 DEF ReturnInv, ReturnsAsListed
<1>6. runs[c] \in Nat
  BY DEF CallInv, Loop!LoopInv, Loop!TypeOK
\* One act more: it has to fit, to be in turn after every other and of the last run.
<1>7. ASSUME NEW act, acts' = Append(acts, act), step' \in Acted, Complete,
             act.run = runs[c], ActFits(act),
             \A i \in 1..Len(acts) : InTurn(acts[i], act)
      PROVE  ActInv'
  <2>1. /\ IsSequence(acts') /\ Len(acts') = Len(acts) + 1 /\ acts' /= <<>>
        /\ Len(acts) \in Nat
        /\ \A i \in 1..Len(acts') : acts'[i] = IF i <= Len(acts) THEN acts[i] ELSE act
    BY <1>7, AppendToSequence DEF CallInv, ActInv
  <2>2. LastRun'
    BY <1>1, <1>7, <2>1 DEF LastRun
  <2>3. \A i \in 1..Len(acts') : ActFits(acts'[i])
    BY <1>7, <2>1 DEF CallInv, ActInv
  <2>4. \A i, j \in 1..Len(acts') : i < j => InTurn(acts'[i], acts'[j])
    BY <1>7, <2>1 DEF CallInv, ActInv
  <2> QED
    BY <1>2, <1>3, <1>7, <2>1, <2>2, <2>3, <2>4 DEF ActInv, Acted
<1>8. ASSUME NEW w, HandsOver(w) PROVE ActInv'
  <2> DEFINE act == FirstAct(w)
  <2>1. \A i \in 1..Len(acts) : acts[i].run < runs[c] /\ acts[i].run \in Nat
    BY <1>8, <1>6 DEF HandsOver, CallInv, ActInv, ActFits
  <2>2. act.run = runs[c] /\ act.hop = 1 /\ act.what = w
    BY DEF FirstAct
  <2>3. runs[c] >= 1
    BY <1>4, <1>6 DEF CallInv, Loop!LoopInv, Loop!LoopInvOf, Loop!TypeOK
  <2>4. ActFits(act)
    BY <1>6, <1>8, <2>2, <2>3, ToolCallAssumption DEF ToolCallAssumption, HandsOver, ActFits
  <2>5. \A i \in 1..Len(acts) : InTurn(acts[i], act)
    BY <1>6, <2>1, <2>2 DEF InTurn
  <2> QED
    BY <1>7, <1>8, <2>2, <2>4, <2>5 DEF HandsOver
<1>9. ASSUME NEW act, SendsOn(act) PROVE ActInv'
  <2> DEFINE last == acts[Len(acts)]
  <2>1. step \in Acted /\ step' = step /\ Requests /\ Complete
    BY <1>9 DEF SendsOn, Exchanging, Acted, CallInv, PlaceInv, DocPlaces, Requests
  <2>2. LastRun /\ Len(acts) \in 1..Len(acts)
    BY <2>1, EmptySeq, LenProperties DEF CallInv, ActInv, LastRun, IsSequence
  <2>3. ActFits(last) /\ last.run = runs[c] /\ last.hop \in 1..MaxRequests
    BY <2>1, <2>2 DEF CallInv, ActInv, LastRun, ActFits
  <2>4. MaxRequests \in Nat
    BY ToolCallAssumption DEF ToolCallAssumption
  <2>5. ASSUME NEW i \in 1..Len(acts)
        PROVE  acts[i].hop \in Nat /\ (i = Len(acts) \/ InTurn(acts[i], last))
    BY <2>2, <2>4, ToolCallAssumption DEF ToolCallAssumption, CallInv, ActInv, ActFits
  <2>6. CASE act = last /\ last.what.method \in Repeatable
    <3>1. InTurn(last, act)
      BY <2>1, <2>3, <2>4, <2>6 DEF InTurn
    <3> QED
      BY <1>7, <1>9, <2>1, <2>3, <2>5, <2>6, <3>1 DEF SendsOn
  <2>7. CASE act.run = last.run /\ act.hop = last.hop + 1 /\ last.hop < MaxRequests
    <3>1. ActFits(act)
      BY <2>1, <2>3, <2>4, <2>7 DEF ActFits
    <3>2. \A i \in 1..Len(acts) : InTurn(acts[i], act)
      BY <2>3, <2>4, <2>5, <2>7 DEF InTurn
    <3> QED
      BY <1>7, <1>9, <2>1, <2>3, <2>7, <3>1, <3>2 DEF SendsOn
  <2> QED
    BY <1>9, <2>6, <2>7 DEF SendsOn, Follows
<1>10. CASE GoesOn \/ Reads \/ Writes
  <2>1. /\ acts' = acts
        /\ step' \in Acted => step \in Acted
        /\ step' \in {"start", "datasource", "connect"} =>
               step \in {"start", "datasource", "connect"}
    BY <1>10 DEF GoesOn, Reads, Writes, Acted
  <2>2. LastRun' <=> LastRun
    BY <1>1, <2>1 DEF LastRun
  <2>3. /\ \A i \in 1..Len(acts') : ActFits(acts'[i])
        /\ \A i, j \in 1..Len(acts') : i < j => InTurn(acts'[i], acts'[j])
    BY <2>1 DEF CallInv, ActInv
  <2>4. IsSequence(acts') /\ (~Complete' => acts' = <<>>)
    BY <1>2, <2>1 DEF CallInv, ActInv
  <2>5. (pc'[c] = "executing" /\ step' \in {"start", "datasource", "connect"}) =>
            \A i \in 1..Len(acts') : acts'[i].run < runs'[c]
    BY <1>1, <2>1 DEF CallInv, ActInv
  <2>6. step' \in Acted => LastRun'
    BY <2>1, <2>2 DEF CallInv, ActInv
  <2> QED
    BY <1>2, <1>3, <1>5, <2>3, <2>4, <2>5, <2>6 DEF ActInv
<1> QED
  BY <1>5, <1>8, <1>9, <1>10 DEF Progress

LEMMA StepOfCall ==
    ASSUME PlaceInv, [Next]_vars
    PROVE  \/ UNCHANGED vars \/ InvokeStep
           \/ Progress /\ PlaceInv'
           \/ \E v \in {"ok", "transient", "permanent"} : Return(v) /\ ReturnFits(v)
BY ExecuteStepIsKnown DEF Next, StepIsKnown

LEMMA CallStepKeepsInv == CallInv /\ [Next]_vars => CallInv'
<1> SUFFICES ASSUME CallInv, [Next]_vars PROVE CallInv'
  OBVIOUS
<1>1. [Loop!Next]_(Loop!vars)
  <2>1. CASE UNCHANGED invokerVars
    BY <2>1 DEF invokerVars, Loop!vars, Loop!callVars, Loop!history
  <2>2. CASE Loop!CallStep(c)
    BY <2>2 DEF Loop!Next
  <2> QED
    BY <2>1, <2>2, StepOfCall, InvokeStepIsCallStep, ReturnIsCallStep
    DEF CallInv, vars, Progress
<1>2. Loop!LoopInv' /\ Loop!AnswerInv'
  BY <1>1, Loop!LoopStepKeepsInv, Loop!AnswerStep, InvokerOfCall DEF CallInv
<1>3. PlaceInv' /\ ActInv' /\ ReturnInv'
  <2>1. CASE UNCHANGED vars
    <3> USE <2>1 DEF CallInv, vars, invokerVars
    <3>1. /\ (\A w : Asked(w)' <=> Asked(w))
          /\ (Complete' <=> Complete) /\ (Requests' <=> Requests) /\ (LastRun' <=> LastRun)
      BY DEF Asked, Complete, ConfigClass, Requests, LastRun
    <3>5. (\A a : ActFits(a)' <=> ActFits(a)) /\ (\A a, b : InTurn(a, b)' <=> InTurn(a, b))
      BY <3>1 DEF ActFits, InTurn
    <3>2. PlaceInv'
      BY <3>1 DEF PlaceInv
    <3>3. ActInv'
      BY <3>1, <3>5 DEF ActInv
    <3>4. ReturnInv'
      BY <3>1 DEF ReturnInv, ReturnsAsListed, ConfigClass, SqlReadable
    <3> QED
      BY <3>2, <3>3, <3>4
  <2>2. CASE InvokeStep
    BY <2>2, InvokeStepKeepsInv
  <2>3. CASE Progress /\ PlaceInv'
    BY <2>3, ProgressKeepsInv
  <2>4. ASSUME NEW v \in {"ok", "transient", "permanent"}, Return(v), ReturnFits(v)
        PROVE  PlaceInv' /\ ActInv' /\ ReturnInv'
    BY <2>4, ReturnKeepsInv
  <2> QED
    BY <2>1, <2>2, <2>3, <2>4, StepOfCall DEF CallInv
<1> QED
  BY <1>2, <1>3 DEF CallInv

LEMMA CallInvHolds == Spec => []CallInv
BY CallInit, CallStepKeepsInv, PTL DEF Spec

-----------------------------------------------------------------------------
(* Numbers of holes and of chunks *)

LEMMA LeastNatural ==
    ASSUME NEW S, S \subseteq Nat, S /= {}
    PROVE  \E n \in S : \A m \in S : n <= m
<1> DEFINE Less == OpToRel(<, Nat)
<1>1. PICK n \in S : \A m \in S : <<m, n>> \notin Less
  <2> HIDE DEF Less
  <2>1. IsWellFoundedOn(Less, Nat)
    BY NatLessThanWellFounded DEF Less
  <2> QED
    BY <2>1, WFMin
<1>2. \A m \in S : m < n => <<m, n>> \in Less
  BY DEF OpToRel
<1> HIDE DEF Less
<1>3. \A m \in S : ~(m < n)
  BY <1>1, <1>2
<1> QED
  BY <1>3

\* A finite set of numbers has a greatest one: a smallest set without one would be
\* smaller still.
LEMMA GreatestNatural ==
    ASSUME NEW S, IsFiniteSet(S), S \subseteq Nat, S /= {}
    PROVE  \E n \in S : \A m \in S : n >= m
<1> DEFINE Headless(T) ==
               /\ IsFiniteSet(T) /\ T \subseteq Nat /\ T /= {}
               /\ ~\E n \in T : \A m \in T : n >= m
           Sizes == {k \in Nat : \E T \in SUBSET S : Headless(T) /\ Cardinality(T) = k}
<1> SUFFICES ASSUME Headless(S) PROVE FALSE
  OBVIOUS
<1>1. PICK k \in Sizes : \A l \in Sizes : k <= l
  <2>1. Sizes \subseteq Nat /\ Sizes /= {}
    BY FS_CardinalityType
  <2> HIDE DEF Sizes
  <2> QED
    BY <2>1, LeastNatural
<1>2. PICK T \in SUBSET S : Headless(T) /\ Cardinality(T) = k
  BY <1>1
<1>3. PICK x : x \in T
  BY <1>2
<1>4. IsFiniteSet(T \ {x}) /\ Cardinality(T \ {x}) = k - 1 /\ k - 1 \in Nat
  <2>1. IsFiniteSet(T) /\ Cardinality(T) = k /\ k \in Nat
    BY <1>1, <1>2
  <2> HIDE DEF Headless, Sizes
  <2>2. IsFiniteSet(T \ {x}) /\ Cardinality(T \ {x}) = k - 1
    BY <1>3, <2>1, FS_RemoveElement
  <2> QED
    BY <2>1, <2>2, FS_CardinalityType
<1>5. ~Headless(T \ {x})
  <2>1. SUFFICES ASSUME Headless(T \ {x}) PROVE FALSE
    OBVIOUS
  <2> HIDE DEF Headless
  <2>2. k - 1 \in Sizes
    BY <1>4, <2>1
  <2> QED
    BY <1>1, <1>4, <2>2
<1>6. CASE T \ {x} = {}
  BY <1>2, <1>3, <1>6
<1>7. CASE T \ {x} /= {}
  <2>1. PICK n \in T \ {x} : \A m \in T \ {x} : n >= m
    BY <1>2, <1>4, <1>5, <1>7
  <2>2. (IF n >= x THEN n ELSE x) \in T /\ n \in Nat /\ x \in Nat
    BY <1>2, <1>3
  <2>3. \A m \in T : (IF n >= x THEN n ELSE x) >= m
    BY <1>2, <1>3, <2>1, <2>2
  <2> QED
    BY <1>2, <2>2, <2>3
<1> QED
  BY <1>6, <1>7

LEMMA HolesAreFinite ==
    ASSUME NEW query, Len(query) \in Nat
    PROVE  /\ IsFiniteSet(Holes(query)) /\ Cardinality(Holes(query)) \in Nat
           /\ \A i : /\ IsFiniteSet(HolesTo(query, i))
                     /\ Cardinality(HolesTo(query, i)) \in 0..Cardinality(Holes(query))
<1>1. IsFiniteSet(Holes(query))
  <2>1. IsFiniteSet(1..Len(query))
    BY FS_Interval
  <2>2. Holes(query) \in SUBSET (1..Len(query))
    BY DEF Holes, Places
  <2> QED
    BY <2>1, <2>2, FS_Subset
<1>2. \A i : HolesTo(query, i) \in SUBSET Holes(query)
  BY DEF HolesTo
<1> QED
  BY <1>1, <1>2, FS_Subset, FS_CardinalityType

\* Two holes have two numbers.
LEMMA HolesAreNumbered ==
    ASSUME NEW query, Len(query) \in Nat, NEW i \in Holes(query), NEW j \in Holes(query),
           Cardinality(HolesTo(query, i)) = Cardinality(HolesTo(query, j))
    PROVE  i = j
<1>1. ASSUME NEW k \in Holes(query), NEW l \in Holes(query), k < l,
             Cardinality(HolesTo(query, k)) = Cardinality(HolesTo(query, l))
      PROVE  FALSE
  <2>1. HolesTo(query, k) \in SUBSET HolesTo(query, l)
    BY <1>1 DEF HolesTo, Holes, Places
  <2>2. l \in HolesTo(query, l) /\ l \notin HolesTo(query, k)
    BY <1>1 DEF HolesTo, Holes, Places
  <2> QED
    BY <1>1, <2>1, <2>2, HolesAreFinite, FS_Subset
<1>2. i \in Int /\ j \in Int
  BY DEF Holes, Places
<1> QED
  BY <1>1, <1>2

\* The argument with the number of a hole is the value of its key.
LEMMA ArgOfHole ==
    ASSUME NEW query, Len(query) \in Nat, NEW values, NEW i \in Holes(query)
    PROVE  Args(query, values)[Cardinality(HolesTo(query, i))] = ValueOf(values, query[i].key)
<1> DEFINE place(h) == CHOOSE j \in Holes(query) : Cardinality(HolesTo(query, j)) = h
<1>1. PICK h : h = Cardinality(HolesTo(query, i))
  OBVIOUS
<1>2. h \in 1..Cardinality(Holes(query))
  <2>1. i \in HolesTo(query, i)
    BY DEF HolesTo, Holes, Places
  <2> QED
    BY <1>1, <2>1, HolesAreFinite, FS_EmptySet
<1>3. place(h) = i
  BY <1>1, HolesAreNumbered
<1>4. Args(query, values)[h] = ValueOf(values, query[place(h)].key)
  BY <1>2 DEF Args
<1> QED
  BY <1>1, <1>3, <1>4

\* Every place of a query that is no hole is a parameter of its own.
WellFormed(query) ==
    /\ Len(query) \in Nat
    /\ \A i \in 1..Len(query) :
           query[i].kind = "hole" \/ (query[i].kind = "param" /\ query[i].n \in Nat \ {0})

\* No parameter is left out of the highest number.
LEMMA NoParameters ==
    ASSUME NEW query, WellFormed(query)
    PROVE  maxSQLParamIndex(query) = 0 <=> Holes(query) = 1..Len(query)
<1> DEFINE P == Places(query, "param")
           N == {query[i].n : i \in P}
           Top == maxSQLParamIndex(query)
<1>1. P = {} <=> Holes(query) = 1..Len(query)
  BY DEF WellFormed, Holes, Places
<1>2. IsFiniteSet({0} \cup N) /\ {0} \cup N \subseteq Nat
  <2>1. IsFiniteSet(P)
    <3>1. IsFiniteSet(1..Len(query))
      BY FS_Interval DEF WellFormed
    <3>2. P \in SUBSET (1..Len(query))
      BY DEF Places
    <3> QED
      BY <3>1, <3>2, FS_Subset
  <2>2. [i \in P |-> query[i].n] \in Surjection(P, N)
    BY DEF Surjection
  <2>3. IsFiniteSet(N) /\ IsFiniteSet({0})
    <3> HIDE DEF P, N
    <3> QED
      BY <2>1, <2>2, FS_Surjection, FS_Singleton
  <2>4. N \subseteq Nat
    BY DEF WellFormed, Places
  <2> HIDE DEF N
  <2>5. IsFiniteSet({0} \cup N)
    BY <2>3, FS_Union
  <2> QED
    BY <2>4, <2>5
<1>3. Top \in {0} \cup N /\ \A n \in {0} \cup N : Top >= n
  <2>1. Top = Max({0} \cup N)
    BY DEF maxSQLParamIndex
  <2> HIDE DEF N, Top
  <2> QED
    BY <1>2, <2>1, GreatestNatural DEF Max
<1>4. Top = 0 <=> P = {}
  <2>1. 0 \notin N
    BY DEF WellFormed, Places
  <2>2. N = {} <=> P = {}
    OBVIOUS
  <2> HIDE DEF N, P, Top
  <2> QED
    BY <1>2, <1>3, <2>1, <2>2
<1> QED
  BY <1>1, <1>4

\* A query of holes outside of strings has as many parameters as arguments.
LEMMA HolesAreBindable ==
    ASSUME NEW query, WellFormed(query),
           \A i \in 1..Len(query) : query[i].kind = "hole" /\ ~query[i].inner
    PROVE  Bindable(query)
<1>1. Holes(query) = 1..Len(query) /\ maxSQLParamIndex(query) = 0 /\ Len(query) \in Nat
  BY NoParameters DEF Holes, Places, WellFormed
<1>2. Cardinality(Holes(query)) = Len(query)
  <2>1. PICK n \in Nat : n = Len(query)
    BY <1>1
  <2>2. Cardinality(1..n) = n
    BY FS_Interval
  <2> QED
    BY <1>1, <2>1, <2>2
<1>3. \A i \in 1..Len(query) : NumberAt(query, i) = i
  <2>1. \A i \in 1..Len(query) : HolesTo(query, i) = 1..i
    BY <1>1 DEF HolesTo
  <2>2. \A i \in 1..Len(query) : Cardinality(1..i) = i
    BY <1>1, FS_Interval
  <2> QED
    BY <1>1, <2>1, <2>2 DEF NumberAt
<1>4. Parameters(query) = 1..Len(query)
  BY <1>3 DEF Parameters
<1> QED
  BY <1>2, <1>4 DEF Bindable

\* Of a finite set of numbers of different size, as many are below the first k as
\* the set can give.
LEMMA BestAreFirst ==
    ASSUME NEW E, IsFiniteSet(E), NEW k \in Nat,
           \A d, e \in E : d.score \in Int /\ (d.score = e.score => d = e)
    PROVE  LET found == {d \in E : Cardinality(Better(E, d)) < k}
           IN  /\ IsFiniteSet(found)
               /\ k <= Cardinality(E) => Cardinality(found) = k
<1> DEFINE found == {d \in E : Cardinality(Better(E, d)) < k}
           rank == [d \in E |-> Cardinality(Better(E, d))]
<1>1. IsFiniteSet(found)
  BY FS_Subset
<1>2. ASSUME NEW d \in E
      PROVE  /\ IsFiniteSet(Better(E, d))
             /\ Cardinality(Better(E, d)) \in 0..(Cardinality(E) - 1)
  <2>1. Better(E, d) \in SUBSET (E \ {d})
    BY DEF Better
  <2>2. IsFiniteSet(E \ {d}) /\ Cardinality(E \ {d}) = Cardinality(E) - 1
    BY FS_RemoveElement
  <2> QED
    BY <2>1, <2>2, FS_Subset, FS_CardinalityType
<1>3. ASSUME NEW d \in E, NEW e \in E, rank[d] = rank[e] PROVE d = e
  <2>1. ASSUME NEW a \in E, NEW b \in E, a.score > b.score PROVE rank[a] /= rank[b]
    <3>1. Better(E, a) \in SUBSET Better(E, b) /\ a \in Better(E, b) /\ a \notin Better(E, a)
      BY <2>1 DEF Better
    <3> QED
      BY <1>2, <3>1, FS_Subset
  <2>2. d.score \in Int /\ e.score \in Int
    OBVIOUS
  <2> QED
    BY <1>3, <2>1, <2>2
<1>4. ASSUME k <= Cardinality(E) PROVE Cardinality(found) = k
  <2> DEFINE n == Cardinality(E)
  <2>1. n \in Nat /\ Cardinality(0..(n - 1)) = n /\ IsFiniteSet(0..(n - 1))
    <3>1. n \in Nat
      BY FS_CardinalityType
    <3> HIDE DEF n
    <3> QED
      BY <3>1, FS_Interval
  <2>2. rank \in Injection(E, 0..(n - 1))
    <3>1. rank \in [E -> 0..(n - 1)]
      BY <1>2
    <3>2. \A d, e \in E : rank[d] = rank[e] => d = e
      BY <1>3
    <3> HIDE DEF rank, n
    <3> QED
      BY <3>1, <3>2 DEF Injection, IsInjective
  <2>3. rank \in Surjection(E, 0..(n - 1))
    <3> HIDE DEF rank
    <3> QED
      BY <2>1, <2>2, FS_Injection
  <2> DEFINE top == [d \in found |-> rank[d]]
  <2>4. Cardinality(0..(k - 1)) = k /\ IsFiniteSet(0..(k - 1))
    BY FS_Interval
  <2>5. top \in [found -> 0..(k - 1)] /\ \A d, e \in found : top[d] = top[e] => d = e
    BY <1>2, <1>3
  <2>6. ASSUME NEW i \in 0..(k - 1) PROVE \E d \in found : top[d] = i
    <3>1. PICK d \in E : rank[d] = i
      <4>1. i \in 0..(n - 1)
        BY <1>4, <2>1
      <4> HIDE DEF rank, n
      <4> QED
        BY <2>3, <4>1 DEF Surjection
    <3> QED
      BY <3>1
  <2> HIDE DEF top, found
  <2>7. top \in Injection(found, 0..(k - 1)) /\ top \in Surjection(found, 0..(k - 1))
    BY <2>5, <2>6 DEF Injection, IsInjective, Surjection
  <2> QED
    BY <2>4, <2>7, FS_Injection
<1> QED
  BY <1>1, <1>4

-----------------------------------------------------------------------------
(* What the executors promise *)

\* The executors return only what the table of Tools lists for them, which is what
\* the pipeline relies on.
THEOREM ReturnsAreListed == Spec => []ReturnsAsListed
<1>1. CallInv => ReturnsAsListed
  BY DEF CallInv, ReturnInv
<1> QED
  BY <1>1, CallInvHolds, PTL

\* However the other sides behave, an attempt hands over one statement or script, or at
\* most MaxRequests requests, none of them twice but what is safe to repeat; a success
\* has acted in its last attempt, and a call without its fields never did.
THEOREM ActsAreBounded == Spec => []ActsFitAttempts
<1>1. ASSUME CallInv PROVE ActsFitAttempts
  <2>1. ASSUME NEW i \in 1..Len(acts)
        PROVE  /\ acts[i].run \in 1..runs[c]
               /\ acts[i].hop \in 1..(IF Requests THEN MaxRequests ELSE 1)
    BY <1>1 DEF CallInv, ActInv, ActFits
  <2>2. ASSUME NEW i \in 1..Len(acts), NEW j \in 1..Len(acts),
               i < j, acts[i].run = acts[j].run, acts[i].hop = acts[j].hop
        PROVE  Requests /\ acts[i].what.method \in Repeatable
    BY <1>1, <2>2 DEF CallInv, ActInv, InTurn
  <2>3. ASSUME outcome[c] = "ok" PROVE LastRun
    <3>1. ret[c] \in Loop!Success
      BY <1>1, <2>3 DEF CallInv, Loop!AnswerInv
    <3>2. ret[c] /= "soft"
      BY <1>1, JobTypes DEF CallInv, ReturnInv, ReturnsAsListed, ExecutorReturns
    <3> QED
      BY <1>1, <3>1, <3>2 DEF CallInv, ReturnInv, Loop!Success
  <2>4. ASSUME outcome[c] = "permanent" PROVE ~Complete
    <3>1. ret[c] = "permanent"
      BY <1>1, <2>4 DEF CallInv, Loop!AnswerInv
    <3> QED
      BY <1>1, <3>1 DEF CallInv, ReturnInv, ReturnsAsListed, ExecutorReturns, Complete
  <2>5. ~Complete => acts = <<>>
    BY <1>1 DEF CallInv, ActInv
  <2>6. ConfigClass = "incomplete" => ~Complete
    BY DEF Complete
  <2> QED
    BY <2>1, <2>2, <2>3, <2>4, <2>5, <2>6 DEF ActsFitAttempts, Requests, LastRun
<1> QED
  BY <1>1, CallInvHolds, PTL

\* A request without a body carries the inputs its tool declares or names, no other,
\* and twice only those named as {{args.k}} alone, in every attempt.
THEOREM InputIsNotDropped == Spec => []InputReachesUpstream
<1>1. ASSUME CallInv, job.type = "HTTP", job.http.method \in Bodyless,
             NEW i \in 1..Len(acts), NEW k \in DOMAIN job.input, acts[i].hop = 1
      PROVE  LET request == acts[i].what
                 named(forms) == \E f \in forms : <<k, f>> \in RawURL(job.http).holes
             IN  /\ k \in DOMAIN request.path \cup DOMAIN request.query <=>
                        \/ named(Forms)
                        \/ job.http.properties = {}
                        \/ k \in job.http.properties
                 /\ k \in DOMAIN request.path \cap DOMAIN request.query =>
                        ~named(Forms \ {"{{args.k}}"})
  <2>1. PICK w : acts[i].what = RequestOf(job.http, job.input, w)
    BY <1>1 DEF CallInv, ActInv, ActFits, Asked
  <2>2. /\ RequestOf(job.http, job.input, w).path
                = [n \in Filled(RawURL(job.http), job.input) |-> job.input[n]]
        /\ RequestOf(job.http, job.input, w).query
                = [n \in Query(job.http, job.input) |-> job.input[n]]
    BY DEF RequestOf
  <2>3. /\ DOMAIN acts[i].what.path = Filled(RawURL(job.http), job.input)
        /\ DOMAIN acts[i].what.query = Query(job.http, job.input)
    BY <2>1, <2>2
  <2> QED
    BY <1>1, <2>3 DEF Filled, Query, Used
<1>2. CallInv => InputReachesUpstream
  BY <1>1 DEF InputReachesUpstream
<1> QED
  BY <1>2, CallInvHolds, PTL

LEMMA SelectReadsAll == ASSUME CallInv PROVE SelectIsComplete
<1> SUFFICES ASSUME outcome[c] = "ok", job.type = "SQL", IsSelect(job.sql)
             PROVE  got = job.table \/ (got > 0 /\ got = job.sql.max_rows) \/ got = 100
  BY DEF SelectIsComplete
<1>1. ret[c] \in Loop!Success
  BY DEF CallInv, Loop!AnswerInv
<1>2. ret[c] = "ok"
  BY <1>1 DEF CallInv, ReturnInv, ReturnsAsListed, ExecutorReturns, Loop!Success
<1>3. got = SqlReadable
  BY <1>2 DEF CallInv, ReturnInv
<1>4. job.sql.max_rows \in Int
  BY JobTypes DEF CallInv
<1> QED
  BY <1>3, <1>4 DEF SqlReadable, MaxRows

\* The rows read are all the matches; a chunk that is none although it is eligible
\* has TopK better ones, which are then the matches.
LEMMA SearchReadsAll == ASSUME CallInv PROVE SearchIsComplete
<1> DEFINE found == Matches(job.doc, job.corpus)
           read == {d \in found : Cardinality(Better(found, d)) < got}
           E == {d \in job.corpus : d.base = KnowledgeBase(job.doc) /\ d.score >= MinScore(job.doc)}
           k == TopK(job.doc)
<1> SUFFICES ASSUME outcome[c] = "ok", job.type = "DOCUMENT_SEARCH",
                    NEW d \in job.corpus \ read,
                    d.base = KnowledgeBase(job.doc), ~(d.score < MinScore(job.doc))
             PROVE  got = k /\ \A e \in read : e.score > d.score
  BY DEF SearchIsComplete
<1>1. got = Cardinality(found)
  <2>1. ret[c] \in Loop!Success
    BY DEF CallInv, Loop!AnswerInv
  <2>2. ret[c] = "ok"
    BY <2>1 DEF CallInv, ReturnInv, ReturnsAsListed, ExecutorReturns, Loop!Success
  <2> QED
    BY <2>2 DEF CallInv, ReturnInv
<1>2. /\ IsFiniteSet(job.corpus) /\ k \in Nat /\ MinScore(job.doc) \in Int
      /\ \A a, b \in job.corpus : a.score \in Int /\ (a.score = b.score => a = b)
  <2>1. job \in DocJobs
    BY ToolCallAssumption DEF ToolCallAssumption, CallInv, PlaceInv
  <2>2. TopK(job.doc) \in Nat
    BY <2>1, ToolCallAssumption DEF ToolCallAssumption, TopK, Given
  <2>3. MinScore(job.doc) \in Int
    BY <2>1, ToolCallAssumption DEF ToolCallAssumption, MinScore, Given
  <2> QED
    BY <2>1, <2>2, <2>3, ToolCallAssumption DEF ToolCallAssumption
<1>3. IsFiniteSet(E) /\ E \subseteq job.corpus /\ d \in E
  BY <1>2, FS_Subset
<1>4. found = {a \in E : Cardinality(Better(E, a)) < k}
  BY DEF Matches
<1>5. /\ IsFiniteSet(found) /\ found \subseteq E
      /\ k <= Cardinality(E) => Cardinality(found) = k
  <2> HIDE DEF found, E, k
  <2> QED
    BY <1>2, <1>3, <1>4, BestAreFirst
<1>6. read = found
  <2>1. ASSUME NEW a \in found PROVE Cardinality(Better(found, a)) < got
    <3>1. Better(found, a) \in SUBSET found /\ a \notin Better(found, a)
      <4> a.score \in Int
        BY <1>2, <1>3, <1>5
      <4> QED
        BY DEF Better
    <3> HIDE DEF found
    <3> QED
      BY <1>1, <1>5, <3>1, FS_Subset, FS_CardinalityType
  <2> QED
    BY <2>1
<1>7. ~(Cardinality(Better(E, d)) < k)
  BY <1>3, <1>4, <1>6
<1> HIDE DEF found, E, k, read
<1>8. IsFiniteSet(Better(E, d)) /\ Cardinality(Better(E, d)) <= Cardinality(E)
  BY <1>3, FS_Subset DEF Better
<1>9. Cardinality(Better(E, d)) \in Nat /\ Cardinality(E) \in Nat
  BY <1>3, <1>8, FS_CardinalityType
<1>10. got = k
  BY <1>1, <1>2, <1>5, <1>7, <1>8, <1>9
<1>11. ASSUME NEW e \in read PROVE e.score > d.score
  <2>1. e \in E /\ Cardinality(Better(E, e)) < k
    BY <1>4, <1>6
  <2>2. SUFFICES ASSUME ~(e.score > d.score) PROVE FALSE
    OBVIOUS
  <2>3. e.score \in Int /\ d.score \in Int /\ \A a \in E : a.score \in Int
    BY <1>2, <1>3, <2>1
  <2>4. Better(E, d) \in SUBSET Better(E, e)
    BY <2>2, <2>3 DEF Better
  <2>5. IsFiniteSet(Better(E, e))
    BY <1>3, FS_Subset DEF Better
  <2> QED
    BY <1>2, <1>7, <1>9, <2>1, <2>4, <2>5, FS_Subset, FS_CardinalityType
<1> QED
  BY <1>10, <1>11

\* A SELECT or a search that succeeds has read every row its limit allows, the best
\* chunks first, however often reading broke off before.
THEOREM RowsAreAllRead == Spec => []RowsAreComplete
<1>1. CallInv => RowsAreComplete
  BY SelectReadsAll, SearchReadsAll DEF RowsAreComplete
<1> QED
  BY <1>1, CallInvHolds, PTL

\* A query of holes can be run, and in any query without parameters of its own every
\* hole outside of a string is bound to the input it names.
THEOREM HolesAreBound == Spec => []BoundAsWritten
<1>1. ASSUME CallInv, job.type = "SQL" PROVE WellFormed(job.sql.query)
  BY <1>1, ToolCallAssumption DEF ToolCallAssumption, CallInv, PlaceInv, WellFormed
<1>2. ASSUME CallInv, job.type = "SQL",
             step = "connect",
             \A i \in 1..Len(job.sql.query) :
                 job.sql.query[i].kind = "hole" /\ ~job.sql.query[i].inner
      PROVE  Bindable(job.sql.query)
  BY <1>1, <1>2, HolesAreBindable
<1>3. ASSUME CallInv, job.type = "SQL", maxSQLParamIndex(job.sql.query) = 0,
             NEW a \in 1..Len(acts), NEW i \in 1..Len(job.sql.query),
             ~job.sql.query[i].inner
      PROVE  acts[a].what[i] = ValueOf(job.input, job.sql.query[i].key)
  <2> DEFINE query == job.sql.query
  <2>1. WellFormed(query) /\ Holes(query) = 1..Len(query)
    BY <1>1, <1>3, NoParameters
  <2>2. acts[a].what = Bound(query, job.input)
    <3>1. ActFits(acts[a]) /\ ~Requests
      BY <1>3 DEF CallInv, ActInv, Requests
    <3>2. acts[a].hop = 1
      BY <3>1 DEF ActFits
    <3> QED
      BY <1>3, <3>1, <3>2 DEF ActFits, Asked
  <2>3. acts[a].what[i] = Args(query, job.input)[NumberAt(query, i)]
    BY <1>3, <2>2 DEF Bound
  <2>4. NumberAt(query, i) = Cardinality(HolesTo(query, i))
    <3>1. query[i].kind /= "param"
      BY <2>1 DEF Holes, Places
    <3>2. Cardinality(HolesTo(query, i)) \in Nat
      BY <2>1, HolesAreFinite DEF WellFormed
    <3> QED
      BY <1>3, <3>1, <3>2 DEF NumberAt
  <2> QED
    BY <2>1, <2>3, <2>4, ArgOfHole DEF WellFormed
<1>4. CallInv => BoundAsWritten
  BY <1>2, <1>3 DEF BoundAsWritten
<1> QED
  BY <1>4, CallInvHolds, PTL
=============================================================================
