----------------------------- MODULE McpProofs ------------------------------
(***************************************************************************)
(* Proofs about McpSession, for pipes of any size and any number of        *)
(* messages sent unasked.  PipeInv says where every message on its way to  *)
(* the client came from; SessionInv says what the place where Execute is   *)
(* tells about the session.                                                *)
(***************************************************************************)
EXTENDS McpSession, TLAPS

USE McpAssumption DEF McpAssumption

\* A message was sent by the server, as an answer or on its own account.
Sent(m) ==
    m.id \in IDs => IF m.body = "none" THEN m.id \in foreign ELSE answers[m.id] = m.body

PipeInv == \A i \in 1..Len(stdout) : Sent(stdout[i])

\* The server accepted the session, or used the id of initialize itself.
Accepted == answers[1] = "result" \/ 1 \in foreign

SessionInv ==
    /\ pc = "start" => nextID = 0
    /\ pc = "request" => nextID \in {0, 1}
    /\ pc = "response" => nextID \in {1, 2}
    /\ pc = "notify" => nextID = 1 /\ Accepted
    /\ (pc = "request" /\ nextID = 1) => Accepted
    /\ nextID = 2 => Accepted

McpInv == TypeOK /\ PipeInv /\ SessionInv /\ ResultIsAnswer

LEMMA McpInit == Init => McpInv
<1> SUFFICES ASSUME Init PROVE McpInv
  OBVIOUS
<1>1. TypeOK
  <2>1. <<>> \in Seq(0..2) /\ <<>> \in Seq(Messages) /\ Len(<<>>) <= PipeCap
    OBVIOUS
  <2>2. [i \in IDs |-> "none"] \in [IDs -> {"none", "result", "error"}]
    OBVIOUS
  <2>3. stdin \in Seq(0..2) /\ Len(stdin) <= PipeCap /\ stdout \in Seq(Messages) /\ Len(stdout) <= PipeCap
    BY <2>1 DEF Init
  <2>4. config \in Refused \cup {"stdio", "http"}
    BY DEF Init
  <2>5. answers \in [IDs -> {"none", "result", "error"}]
    BY <2>2 DEF Init
  <2>6. unasked \in 0..MaxUnasked /\ nextID \in 0..2
    BY DEF Init
  <2> QED
    BY <2>3, <2>4, <2>5, <2>6 DEF Init, TypeOK
<1>2. PipeInv /\ SessionInv /\ ResultIsAnswer
  BY DEF Init, PipeInv, SessionInv, ResultIsAnswer
<1> QED
  BY <1>1, <1>2 DEF McpInv

-----------------------------------------------------------------------------
(* The steps of Execute before and after the conversation *)

LEMMA QuietStep ==
    ASSUME McpInv,
           \/ Refuse \/ CallHTTP \/ StartFails \/ Start \/ WriteFails \/ ReadEOF
           \/ CloseStdin \/ Kill \/ Wait \/ Cancel \/ KillOnCancel
           \/ \E p \in procs : Exit(p)
    PROVE  McpInv'
<1> USE DEF McpInv, TypeOK, pipes, PipeInv, Sent, SessionInv, ResultIsAnswer, Accepted, IDs
<1>1. ASSUME NEW r \in {"ok", "soft", "err"}, Return(r), config \in Refused \cup {"http"} \/ r = "err"
      PROVE  McpInv'
  BY <1>1 DEF Return, server, Refused
<1>2. CASE Refuse \/ StartFails
  BY <1>1, <1>2 DEF Refuse, StartFails
<1>3. CASE CallHTTP
  <2>1. \A body : resultFromResponse(Response(1, body)) \in {"ok", "soft", "err"}
    BY DEF resultFromResponse
  <2>2. config = "http" /\ \E r \in {"ok", "soft", "err"} : Return(r)
    BY <1>3, <2>1 DEF CallHTTP
  <2> QED
    BY <1>1, <2>2
<1>4. CASE Start
  BY <1>4 DEF Start, server
<1>5. CASE WriteFails \/ ReadEOF
  BY <1>5 DEF WriteFails, ReadEOF, Fail, server
<1>6. CASE CloseStdin \/ Kill \/ Wait
  <2>1. CASE CloseStdin
    BY <2>1 DEF CloseStdin, server
  <2>2. CASE Kill
    BY <2>2 DEF Kill, server
  <2>3. CASE Wait
    BY <2>3 DEF Wait, server
  <2> QED
    BY <1>6, <2>1, <2>2, <2>3
<1>7. CASE Cancel
  BY <1>7 DEF Cancel, client, server
<1>8. CASE KillOnCancel
  BY <1>8 DEF KillOnCancel, client, server
<1>9. CASE \E p \in procs : Exit(p)
  BY <1>9 DEF Exit, client, server
<1> QED
  BY <1>2, <1>3, <1>4, <1>5, <1>6, <1>7, <1>8, <1>9

LEMMA WriteStep ==
    ASSUME McpInv, WriteRequest \/ WriteNotification
    PROVE  McpInv'
<1> USE DEF McpInv, TypeOK, pipes, PipeInv, Sent, SessionInv, ResultIsAnswer, Accepted, IDs
<1>1. ASSUME NEW m \in 0..2, Write(m) PROVE
        /\ stdin' \in Seq(0..2) /\ Len(stdin') <= PipeCap
        /\ UNCHANGED <<inherits, open, stdout>>
  BY <1>1 DEF Write
<1>2. CASE WriteRequest
  <2>1. nextID + 1 \in 0..2
    BY <1>2 DEF WriteRequest
  <2> QED
    BY <1>1, <1>2, <2>1 DEF WriteRequest, server
<1>3. CASE WriteNotification
  BY <1>1, <1>3 DEF WriteNotification, server
<1> QED
  BY <1>2, <1>3

LEMMA ReadStep ==
    ASSUME McpInv, ReadMessage
    PROVE  McpInv'
<1> USE DEF McpInv, TypeOK
<1> DEFINE m == Head(stdout)
<1>1. /\ stdout /= <<>> /\ stdout' = Tail(stdout) /\ pc = "response"
      /\ UNCHANGED <<ctxDone, procs, inherits, open, stdin, server>>
  BY DEF ReadMessage
<1>2. stdout' \in Seq(Messages) /\ Len(stdout') <= PipeCap
  BY <1>1
<1>3. m \in Messages /\ Sent(m)
  BY <1>1 DEF PipeInv
<1>4. PipeInv'
  BY <1>1 DEF PipeInv, Sent, server
<1>5. nextID \in {1, 2} /\ (nextID = 2 => Accepted)
  BY <1>1 DEF SessionInv
<1> USE DEF SessionInv, ResultIsAnswer, Accepted, IDs
<1>6. CASE Fail
  BY <1>1, <1>2, <1>4, <1>6 DEF Fail, server
<1>7. CASE UNCHANGED client
  BY <1>1, <1>2, <1>4, <1>7 DEF client, server
<1>8. CASE Accepts(m) /\ Received(m)
  <2>1. m.id = nextID /\ m.body \in {"none", "result", "error"}
    BY <1>3, <1>5, <1>8 DEF Accepts, Messages, Unreadable, Response
  <2>2. CASE nextID = 1 /\ m.body /= "error"
    <3>1. Accepted
      BY <1>3, <2>1, <2>2 DEF Sent
    <3> QED
      BY <1>1, <1>2, <1>4, <1>8, <2>2, <3>1 DEF Received, server
  <2>3. CASE nextID = 2
    <3>1. IF m.body = "none" THEN 2 \in foreign ELSE answers[2] = m.body
      BY <1>3, <2>1, <2>3 DEF Sent
    <3> QED
      BY <1>1, <1>2, <1>4, <1>5, <1>8, <2>1, <2>3, <3>1
      DEF Received, resultFromResponse, server
  <2> QED
    BY <1>5, <1>6, <1>8, <2>2, <2>3 DEF Received
<1> QED
  BY <1>6, <1>7, <1>8 DEF ReadMessage

-----------------------------------------------------------------------------
(* The steps of the server *)

\* Receiving a message keeps the pipe in order, and what it tells stays true.
LEMMA SendStep ==
    ASSUME McpInv, NEW m \in Messages, Send(m),
           foreign \subseteq foreign',
           \A id \in IDs : answers[id] /= "none" => answers'[id] = answers[id],
           Sent(m)'
    PROVE  PipeInv' /\ stdout' \in Seq(Messages) /\ Len(stdout') <= PipeCap
<1>1. stdout \in Seq(Messages) /\ stdout' = Append(stdout, m) /\ Len(stdout) < PipeCap
  BY DEF McpInv, TypeOK, Send
<1>2. ASSUME NEW i \in 1..Len(stdout) PROVE Sent(stdout[i])'
  <2>1. Sent(stdout[i]) /\ stdout[i] \in Messages
    BY <1>1 DEF McpInv, PipeInv
  <2> QED
    BY <1>1, <2>1 DEF Sent, Messages, Unreadable, Response, IDs
<1> QED
  BY <1>1, <1>2 DEF PipeInv, Sent

LEMMA ServerStep ==
    ASSUME McpInv,
           \/ ServerReads
           \/ \E id \in IDs, body \in {"result", "error"} : ServerAnswers(id, body)
           \/ \E m \in {Notification, Unreadable} \cup {Request(id) : id \in IDs} : ServerSends(m)
    PROVE  McpInv'
<1>1. CASE ServerReads
  <2>1. stdin' \in Seq(0..2) /\ Len(stdin') <= PipeCap
    BY <1>1 DEF ServerReads, McpInv, TypeOK
  <2>2. /\ read' \subseteq IDs
        /\ UNCHANGED <<client, ctxDone, procs, inherits, open, stdout, answers, unasked, foreign>>
    BY <1>1 DEF ServerReads, McpInv, TypeOK
  <2>3. TypeOK'
    BY <2>1, <2>2 DEF client, McpInv, TypeOK
  <2>4. PipeInv' /\ SessionInv' /\ ResultIsAnswer'
    BY <2>2 DEF client, McpInv, PipeInv, Sent, SessionInv, ResultIsAnswer, Accepted
  <2> QED
    BY <2>3, <2>4 DEF McpInv
<1>2. ASSUME NEW id \in IDs, NEW body \in {"result", "error"}, ServerAnswers(id, body)
      PROVE  McpInv'
  <2> DEFINE m == Response(id, body)
  <2>1. m \in Messages /\ m.id = id /\ m.body = body
    BY DEF Response, Messages, IDs
  <2>2. /\ Send(m) /\ foreign' = foreign /\ unasked' = unasked
        /\ answers[id] = "none" /\ answers' = [answers EXCEPT ![id] = body]
        /\ UNCHANGED <<client, ctxDone, procs, inherits, open, stdin, read>>
    BY <1>2 DEF ServerAnswers, Send
  <2>3. answers'[id] = body /\ \A i \in IDs : answers[i] /= "none" => answers'[i] = answers[i]
    BY <2>2 DEF McpInv, TypeOK
  <2>4. Sent(m)'
    BY <2>1, <2>3 DEF Sent, Response
  <2>5. PipeInv' /\ stdout' \in Seq(Messages) /\ Len(stdout') <= PipeCap
    BY <2>1, <2>2, <2>3, <2>4, SendStep
  <2>6. SessionInv' /\ ResultIsAnswer'
    BY <2>2, <2>3 DEF McpInv, SessionInv, ResultIsAnswer, Accepted, client, IDs
  <2>7. TypeOK'
    BY <2>2, <2>5 DEF McpInv, TypeOK, client, IDs
  <2> QED
    BY <2>5, <2>6, <2>7 DEF McpInv
<1>3. ASSUME NEW m \in {Notification, Unreadable} \cup {Request(id) : id \in IDs}, ServerSends(m)
      PROVE  McpInv'
  <2>1. m \in Messages /\ (m.id \in IDs => m.body = "none")
    BY DEF Notification, Unreadable, Request, Response, Messages, IDs
  <2>2. /\ Send(m) /\ foreign' = foreign \cup ({m.id} \cap IDs) /\ unasked' = unasked + 1
        /\ unasked < MaxUnasked /\ answers' = answers
        /\ UNCHANGED <<client, ctxDone, procs, inherits, open, stdin, read>>
    BY <1>3 DEF ServerSends, Send
  <2>3. Sent(m)'
    BY <2>1, <2>2 DEF Sent
  <2>4. PipeInv' /\ stdout' \in Seq(Messages) /\ Len(stdout') <= PipeCap
    BY <2>1, <2>2, <2>3, SendStep
  <2>5. SessionInv' /\ ResultIsAnswer'
    BY <2>2 DEF McpInv, SessionInv, ResultIsAnswer, Accepted, client
  <2>6. TypeOK'
    BY <2>2, <2>4 DEF McpInv, TypeOK, client
  <2> QED
    BY <2>4, <2>5, <2>6 DEF McpInv
<1> QED
  BY <1>1, <1>2, <1>3

LEMMA McpStep == McpInv /\ [Next]_vars => McpInv'
<1>1. McpInv /\ UNCHANGED vars => McpInv'
  BY DEF vars, client, server, pipes, McpInv, TypeOK, PipeInv, Sent, SessionInv, ResultIsAnswer, Accepted
<1> QED
  BY <1>1, QuietStep, WriteStep, ReadStep, ServerStep DEF Next, Step, Serve

LEMMA McpCorrect == Spec => []McpInv
BY McpInit, McpStep, PTL DEF Spec

\* Every variable of the session keeps its type, and neither pipe overflows.
THEOREM SessionTypeCorrect == Spec => []TypeOK
BY McpCorrect, PTL DEF McpInv

\* The result of a stdio call is the server's answer to that call, unless the
\* server used the id of the call for a request of its own.
THEOREM ResultAnswersCall == Spec => []ResultIsAnswer
BY McpCorrect, PTL DEF McpInv

\* The tool is called only in a session the server accepted, with the same
\* reserve.
THEOREM CallsAreInSession == Spec => []CalledInSession
<1>1. McpInv => CalledInSession
  BY DEF McpInv, SessionInv, Accepted, CalledInSession
<1> QED
  BY <1>1, McpCorrect, PTL
=============================================================================
