----------------------------- MODULE McpSession -----------------------------
(***************************************************************************)
(* internal/executor/mcp/executor.go: one call of MCPToolExecutor.Execute. *)
(* With the stdio transport it starts a process, speaks JSON-RPC with it   *)
(* over two pipes (initialize, initialized, tools/call), and takes it down *)
(* again; exec.CommandContext kills the process when the context ends.     *)
(*                                                                         *)
(* The command may start a helper of its own that inherits some of the     *)
(* pipes and may do the serving (a launcher script, npx): Kill reaches the *)
(* child only.  A pipe ends when no process holds its other end, stderr    *)
(* too: it is a pipe, copied to io.Discard by a goroutine of os/exec.      *)
(*                                                                         *)
(* A pipe holds up to PipeCap messages and then blocks its writer.  What   *)
(* the server may do is bounded by what the protocol allows, not by what a *)
(* friendly server does: it answers each request it has read at most once, *)
(* whenever it likes, and sends notifications and requests of its own.     *)
(***************************************************************************)
EXTENDS Naturals, Sequences

CONSTANTS
    PipeCap,        \* messages a pipe holds
    MaxUnasked      \* bound on the messages the server sends unasked

ASSUME McpAssumption == PipeCap \in Nat \ {0} /\ MaxUnasked \in Nat

VARIABLES
    config,     \* the class of the tool config and of its mcp_server_config row
    ctxDone,    \* the context of the attempt has ended
    pc,         \* where Execute is
    nextID,     \* stdioProtocol.nextID
    result,     \* what Execute returned
    procs,      \* the processes that run
    inherits,   \* the pipes the helper has inherited
    open,       \* the client has not closed its end of stdin
    stdin,      \* the pipe to the server
    stdout,     \* the pipe from the server
    read,       \* the requests the server has read
    answers,    \* how it answered each of them
    unasked,    \* how many messages it sent unasked
    foreign     \* the ids of requests of its own

client == <<config, pc, nextID, result>>
server == <<read, answers, unasked, foreign>>
pipes == <<inherits, open, stdin, stdout>>
vars == <<client, ctxDone, procs, pipes, server>>

Pipes == {"stdin", "stdout", "stderr"}

\* A process has the other end of a pipe open; the child has that of all three.
Held(pipe) == "child" \in procs \/ ("helper" \in procs /\ pipe \in inherits)

-----------------------------------------------------------------------------
(* Messages.  A message without an id decodes with id 0, which no request of *)
(* the client has; a request of the server decodes as a response that has    *)
(* neither a result nor an error.                                            *)

IDs == 1..2     \* initialize, tools/call
Response(id, body) == [id |-> id, body |-> body]
Request(id) == Response(id, "none")
Notification == Response(0, "none")

\* Not JSON, an id that is not a number, or a line over maxStdioRPCMessageSize.
Unreadable == Response(0, "unreadable")

Messages == [id : 0..2, body : {"none", "result", "error"}] \cup {Unreadable}

\* The configs Execute refuses before it starts anything: a missing field, no
\* such row, no known transport, a command that is missing or not in the
\* allowlist, an allowlist or an environment that is not acceptable; or, for
\* the http transport, a base URL that is missing or blocked.
Refused ==
    {"noField", "noRow", "noTransport", "noCommand", "unlisted", "badAllowlist", "badEnv",
     "noURL", "blockedURL"}

\* A response with an error is a Result with an Error; any other one is a
\* Result with the output of the response, if it has one.
resultFromResponse(m) == IF m.body = "error" THEN "soft" ELSE "ok"

TypeOK ==
    /\ config \in Refused \cup {"stdio", "http"}
    /\ ctxDone \in BOOLEAN
    /\ pc \in {"start", "request", "response", "notify", "close", "kill", "wait", "done"}
    /\ nextID \in 0..2
    /\ result \in {"none", "ok", "soft", "err"}
    /\ procs \subseteq {"child", "helper"}
    /\ inherits \subseteq Pipes
    /\ open \in BOOLEAN
    /\ stdin \in Seq(0..2) /\ Len(stdin) <= PipeCap
    /\ stdout \in Seq(Messages) /\ Len(stdout) <= PipeCap
    /\ read \subseteq IDs
    /\ answers \in [IDs -> {"none", "result", "error"}]
    /\ unasked \in 0..MaxUnasked
    /\ foreign \subseteq IDs

Init ==
    /\ config \in Refused \cup {"stdio", "http"}
    /\ ctxDone = FALSE
    /\ pc = "start"
    /\ nextID = 0
    /\ result = "none"
    /\ procs = {}
    /\ inherits = {}
    /\ open = TRUE
    /\ stdin = <<>>
    /\ stdout = <<>>
    /\ read = {}
    /\ answers = [i \in IDs |-> "none"]
    /\ unasked = 0
    /\ foreign = {}

-----------------------------------------------------------------------------
(* Execute *)

Return(r) ==
    /\ pc = "start"
    /\ pc' = "done"
    /\ result' = r
    /\ UNCHANGED <<config, nextID, ctxDone, procs, pipes, server>>

Refuse == config \in Refused /\ Return("err")

\* executeHTTP: one exchange, with the redirects it follows, that the context and
\* the client's own timeout of 30 s bound.  No response, a response other than 200 and a body that does not
\* decode are errors; the id of the response is not compared.
CallHTTP ==
    /\ config = "http"
    /\ \/ Return("err")
       \/ ~ctxDone /\ \E body \in {"none", "result", "error"} :
              Return(resultFromResponse(Response(1, body)))

\* cmd.Start fails: no such file, no memory, or a context that has ended.
StartFails == config = "stdio" /\ Return("err")

Start ==
    /\ pc = "start"
    /\ config = "stdio"
    /\ ~ctxDone
    /\ \/ procs' = {"child"} /\ UNCHANGED inherits
       \/ procs' = {"child", "helper"} /\ inherits' \in SUBSET Pipes
    /\ pc' = "request"
    /\ UNCHANGED <<config, nextID, result, ctxDone, open, stdin, stdout, server>>

\* The deferred function takes over.
Fail ==
    /\ result' = "err"
    /\ pc' = "close"
    /\ UNCHANGED <<config, nextID>>

\* writer.Write: it blocks while the pipe is full, and fails with EPIPE when
\* nobody holds the other end.
Write(m) ==
    /\ Held("stdin")
    /\ Len(stdin) < PipeCap
    /\ stdin' = Append(stdin, m)
    /\ UNCHANGED <<inherits, open, stdout>>

WriteRequest ==
    /\ pc = "request"
    /\ nextID' = nextID + 1
    /\ Write(nextID + 1)
    /\ pc' = "response"
    /\ UNCHANGED <<config, result, ctxDone, procs, server>>

WriteNotification ==
    /\ pc = "notify"
    /\ Write(0)
    /\ pc' = "request"
    /\ UNCHANGED <<config, nextID, result, ctxDone, procs, server>>

WriteFails ==
    /\ pc \in {"request", "notify"}
    /\ ~Held("stdin")
    /\ Fail
    /\ UNCHANGED <<ctxDone, procs, pipes, server>>

\* Mutated: whatever the server sends next is taken for the response.
Accepts_Any(m) == m /= Unreadable

Accepts(m) == m /= Unreadable /\ m.id = nextID

\* Mutated: the server's refusal of the session is overlooked.
Received_AnySession(m) ==
    /\ IF nextID = 1 THEN pc' = "notify" /\ UNCHANGED result
       ELSE pc' = "close" /\ result' = resultFromResponse(m)
    /\ UNCHANGED <<config, nextID>>

\* request returned m: the answer to initialize, or the one to tools/call.
Received(m) ==
    IF nextID = 1
    THEN IF m.body = "error" THEN Fail
         ELSE pc' = "notify" /\ UNCHANGED <<config, nextID, result>>
    ELSE pc' = "close" /\ result' = resultFromResponse(m) /\ UNCHANGED <<config, nextID>>

\* One turn of the loop over reader.Scan.  The context is looked at first.
ReadMessage ==
    /\ pc = "response"
    /\ stdout /= <<>>
    /\ stdout' = Tail(stdout)
    /\ LET m == Head(stdout)
       IN  IF ctxDone \/ m = Unreadable THEN Fail
           ELSE IF Accepts(m) THEN Received(m)
           ELSE UNCHANGED client
    /\ UNCHANGED <<ctxDone, procs, inherits, open, stdin, server>>

\* Scan returns FALSE at the end of the pipe.
ReadEOF ==
    /\ pc = "response"
    /\ stdout = <<>>
    /\ ~Held("stdout")
    /\ Fail
    /\ UNCHANGED <<ctxDone, procs, pipes, server>>

\* Mutated: the deferred function only kills and waits.
CloseStdin_Never ==
    /\ pc = "close"
    /\ pc' = "kill"
    /\ UNCHANGED <<config, nextID, result, ctxDone, procs, pipes, server>>

CloseStdin ==
    /\ pc = "close"
    /\ open' = FALSE
    /\ pc' = "kill"
    /\ UNCHANGED <<config, nextID, result, ctxDone, procs, inherits, stdin, stdout, server>>

Kill ==
    /\ pc = "kill"
    /\ procs' = procs \ {"child"}
    /\ pc' = "wait"
    /\ UNCHANGED <<config, nextID, result, ctxDone, pipes, server>>

\* cmd.Wait waits for the child and, as Stderr is not a file, for the goroutine
\* that copies the stderr pipe, which ends when nobody holds it.
Wait ==
    /\ pc = "wait"
    /\ "child" \notin procs
    /\ ~Held("stderr")
    /\ pc' = "done"
    /\ UNCHANGED <<config, nextID, result, ctxDone, procs, pipes, server>>

-----------------------------------------------------------------------------
(* The context and the server *)

Cancel ==
    /\ ~ctxDone
    /\ pc /= "done"
    /\ ctxDone' = TRUE
    /\ UNCHANGED <<client, procs, pipes, server>>

\* Mutated: exec.Command, without the context.
KillOnCancel_Never == FALSE /\ UNCHANGED vars

\* The goroutine exec.CommandContext starts.
KillOnCancel ==
    /\ ctxDone
    /\ "child" \in procs
    /\ procs' = procs \ {"child"}
    /\ UNCHANGED <<client, ctxDone, pipes, server>>

\* A helper may read, and act on what it reads, even after the call has returned.
ServerReads ==
    /\ Held("stdin")
    /\ stdin /= <<>>
    /\ stdin' = Tail(stdin)
    /\ read' = read \cup ({Head(stdin)} \cap IDs)
    /\ UNCHANGED <<client, ctxDone, procs, inherits, open, stdout, answers, unasked, foreign>>

\* At the end of cmd.Wait the client closes stdout, and writing to it fails.
Send(m) ==
    /\ Held("stdout")
    /\ pc /= "done"
    /\ Len(stdout) < PipeCap
    /\ stdout' = Append(stdout, m)
    /\ UNCHANGED <<client, ctxDone, procs, inherits, open, stdin, read>>

ServerAnswers(id, body) ==
    /\ id \in read
    /\ answers[id] = "none"
    /\ answers' = [answers EXCEPT ![id] = body]
    /\ Send(Response(id, body))
    /\ UNCHANGED <<unasked, foreign>>

ServerSends(m) ==
    /\ unasked < MaxUnasked
    /\ unasked' = unasked + 1
    /\ foreign' = foreign \cup ({m.id} \cap IDs)
    /\ Send(m)
    /\ UNCHANGED answers

\* A process ends by itself or crashes.
Exit(p) ==
    /\ p \in procs
    /\ procs' = procs \ {p}
    /\ UNCHANGED <<client, ctxDone, pipes, server>>

Step ==
    \/ Refuse \/ CallHTTP \/ StartFails \/ Start
    \/ WriteRequest \/ WriteNotification \/ WriteFails
    \/ ReadMessage \/ ReadEOF
    \/ CloseStdin \/ Kill \/ Wait

Serve ==
    \/ ServerReads
    \/ \E id \in IDs, body \in {"result", "error"} : ServerAnswers(id, body)
    \/ \E m \in {Notification, Unreadable} \cup {Request(id) : id \in IDs} : ServerSends(m)
    \/ \E p \in procs : Exit(p)

Next == Step \/ Cancel \/ KillOnCancel \/ Serve

Spec == Init /\ [][Next]_vars

\* The helper holds stdout and may be in the middle of writing to the full pipe.
Blocked == "stdout" \in inherits /\ Len(stdout) = PipeCap

(***************************************************************************)
(* The goroutines of Execute and of the context run.  Of the processes     *)
(* only this is assumed: a helper that reads stdin ends once its stdin     *)
(* does, as the stdio transport asks of a server, unless it is blocked.    *)
(***************************************************************************)
HelperEnds == ~open /\ "stdin" \in inherits /\ ~Blocked /\ Exit("helper")

Fairness == WF_vars(Step) /\ WF_vars(KillOnCancel) /\ WF_vars(HelperEnds)

FairSpec == Spec /\ Fairness

-----------------------------------------------------------------------------
\* What Execute returns is what the server answered to this tools/call, though
\* notifications, requests and answers to initialize arrive in between, unless
\* the server used the id of the call for a request of its own.
ResultIsAnswer ==
    /\ (result = "ok" /\ config = "stdio") => answers[2] = "result" \/ 2 \in foreign
    /\ (result = "soft" /\ config = "stdio") => answers[2] = "error"

\* The tool is not called before the server has accepted the session, with the
\* same reserve.
CalledInSession == nextID = 2 => answers[1] = "result" \/ 1 \in foreign

\* Once Execute is through with the session it returns, whatever the server does:
\* Kill ends the child, and the end of stdin the helpers that still hold stderr.
\* What remains is a helper that holds stderr and is deaf, because it does not read
\* stdin or is blocked on a pipe that nobody reads any more.
CallIsTakenDown ==
    pc = "close" ~> \/ pc = "done"
                    \/ /\ "helper" \in procs /\ "stderr" \in inherits
                       /\ "stdin" \notin inherits \/ Blocked

\* Once the context ends Execute returns, whether the server hangs, floods the
\* pipe, does not read or has crashed, as long as no helper holds a pipe of it.
CancelReturns == (ctxDone /\ ("helper" \in procs => inherits = {})) ~> pc = "done"
=============================================================================
