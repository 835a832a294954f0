--------------------------- MODULE ProviderStream ---------------------------
(***************************************************************************)
(* internal/ai/provider: one call of ChatStream.  After the response       *)
(* header a goroutine reads server-sent events from the body, turns each   *)
(* into StreamChunks and sends them on a buffered channel, which the       *)
(* caller reads; it closes the body and the channel when the body ends.    *)
(*                                                                         *)
(* The providers differ in how they read an event, in which responses they *)
(* accept and in what they do when reading fails; ollama delegates to      *)
(* openai.  A stream shares nothing with other streams.                    *)
(*                                                                         *)
(* An event of the body is an item [kind, n], where n is its place in what *)
(* the server sent.  The end of the body is an item too: "eof", or "fault" *)
(* when reading it fails.                                                  *)
(***************************************************************************)
EXTENDS Naturals, SequencesExt

CONSTANTS
    Cap,        \* capacity of the channel
    MaxItems    \* bound on the items of the body

ASSUME StreamAssumption == Cap \in Nat \ {0} /\ MaxItems \in Nat \ {0, 1}

VARIABLES
    provider,   \* whose ChatStream it is
    pc,         \* where the goroutine is
    open,       \* the server can still add to the body
    sent,       \* how many items it has sent
    body,       \* the items not read yet
    seen,       \* the items the scanner returned
    pending,    \* chunks of the current event still to be sent
    channel,    \* the buffer of the channel
    closed,     \* close(ch) was called
    consumer,   \* what the caller does
    got         \* what it received

goroutine == <<pc, seen, pending, closed>>
vars == <<provider, goroutine, open, sent, body, channel, consumer, got>>

-----------------------------------------------------------------------------
(* Events and chunks *)

Providers == {"anthropic", "openai", "openrouter"}

\* Lines without data and events the code passes over ("skip"); text, a part of
\* a tool call, a finish reason, a delta of none of these ("empty"); an event of
\* two choices; the end marker; data that does not decode.
Kinds == {"skip", "text", "tool", "finish", "empty", "two", "done", "bad", "eof", "fault"}
Items == [kind : Kinds, n : 1..MaxItems]
Chunks == [kind : {"text", "tool", "finish", "empty", "error"}, n : 1..MaxItems]
Chunk(k, item) == <<[kind |-> k, n |-> item.n]>>

\* Mutated: scanner.Err is not looked at after the loop.
Anthropic_NoScannerErr(i) ==
    IF i.kind \in {"text", "tool", "finish", "empty"} THEN Chunk(i.kind, i)
    ELSE IF i.kind = "bad" THEN Chunk("error", i)
    ELSE <<>>

Anthropic(i) ==
    IF i.kind \in {"text", "tool", "finish", "empty"} THEN Chunk(i.kind, i)
    ELSE IF i.kind \in {"bad", "fault"} THEN Chunk("error", i)
    ELSE <<>>

\* One chunk for every choice.
OpenAI(i) == IF i.kind = "two" THEN Chunk("text", i) \o Chunk("finish", i) ELSE Anthropic(i)

\* The first choice only, without its tool calls, and no scanner.Err.
OpenRouter(i) ==
    IF i.kind = "two" THEN Chunk("text", i)
    ELSE IF i.kind = "tool" THEN Chunk("empty", i)
    ELSE IF i.kind = "fault" THEN <<>>
    ELSE Anthropic(i)

ChunksOf(i) ==
    IF provider = "anthropic" THEN Anthropic(i)
    ELSE IF provider = "openai" THEN OpenAI(i)
    ELSE OpenRouter(i)

Final == {"done", "bad", "eof", "fault"}

\* What the server may send: anthropic events have no choices.
Sendable == Kinds \ (Final \cup IF provider = "anthropic" THEN {"two"} ELSE {})

TypeOK ==
    /\ provider \in Providers
    /\ pc \in {"request", "scan", "send", "fail", "return", "done", "refused"}
    /\ open \in BOOLEAN
    /\ sent \in 0..MaxItems
    /\ body \in Seq(Items) /\ Len(body) <= sent
    /\ seen \in Seq(Items) /\ Len(seen) <= sent
    /\ pending \in Seq(Chunks) /\ (pending = <<>> <=> pc \notin {"send", "fail"})
    /\ channel \in Seq(Chunks) /\ Len(channel) <= Cap
    /\ closed \in BOOLEAN /\ (closed => pc = "done")
    /\ consumer \in {"reading", "gone", "ended"}
    /\ got \in Seq(Chunks)

Init ==
    /\ provider \in Providers
    /\ pc = "request"
    /\ open = FALSE
    /\ sent = 0
    /\ body = <<>>
    /\ seen = <<>>
    /\ pending = <<>>
    /\ channel = <<>>
    /\ closed = FALSE
    /\ consumer = "reading"
    /\ got = <<>>

-----------------------------------------------------------------------------
(* ChatStream *)

\* Anthropic and openai want status 200, openrouter one below 400.
Accepted(status) == status = "200" \/ (provider = "openrouter" /\ status = "below 400")

\* The request cannot be built, sent, or is answered by another status; or the
\* goroutine starts.
Request(status) ==
    /\ pc = "request"
    /\ open' = Accepted(status)
    /\ pc' = IF Accepted(status) THEN "scan" ELSE "refused"
    /\ UNCHANGED <<provider, sent, body, seen, pending, channel, closed, consumer, got>>

\* Mutated: the loop goes on after an event that does not decode.
Continue_AfterBad(item) ==
    pc' = IF item.kind \in Final \ {"bad"}
          THEN IF ChunksOf(item) = <<>> THEN "return" ELSE "fail"
          ELSE IF ChunksOf(item) = <<>> THEN "scan" ELSE "send"

\* A last item is followed by its error chunk, if it has one, and the return.
Continue(item) ==
    pc' = IF item.kind \in Final
          THEN IF ChunksOf(item) = <<>> THEN "return" ELSE "fail"
          ELSE IF ChunksOf(item) = <<>> THEN "scan" ELSE "send"

\* scanner.Scan returned, and the event was decoded.
Scan ==
    /\ pc = "scan"
    /\ body /= <<>>
    /\ body' = Tail(body)
    /\ seen' = Append(seen, Head(body))
    /\ pending' = ChunksOf(Head(body))
    /\ Continue(Head(body))
    /\ UNCHANGED <<provider, open, sent, channel, closed, consumer, got>>

\* Mutated: a full buffer drops its oldest chunk instead of blocking.
Send_DropsOldest ==
    /\ pc \in {"send", "fail"}
    /\ channel' = Append(IF Len(channel) < Cap THEN channel ELSE Tail(channel), Head(pending))
    /\ pending' = Tail(pending)
    /\ pc' = IF Tail(pending) /= <<>> THEN pc ELSE IF pc = "send" THEN "scan" ELSE "return"
    /\ UNCHANGED <<provider, open, sent, body, seen, closed, consumer, got>>

\* ch <- chunk: it blocks while the buffer is full, whatever the context does.
Send ==
    /\ pc \in {"send", "fail"}
    /\ Len(channel) < Cap
    /\ channel' = Append(channel, Head(pending))
    /\ pending' = Tail(pending)
    /\ pc' = IF Tail(pending) /= <<>> THEN pc ELSE IF pc = "send" THEN "scan" ELSE "return"
    /\ UNCHANGED <<provider, open, sent, body, seen, closed, consumer, got>>

\* Mutated: the channel is closed while its last chunk is still to be sent.
Close_Early ==
    /\ pc \in {"fail", "return"}
    /\ open' = FALSE
    /\ closed' = TRUE
    /\ pc' = IF pc = "return" THEN "done" ELSE pc
    /\ UNCHANGED <<provider, sent, body, seen, pending, channel, consumer, got>>

\* The deferred resp.Body.Close and close(ch).
Close ==
    /\ pc = "return"
    /\ open' = FALSE
    /\ closed' = TRUE
    /\ pc' = "done"
    /\ UNCHANGED <<provider, sent, body, seen, pending, channel, consumer, got>>

-----------------------------------------------------------------------------
(* The server, the connection and the caller *)

Arrives(kind) ==
    /\ open
    /\ sent < MaxItems
    /\ sent' = sent + 1
    /\ body' = Append(body, [kind |-> kind, n |-> sent + 1])
    /\ UNCHANGED <<provider, goroutine, channel, consumer, got>>

\* The bound leaves room for the end of the body.
ServerSends(kind) == sent < MaxItems - 2 /\ Arrives(kind) /\ UNCHANGED open

ServerEnds == Arrives("eof") /\ open' = FALSE

\* Mutated: the client has no timeout, and the server need not end.
Break_Never == FALSE /\ UNCHANGED vars

\* The connection is lost, the context ends, or the client's timeout of 120 s
\* passes, which covers the body: what was not read yet may be lost, and the
\* line that was cut is returned like any other.
Break ==
    /\ open
    /\ open' = FALSE
    /\ \E kept \in 0..Len(body), cut \in {<<>>, <<"skip">>, <<"bad">>} :
         LET ends == cut \o <<"fault">>
         IN  /\ body' = SubSeq(body, 1, kept) \o
                          [i \in 1..Len(ends) |-> [kind |-> ends[i], n |-> sent + i]]
             /\ sent' = sent + Len(ends)
    /\ UNCHANGED <<provider, goroutine, channel, consumer, got>>

\* A line longer than the buffer of bufio.Scanner: it cannot go on.
LongLine == sent < MaxItems - 2 /\ Arrives("fault") /\ UNCHANGED open

Receive ==
    /\ consumer = "reading"
    /\ channel /= <<>>
    /\ channel' = Tail(channel)
    /\ got' = Append(got, Head(channel))
    /\ UNCHANGED <<provider, goroutine, open, sent, body, consumer>>

SeeClosed ==
    /\ consumer = "reading"
    /\ closed
    /\ channel = <<>>
    /\ consumer' = "ended"
    /\ UNCHANGED <<provider, goroutine, open, sent, body, channel, got>>

\* The caller stops reading.
Leave ==
    /\ consumer = "reading"
    /\ pc /= "request"
    /\ consumer' = "gone"
    /\ UNCHANGED <<provider, goroutine, open, sent, body, channel, got>>

Run == Scan \/ Send \/ Close

Next ==
    \/ \E status \in {"200", "below 400", "failed"} : Request(status)
    \/ Run
    \/ \E kind \in Sendable \cup {"done", "bad"} : ServerSends(kind)
    \/ ServerEnds \/ Break \/ LongLine
    \/ Receive \/ SeeClosed \/ Leave

Spec == Init /\ [][Next]_vars

(***************************************************************************)
(* The goroutine runs, a caller that reads goes on reading, and the body   *)
(* ends by itself or by the client's timeout.                              *)
(***************************************************************************)
Fairness ==
    /\ WF_vars(Run)
    /\ WF_vars(Receive) /\ WF_vars(SeeClosed)
    /\ WF_vars(Break)

FairSpec == Spec /\ Fairness

-----------------------------------------------------------------------------
Ends == {i \in 1..Len(seen) : seen[i].kind \in Final}

\* The chunks of the items up to the first last one.
Transcript ==
    LET read == IF Ends = {} THEN Len(seen) ELSE Min(Ends)
    IN  FlattenSeq([i \in 1..read |-> ChunksOf(seen[i])])

\* Through the buffer and across blocked sends, the caller receives every chunk
\* of every event that was read, in order and once, and nothing after the end
\* marker or an error.
StreamIsTranscript == got \o channel \o pending = Transcript

\* A stream that was cut short is told from a complete one: a caller that saw
\* the channel close without an error has received all the server sent, up to
\* its end marker or its own end of the body.  openrouter gives no such promise.
CutIsReported ==
    (consumer = "ended" /\ provider /= "openrouter"
                        /\ \A i \in 1..Len(got) : got[i].kind /= "error") =>
        /\ \E i \in Ends : seen[i].kind \in {"done", "eof"}
        /\ \A i \in 1..Len(seen) : seen[i].n = i

\* A caller that reads is released, even when the server hangs.
ReaderIsReleased == (pc = "scan" /\ consumer = "reading") ~> consumer /= "reading"

\* After an error the caller may stop reading: the goroutine ends all the same.
ErrorFreesGoroutine == (\E i \in 1..Len(got) : got[i].kind = "error") ~> closed
=============================================================================
