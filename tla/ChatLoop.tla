------------------------------ MODULE ChatLoop ------------------------------
(***************************************************************************)
(* internal/ai: a conversation held with Chat.  The caller asks a provider *)
(* from the registry, appends the answer and the results of the tools it   *)
(* called to its messages, and asks again, possibly another provider.      *)
(* Each provider translates the messages to its API and the answer back.   *)
(* ProviderStream models ChatStream, which sends the same request.         *)
(*                                                                         *)
(* A text is a sequence of the pieces it was put together from, <<>> if it *)
(* is empty; a message is ai.Message: [role, text, link, calls], where link *)
(* is the id of the call a tool message answers, 0 if none.  Of a call there *)
(* is only its id, which no API gives twice: that much is assumed of them.  *)
(* ollama delegates to openai and is the same here.                        *)
(***************************************************************************)
EXTENDS ProviderRegistry, SequencesExt

CONSTANTS
    Openings,       \* how the conversation begins: sequences of messages
    MaxMessages,    \* bound on the messages of the conversation
    MaxBlocks       \* bound on the pieces of text and calls of an answer

\* A piece of a text is not empty.
Piece == STRING \ {""}

ASSUME ChatAssumption ==
    /\ Openings \subseteq Seq([role : {"system", "user", "assistant"}, text : Seq(Piece),
                              link : {0}, calls : {<<>>}])
    /\ MaxMessages \in Nat /\ MaxBlocks \in Nat

VARIABLES
    system,     \* ChatOptions.SystemMsg, a text
    messages,   \* the caller's messages
    at,         \* where the caller is
    via,        \* the provider type that was asked last
    wire,       \* the request it was sent
    reply,      \* what its API answered
    response,   \* what Chat returned
    made        \* history: who made each call of the answers returned, by id

chatVars == <<system, messages, at, via, wire, reply, response, made>>
conversationVars == <<registryVars, chatVars>>

Message(role, text, link, calls) ==
    [role |-> role, text |-> text, link |-> link, calls |-> calls]

ChatInit ==
    /\ RegistryInit
    /\ system \in {<<>>, <<"option">>}
    /\ messages \in Openings
    /\ at = "turn"
    /\ via = "none" /\ wire = Nothing /\ reply = Nothing /\ response = Nothing
    /\ made = <<>>

-----------------------------------------------------------------------------
(* Requests *)

\* Mutated: a tool result loses its link.
convertMessage_NoLink(m) ==
    IF m.role = "tool" THEN Message("user", m.text, 0, <<>>) ELSE m

\* A tool result is a block of a user message of anthropic.
convertMessage(m) ==
    IF m.role = "tool" THEN Message("user", m.text, m.link, <<>>) ELSE m

IsSystem(m) == m.role = "system"

GivesSystem(m) == IsSystem(m) /\ m.text /= <<>>

\* The system text of a conversation: that of the first message that has one.
FirstSystem(ms) ==
    LET i == SelectInSeq(ms, GivesSystem) IN IF i = 0 THEN <<>> ELSE ms[i].text

\* Mutated: every system message overwrites the system text.
WireAnthropic_Overwrites(ms) ==
    LET given == SelectLastInSeq(ms, GivesSystem)
    IN  [system |-> IF given = 0 THEN system ELSE ms[given].text,
         messages |-> FlattenSeq([i \in DOMAIN ms |->
                          IF IsSystem(ms[i]) THEN <<>> ELSE <<convertMessage(ms[i])>>])]

\* One system text: the option or, if that is empty, the one of the conversation.
WireAnthropic(ms) ==
    [system |-> IF system = <<>> THEN FirstSystem(ms) ELSE system,
     messages |-> FlattenSeq([i \in DOMAIN ms |->
                      IF IsSystem(ms[i]) THEN <<>> ELSE <<convertMessage(ms[i])>>])]

Prepended(ms) ==
    IF system = <<>> THEN ms ELSE <<Message("system", system, 0, <<>>)>> \o ms

WireOpenAI(ms) == [system |-> <<>>, messages |-> Prepended(ms)]

\* ai.Message is encoded under its own names, toolCallId and toolCalls, which the
\* API does not know.
WireOpenRouter(ms) ==
    [system |-> <<>>,
     messages |-> [i \in DOMAIN Prepended(ms) |->
                      [Prepended(ms)[i] EXCEPT !.link = 0, !.calls = <<>>]]]

buildRequest(type, ms) ==
    IF type = "anthropic" THEN WireAnthropic(ms)
    ELSE IF type = "openrouter" THEN WireOpenRouter(ms)
    ELSE WireOpenAI(ms)

Ask ==
    /\ at = "turn" \/ (at = "answered" /\ response.error)
    /\ Len(messages) < MaxMessages
    /\ \E m \in Obtainable :
           /\ via' = m.type
           /\ wire' = buildRequest(m.type, messages)
    /\ at' = "asked"
    /\ response' = Nothing
    /\ UNCHANGED <<registryVars, system, messages, reply, made>>

-----------------------------------------------------------------------------
(* Answers *)

\* A status other than 200 or, for openrouter, of 400 and more is an error.
StatusOK(status) == status = "200" \/ (via = "openrouter" /\ status = "below 400")

\* Why an answer ended, in the words of an API; the last one has no common word.
StopReasons(type) ==
    IF type = "anthropic" THEN {"end_turn", "tool_use", "max_tokens", "refusal"}
    ELSE {"stop", "tool_calls", "length", "content_filter"}

\* The API answers: pieces of text and calls in some order, and why it ended,
\* which need not agree with them.
\* Those of the chat-completions API come as choices, of which there may be none.
ApiReplies(status, blocks, stop, choices) ==
    /\ at = "asked"
    /\ via = "anthropic" => choices = 1
    /\ choices = 0 \/ ~StatusOK(status) => blocks = <<>>
    /\ stop \in StopReasons(via)
    /\ LET id(i) == Len(made) + Cardinality({j \in 1..i : blocks[j] /= "text"})
       IN  reply' =
             [status |-> status, choices |-> choices, stop |-> stop,
              blocks |-> [i \in DOMAIN blocks |->
                 IF blocks[i] = "text" THEN [kind |-> "text", text |-> "said"]
                 ELSE [kind |-> "call", call |-> id(i)]]]
    /\ at' = "replied"
    /\ UNCHANGED <<registryVars, system, messages, via, wire, response, made>>

CommonReasons == [end_turn |-> "stop", tool_use |-> "tool_calls", max_tokens |-> "length"]

\* An anthropic reason in the common word, an unknown one as it came.
mapStopReason(r) == IF r \in DOMAIN CommonReasons THEN CommonReasons[r] ELSE r

TextOf(blocks) ==
    FlattenSeq([i \in DOMAIN blocks |->
        IF blocks[i].kind = "text" THEN <<blocks[i].text>> ELSE <<>>])

CallsOf(blocks) ==
    FlattenSeq([i \in DOMAIN blocks |->
        IF blocks[i].kind = "call" THEN <<blocks[i].call>> ELSE <<>>])

Failure == [error |-> TRUE]

\* The empty answer of openai to no choices is a success, openrouter's an error;
\* openrouter looks for toolCalls and finds none.
convertResponse ==
    IF ~StatusOK(reply.status) \/ (reply.choices = 0 /\ via = "openrouter") THEN Failure
    ELSE IF reply.choices = 0
    THEN [error |-> FALSE, text |-> <<>>, calls |-> <<>>, finish |-> ""]
    ELSE [error |-> FALSE, text |-> TextOf(reply.blocks),
          calls |-> IF via = "openrouter" THEN <<>> ELSE CallsOf(reply.blocks),
          finish |-> IF via = "anthropic" THEN mapStopReason(reply.stop) ELSE reply.stop]

ChatReturns ==
    /\ at = "replied"
    /\ response' = convertResponse
    /\ made' = IF convertResponse.error THEN made
               ELSE made \o [k \in DOMAIN CallsOf(reply.blocks) |-> via]
    /\ at' = "answered"
    /\ reply' = Nothing
    /\ UNCHANGED <<registryVars, system, messages, via, wire>>

\* The request fails, its context ends, or the body does not decode.
ChatFails ==
    /\ at \in {"asked", "replied"}
    /\ response' = Failure
    /\ at' = "answered"
    /\ reply' = Nothing
    /\ UNCHANGED <<registryVars, system, messages, via, wire, made>>

-----------------------------------------------------------------------------
(* The caller *)

\* The call is over: the caller appends the answer, and a result for each call or its next question.
TakeTurn ==
    /\ at = "answered" /\ ~response.error
    /\ messages' = messages
           \o <<Message("assistant", response.text, 0, response.calls)>>
           \o IF response.calls = <<>> THEN <<Message("user", <<"more">>, 0, <<>>)>>
              ELSE [i \in DOMAIN response.calls |->
                       Message("tool", <<"result">>, response.calls[i], <<>>)]
    /\ at' = "turn"
    /\ via' = "none" /\ wire' = Nothing /\ response' = Nothing
    /\ UNCHANGED <<registryVars, system, reply, made>>

Answers == UNION {[1..n -> {"text", "call"}] : n \in 0..MaxBlocks}

ChatNext ==
    \/ RegistryNext /\ UNCHANGED chatVars
    \/ Ask \/ ChatReturns \/ ChatFails \/ TakeTurn
    \/ \E status \in {"200", "below 400", "failed"}, blocks \in Answers,
          stop \in StopReasons(via), choices \in 0..1 :
              ApiReplies(status, blocks, stop, choices)

ChatSpec == ChatInit /\ [][ChatNext]_conversationVars

-----------------------------------------------------------------------------
ChatTypeOK ==
    /\ DOMAIN providers \subseteq Names /\ Values(providers) \subseteq Models
    /\ DOMAIN defaults \subseteq Types /\ Values(defaults) \subseteq Models
    /\ at \in {"turn", "asked", "replied", "answered"}
    /\ via \in Types \cup {"none"}
    /\ made \in Seq(Types)
    /\ \A i \in DOMAIN messages :
           /\ (messages[i].role = "tool") = (messages[i].link /= 0)
           /\ messages[i].calls /= <<>> => messages[i].role = "assistant"

\* A caller that gives its system text in one way, as the option or in messages,
\* is understood alike by every provider, whether its API has a field for that
\* text or takes it as a message: the text that comes first is the caller's, and
\* a message whose text is empty does not hide the one behind it.
SystemGoverns ==
    at = "asked" /\ (system = <<>> \/ FirstSystem(messages) = <<>>) =>
        (IF wire.system /= <<>> THEN wire.system ELSE FirstSystem(wire.messages))
            = IF system /= <<>> THEN system ELSE FirstSystem(messages)

\* A conversation may change its provider: a request to anthropic or openai holds
\* every call that either of them ever made in an answer the caller got, in order
\* and once, and right behind the calls of an answer the result of each, under
\* its id.
CallsAreLinked ==
    at = "asked" /\ via /= "openrouter" =>
        LET ms == wire.messages
        IN  /\ FlattenSeq([i \in DOMAIN ms |-> ms[i].calls])
                   = FlattenSeq([n \in DOMAIN made |->
                         IF made[n] = "openrouter" THEN <<>> ELSE <<n>>])
            /\ \A i \in DOMAIN ms : \A k \in DOMAIN ms[i].calls :
                   i + k \in DOMAIN ms /\ ms[i + k].link = ms[i].calls[k]
=============================================================================
