---------------------------- MODULE MCProviders ----------------------------
(***************************************************************************)
(* internal/ai: one call of ChatStream, or a conversation held with Chat.  *)
(* The two share nothing, so a behaviour is of one kind and leaves the     *)
(* variables of the other as they were.                                    *)
(***************************************************************************)
EXTENDS ProviderStream, ChatLoop

VARIABLE mode   \* "stream" or "chat"

M(role, text) == [role |-> role, text |-> text, link |-> 0, calls |-> <<>>]

\* Without a system message, and with two behind one that is empty.
MCOpenings ==
    {<<M("user", <<"question">>)>>,
     <<M("system", <<>>), M("system", <<"first">>),
       M("user", <<"question">>), M("system", <<"second">>)>>}

MCInit ==
    /\ Init /\ ChatInit
    /\ \/ mode = "stream" /\ system = <<>> /\ Len(messages) = 1
       \/ mode = "chat" /\ provider = "openai"

MCNext ==
    /\ UNCHANGED mode
    /\ \/ mode = "stream" /\ Next /\ UNCHANGED conversationVars
       \/ mode = "chat" /\ ChatNext /\ UNCHANGED vars

MCSpec == MCInit /\ [][MCNext]_<<mode, vars, conversationVars>> /\ Fairness

\* The type invariants of the stream and of the conversation.
TypesOK == TypeOK /\ ChatTypeOK
=============================================================================
