------------------------------- MODULE Tools --------------------------------
(***************************************************************************)
(* The rows of the tool table as internal/server tells them apart, and     *)
(* which classes of error each executor returns.  SkillRuntime relies on   *)
(* this table; ToolCallsProofs shows that the executors keep to it.        *)
(***************************************************************************)

Registered == {"HTTP", "SQL", "DOCUMENT_SEARCH", "MCP", "SCRIPT"}

\* A config that lacks a required field decodes all the same.
Configs == {"complete", "incomplete", "undecodable"}
ToolRows == [type : Registered \cup {"CUSTOM"}, config : Configs]
NoTool == [type |-> "none", config |-> "none"]

\* What Execute can return: every executor can fail in a way that may pass,
\* only SQL wraps its missing fields in a PermanentError, and only MCP returns
\* a Result that carries an Error.
ExecutorReturns(t) ==
    IF t.config = "incomplete"
    THEN IF t.type = "SQL" THEN {"permanent"} ELSE {"transient"}
    ELSE {"ok", "transient"} \cup IF t.type = "MCP" THEN {"soft"} ELSE {}
=============================================================================
