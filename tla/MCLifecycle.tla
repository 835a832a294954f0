---------------------------- MODULE MCLifecycle -----------------------------
(***************************************************************************)
(* Requests that use the pool in each order the code has: the probe, a     *)
(* lookup over three queries, a query before the run and one after it.     *)
(***************************************************************************)
EXTENDS Lifecycle

MCKinds ==
    {[route |-> "ready", tool |-> "none"], [route |-> "skill", tool |-> "DOCUMENT_SEARCH"],
     [route |-> "tool", tool |-> "MCP"], [route |-> "tool", tool |-> "SQL"],
     [route |-> "tool", tool |-> "HTTP"]}
=============================================================================
