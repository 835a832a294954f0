----------------------------- MODULE MCInvoker ------------------------------
(***************************************************************************)
(* Instances of Invoker: calls that share one ToolInvoker, as the type     *)
(* allows, and calls that each make their own, as executeTool does.        *)
(***************************************************************************)
EXTENDS Invoker

SharedInvoker == [c \in Calls |-> "shared"]
OwnInvoker == [c \in Calls |-> c]
=============================================================================
