---------------------------- MODULE MCMcpToolCalls ----------------------------
(* A small instance of McpToolCalls for TLC: two calls at a time for one   *)
(* operation, and a binding under which its flows cannot be resumed.       *)
EXTENDS McpToolCalls
=============================================================================
