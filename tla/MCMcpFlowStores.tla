--------------------------- MODULE MCMcpFlowStores ---------------------------
(* A small instance of McpFlowStores for TLC: two flow ids and two         *)
(* bindings over each of the four stores in turn.                          *)
EXTENDS McpFlowStores
=============================================================================
