------------------------------ MODULE MCP2PLink ------------------------------
(* The runs of P2PLink need no definitions beyond their constants. *)
EXTENDS P2PLink

===============================================================================
