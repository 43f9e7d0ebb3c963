---------------------------- MODULE MCMcpSession ----------------------------
(* McpSession for model checking. *)
EXTENDS McpSession
=============================================================================
