--------------------------- MODULE MCMcpSessions ---------------------------
(* A small instance of McpSessions. *)
EXTENDS McpSessions
=============================================================================
