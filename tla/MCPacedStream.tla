--------------------------- MODULE MCPacedStream ---------------------------
(* Three clients, of which one waits for room in the backlog; messages of  *)
(* two units that do not fit into the buffers as a whole.                  *)
EXTENDS PacedStream
=============================================================================
