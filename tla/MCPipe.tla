------------------------------- MODULE MCPipe -------------------------------
(* Pipe for TLC: three processes, a ring of two bytes, writes that fit, that  *)
(* fill the pipe, and that are too long to be atomic.                         *)
EXTENDS Pipe
=============================================================================
