---------------------------- MODULE MCProcTable ----------------------------
(* ProcTable on small instances. *)
EXTENDS ProcTable
=============================================================================
