----------------------------- MODULE MCPipeline -----------------------------
(* TLC instances of the pipelines of the shell. *)
EXTENDS Pipeline
=============================================================================
