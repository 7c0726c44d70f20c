--------------------------- MODULE MCTaskPipeline ---------------------------
(* TaskPipeline on small instances. *)
EXTENDS TaskPipeline
=============================================================================
