----------------------------- MODULE MCPipeline -----------------------------
(* One instance serving three calls, with a vstd.vir of either kind.       *)
EXTENDS Pipeline
=============================================================================
