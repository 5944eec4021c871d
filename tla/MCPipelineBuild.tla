--------------------------- MODULE MCPipelineBuild ---------------------------
(* Small instances of PipelineBuild.  Pipelines share nothing, so one or     *)
(* two are enough; two workers already overlap in every pair of steps.       *)
EXTENDS PipelineBuild, TLC

WorkerSymmetry == Permutations(Workers)

EveryOperation == {"create", "update", "rebuild", "delete"}
WithoutDelete  == {"create", "update", "rebuild"}
===============================================================================
