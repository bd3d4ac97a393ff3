---------------------------- MODULE MCCorePipeline ----------------------------
(* The pipeline on separate cores with the constants of the runs. *)
EXTENDS CorePipeline, MCPipeline

CONSTANT Spread    \* TRUE: the real hash; FALSE: every id in the last bucket

HashOfIds == [id \in EventId |-> IF Spread THEN RealHash[id] ELSE BUCKETS - 1]
===============================================================================
