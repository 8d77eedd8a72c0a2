------------------------- MODULE MCExecutionPipeline -------------------------
(* Two-step plans over two capabilities, with and without the word         *)
(* "failed" in a step id or in an adapter's text.                          *)
EXTENDS ExecutionPipeline

MCIdBytes == {12}
MCSummaryBytes == {53}
=============================================================================
