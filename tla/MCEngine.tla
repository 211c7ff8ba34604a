------------------------------ MODULE MCEngine ------------------------------
(* Request lengths for the runs of EngineInstance: short and long prompts  *)
(* and responses, so that chunks, block ends and completions fall apart.   *)
EXTENDS EngineInstance

MCPromptLengths == <<1, 1, 3>>
MCTargetLengths == <<3, 4, 2>>

=============================================================================
