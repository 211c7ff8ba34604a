----------------------------- MODULE MCSimulator -----------------------------
(* Request lengths for the runs of Simulator: mixed, and all the same.     *)
EXTENDS SimTelemetry

MCPromptLengths == <<1, 2>>
MCTargetLengths == <<3, 2, 3>>

SameLength == <<2>>

=============================================================================
