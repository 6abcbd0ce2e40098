------------------------------- MODULE MCMaker -------------------------------
(* Small instances of Maker for TLC. *)
EXTENDS Maker

MCFrames == Writers \X (1 .. MaxCalls)
=============================================================================
