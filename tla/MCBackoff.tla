----------------------------- MODULE MCBackoff -----------------------------
(* Backoff with small durations: a caller may set anything in -1 .. 15. *)
EXTENDS Backoff

MCDurations == -1 .. MaxDuration
=============================================================================
