----------------------------- MODULE MCMatching -----------------------------
(* Small books and amounts: Scale and PPM are small so that every remainder of *)
(* a division occurs, and prices lie on both sides of Scale.                   *)
EXTENDS Matching

MCAmounts == 1 .. Limit
MCDepths == 1 .. 3
=============================================================================
