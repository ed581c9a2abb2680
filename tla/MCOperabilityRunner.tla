------------------------- MODULE MCOperabilityRunner -------------------------
(* OperabilityRunner for TLC: three runners of one campaign, and a skill     *)
(* directory that is as it was frozen or otherwise.                          *)
EXTENDS OperabilityRunner, TLC

CONSTANTS r1, r2, r3, frozen, edited

MCSymmetry == Permutations(Runner)
=============================================================================
