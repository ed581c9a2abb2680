--------------------------- MODULE MCAuthorCommand ---------------------------
(* AuthorCommand for TLC: two runs of the command over two usable            *)
(* campaigns, one that is not path-safe, and two outputs. Two processes are  *)
(* enough here: CommandInvariant, from which the safety properties follow,   *)
(* is proved for any number of them in AuthorCommand_proofs.                 *)
EXTENDS AuthorCommand

CONSTANTS p1, p2, c1, c2, unsafe, o1, o2

CampaignValue == {c1, c2, unsafe}
PathSafeCampaignValue == {c1, c2}

(* TLC evaluates what a constant is replaced by at every use, but a         *)
(* definition like those above only once.                                  *)
MCCampaign == CampaignValue
MCPathSafeCampaign == PathSafeCampaignValue
=============================================================================
