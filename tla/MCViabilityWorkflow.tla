------------------------- MODULE MCViabilityWorkflow -------------------------
(* ViabilityWorkflow for TLC: a critical criterion and a minor one, reviewers *)
(* that agree, differ or cannot decide, and a resolver that covers what was  *)
(* asked or less, and decides or does not.                                   *)
EXTENDS ViabilityWorkflow, TLC

CONSTANTS c1, c2, v1, v2, crit, minor

ReviewsValue ==
  {(crit :> "ACCEPT" @@ minor :> "ACCEPT"), (crit :> "NEEDS_ADJUDICATION" @@ minor :> "REJECT")}

ResolutionsValue ==
  {crit :> "ACCEPT", crit :> "NEEDS_ADJUDICATION", (crit :> "REJECT" @@ minor :> "ACCEPT")}

MCSymmetry == Permutations(Clerk) \cup Permutations(Version)

(* TLC evaluates what a constant is replaced by at every use, but a         *)
(* definition like those above only once.                                  *)
MCReviews == ReviewsValue
MCResolutions == ResolutionsValue
=============================================================================
