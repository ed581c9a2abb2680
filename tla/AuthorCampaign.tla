--------------------------- MODULE AuthorCampaign ---------------------------
(***************************************************************************)
(* What the one-call canary and the viability review of it have in common:  *)
(* the policies of src/qualification/author-operability.ts, its outcomes    *)
(* and decisions, and the contents of collection.json, which the canary     *)
(* writes and the review reads.                                             *)
(***************************************************************************)
EXTENDS Naturals

Policies == {"HISTORICAL_OPERABILITY", "LUNA_VIABILITY", "TERRA_CONTRAST"}

Outcomes == {"COMPLETED", "NOT_COMPLETED", "INSUFFICIENT", "INVALIDATED"}

\* viabilityDecision or comparisonConclusion, of which at most one is not
\* null.  NOT_PASSED is NOT_VIABLE_FOR_AUTHOR or
\* TERRA_DOES_NOT_PASS_CURRENT_INSTRUMENT, PASSED is VIABLE_CANDIDATE or
\* TERRA_PASSES_CURRENT_INSTRUMENT, and NONE is null.
Decisions == {"NONE", "INSUFFICIENT", "PENDING", "NOT_PASSED", "SHARED", "PASSED"}

Result(state, n, o, d) == [state |-> state, invocations |-> n, outcome |-> o, decision |-> d]
Blank(state) == Result(state, 0, "INSUFFICIENT", "NONE")

\* The collections a campaign of policy p can have, whole or not: one of the
\* try block, or the fallback of the catch block, which is undecided.
Collections(p) ==
  {Blank("ABSENT"), Blank("PARTIAL")} \cup
  IF p = "HISTORICAL_OPERABILITY"
  THEN {Result("WRITTEN", 1, o, "NONE") : o \in Outcomes \ {"INVALIDATED"}}
         \cup {Result("WRITTEN", 0, "INVALIDATED", "NONE")}
  ELSE {Result("WRITTEN", 1, o, "INSUFFICIENT") : o \in Outcomes \ {"INVALIDATED"}}
         \cup {Result("WRITTEN", 0, "INVALIDATED", "INSUFFICIENT")}
         \cup {Result("WRITTEN", 1, o, "NOT_PASSED") : o \in Outcomes \ {"INVALIDATED"}}
         \cup {Result("WRITTEN", 1, "COMPLETED", "PENDING")}
         \cup {Result("WRITTEN", 1, "COMPLETED", "SHARED") : x \in {p} \cap {"TERRA_CONTRAST"}}
=============================================================================
