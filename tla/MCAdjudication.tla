---------------------------- MODULE MCAdjudication ----------------------------
(* One case under both conditions, and a second sample of one condition   *)
(* that has nothing to judge and may not be completed.  The reference has  *)
(* a critical claim, an ordinary one and an activation item; a candidate   *)
(* asserts a critical contract.                                            *)
EXTENDS Adjudication, TLC

CONSTANTS luna, luna2, terra, t1, t2

ConditionOfValue == [s \in {luna, luna2, terra} |-> IF s # terra THEN "LUNA_MAX" ELSE "TERRA_XHIGH"]

KindValue == [must |-> "CLAIM", may |-> "CLAIM", starts |-> "ACTIVATION", vital |-> "CONTRACT"]

ReferenceValue ==
    [s \in {luna, luna2, terra} |->
        IF s = luna2 THEN {}
        ELSE {"must", "may", "starts"}]
AssertionValue == [s \in {luna, luna2, terra} |-> IF s = luna2 THEN {} ELSE {"vital"}]

CollectionsValue ==
    LET all(b) == [s \in Scheduled |-> b]
    IN {[completed |-> all(TRUE), lifecycle |-> all(TRUE), distinct |-> all(TRUE)],
        [completed |-> [all(TRUE) EXCEPT ![luna2] = FALSE], lifecycle |-> all(TRUE),
         distinct |-> all(TRUE)]}

(* A reviewer accepts everything; or asks for adjudication of a critical   *)
(* claim of one condition and rejects a critical assertion and an ordinary *)
(* claim of the other.                                                     *)
JudgmentsValue ==
    {[k \in Target |-> "ACCEPT"],
     [k \in Target |-> IF k.sample = luna /\ k.item = "must" THEN "NEEDS_ADJUDICATION"
                       ELSE IF k.sample = terra /\ k.item \in {"vital", "may"} THEN "REJECT"
                       ELSE "ACCEPT"]}

(* A resolution accepts everything, or all but what is critical, or all    *)
(* but a critical assertion, which it leaves open.                         *)
DecisionsValue ==
    {[k \in Target |-> IF k.item \in said[1] THEN said[2] ELSE "ACCEPT"] :
        said \in {<<{}, "ACCEPT">>, <<{"must", "vital"}, "REJECT">>,
                  <<{"vital"}, "UNRESOLVED">>}}

Symmetry == Permutations({t1, t2})

(* TLC evaluates what a constant is replaced by at every use, but a         *)
(* definition like those above only once.                                  *)
MCConditionOf == ConditionOfValue
MCKind == KindValue
MCPosition == [i \in DOMAIN KindValue |-> 0]
MCReference == ReferenceValue
MCAssertion == AssertionValue
MCCollections == CollectionsValue
MCJudgments == JudgmentsValue
MCDecisions == DecisionsValue
=============================================================================
