--------------------------- MODULE MCEvaluationAuthor ---------------------------
(* Contexts and candidates: a sound one of each, and what may be wrong     *)
(* with it, one thing at a time and two together.                          *)
EXTENDS EvaluationAuthor, TLC

CONSTANTS claim, other, contract, evidence, family, gap, r1, harm

Needs == {[name |-> r1, type |-> "OUTCOME", mandatory |-> TRUE, critical |-> FALSE]}
Missing(dependency) == {[fact |-> harm, dependency |-> dependency]}

ContextValue ==
    {[requirements |-> Needs, missing |-> {}],
     [requirements |-> Needs, missing |-> Missing(r1)],
     [requirements |-> {}, missing |-> Missing(None)],
     [requirements |-> {}, missing |-> Missing(r1)]}

Sound ==
    [shaped |-> TRUE,
     claims |-> {[id |-> claim, requirement |-> r1, type |-> "OUTCOME", evidence |-> {evidence}]},
     contracts |-> {[id |-> contract, claims |-> {claim}, evidence |-> {evidence}]},
     families |-> {[id |-> family, contracts |-> {contract}]},
     evidence |-> {[id |-> evidence, claims |-> {claim}, contracts |-> {contract},
                    mandatory |-> TRUE,
                    paths |-> {[observations |-> {"seen"}, assessments |-> {{"seen"}}]}]},
     unresolved |-> {}, empty |-> {}]

Gap(id, section) == [id |-> id, field |-> section, blocking |-> TRUE, claims |-> {}]
GapOf(claims) == [Gap(gap, "untestedRisks") EXCEPT !.claims = claims]

(* One change of a candidate.                                              *)
Variants(c) ==
    {[c EXCEPT !.shaped = FALSE],
     [c EXCEPT !.empty = {"untestedRisks"}],
     [c EXCEPT !.unresolved = {Gap(gap, "untestedRisks")}],
     [c EXCEPT !.unresolved = {Gap(gap, harm)}],
     [c EXCEPT !.unresolved = {Gap(BlockerId(harm), harm)}],
     [c EXCEPT !.unresolved = {GapOf({claim, RequirementId(r1)})}],
     [c EXCEPT !.families = {[id |-> RequirementId(r1), contracts |-> {contract}]}],
     [c EXCEPT !.families = {[id |-> claim, contracts |-> {contract}]}],
     [c EXCEPT !.families = {[id |-> family, contracts |-> {other}]}],
     [c EXCEPT !.claims = {}],
     [c EXCEPT !.claims = {[x EXCEPT !.requirement = None] : x \in @}],
     [c EXCEPT !.claims = {[x EXCEPT !.type = "STABILITY"] : x \in @}],
     [c EXCEPT !.claims = {[x EXCEPT !.evidence = {}] : x \in @}],
     [c EXCEPT !.claims = @ \cup {[x EXCEPT !.id = other] : x \in @}],
     [c EXCEPT !.contracts = {[k EXCEPT !.claims = {}] : k \in @}],
     [c EXCEPT !.contracts = {[k EXCEPT !.evidence = {}] : k \in @}],
     [c EXCEPT !.evidence = {[e EXCEPT !.contracts = {}] : e \in @}],
     [c EXCEPT !.evidence = {[e EXCEPT !.claims = {}] : e \in @}],
     [c EXCEPT !.evidence = {[e EXCEPT !.mandatory = FALSE] : e \in @}],
     [c EXCEPT !.evidence = {[e EXCEPT !.paths = {[observations |-> {"seen"},
                                                   assessments |-> {{}}]}] : e \in @}],
     [c EXCEPT !.evidence = {}]}

(* Two things wrong: with the evidence, and with anything else.            *)
Weakened ==
    {[Sound EXCEPT !.evidence = {}],
     [Sound EXCEPT !.unresolved = {Gap(gap, "evidencePlan")}],
     [Sound EXCEPT !.contracts = {[k EXCEPT !.evidence = {}] : k \in @}]}

CandidateValue == {Sound} \cup Variants(Sound) \cup UNION {Variants(c) : c \in Weakened}

Historic ==
    [shaped |-> TRUE,
     claims |-> {[id |-> claim, mandatory |-> TRUE]},
     contracts |-> {[id |-> contract, claims |-> {claim}, evidence |-> {"text"}]},
     families |-> {},
     evidence |-> {[id |-> evidence, claims |-> {claim}, contracts |-> {contract},
                    mandatory |-> TRUE, direct |-> TRUE]},
     unresolved |-> {}, empty |-> {}]

HistoricalValue ==
    {Historic, [Historic EXCEPT !.shaped = FALSE],
     [Historic EXCEPT !.evidence = {[e EXCEPT !.direct = FALSE] : e \in @}],
     [Historic EXCEPT !.evidence = {}, !.unresolved = {Gap(gap, "evidencePlan")}]}

(* The journal has nothing to do with what is asked and answered: a run    *)
(* that is observed has one context and gets no text, the others have any  *)
(* context and get any answer.  A run without a label has that one context *)
(* too.                                                                    *)
Asked == [requirements |-> Needs, missing |-> {}]
MCInit ==
    /\ Init
    /\ watched => context = Asked /\ protocol = 3 /\ answer = NoText /\ labelled
    /\ ~labelled => context = Asked
MCFairSpec == MCInit /\ [][Next]_vars /\ WF_vars(Author) /\ WF_vars(Settle)

(* TLC evaluates what a constant is replaced by at every use, but a         *)
(* definition like those above only once.                                  *)
MCContext == ContextValue
MCCandidate == CandidateValue
MCHistorical == HistoricalValue
=============================================================================
