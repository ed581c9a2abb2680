------------------------------- MODULE Blueprint -------------------------------
(***************************************************************************)
(* Evaluation blueprints: what makes a candidate of the author model       *)
(* acceptable, how it is composed with the trusted authoring context, and  *)
(* how a composed blueprint is judged when it is read again.               *)
(*                                                                         *)
(* A digest of a value is the value: a fingerprint, a blueprint identifier *)
(* or a packet is equal to another exactly if what it was computed from    *)
(* is.  Texts that no rule looks at are left out.                          *)
(***************************************************************************)
CONSTANTS
    Id,    \* identifiers an author may choose
    None   \* no requirement, no dependency

(* The namespaces of the system: claim requirements, populations, blockers.*)
RequirementId(r) == <<"claim-requirement", r>>
BlockerId(f) == <<"authoring-context", f>>
Reserved(id) == id \notin Id
NamesOwn(ids) == \A i \in ids : ~Reserved(i)

(***************************************************************************)
(* The authoring context.  A missing fact concerns the decision or one     *)
(* requirement.                                                            *)
(***************************************************************************)
ContextValid(ctx) ==
    /\ \A r, s \in ctx.requirements : r.name = s.name => r = s
    /\ \A m \in ctx.missing :
          m.dependency # None => \E r \in ctx.requirements : r.name = m.dependency

(* One blocking requirement for each missing fact.                         *)
Blockers(ctx, claims) ==
    {[id |-> BlockerId(m.fact), field |-> m.fact, blocking |-> TRUE, origin |-> "SYSTEM",
      claims |-> IF m.dependency = None THEN {}
                 ELSE {c.id : c \in {d \in claims : d.requirement = m.dependency}}] :
        m \in ctx.missing}

(***************************************************************************)
(* The diagnostics of a candidate and of a composed blueprint.             *)
(***************************************************************************)
IdsOf(set) == {x.id : x \in set}

Entities(b) == b.claims \cup b.contracts \cup b.families \cup b.evidence \cup b.unresolved

(* A composed blueprint also holds the requirements of the context, whose  *)
(* identifiers are the system's.                                           *)
TrustedIds(b) ==
    IF "trusted" \in DOMAIN b THEN {RequirementId(r.name) : r \in b.trusted} ELSE {}

DuplicateId(b) ==
    \/ \E x, y \in Entities(b) : x # y /\ x.id = y.id
    \/ \E x \in Entities(b) : x.id \in TrustedIds(b)

BrokenReference(b) ==
    \/ \E x \in b.contracts \cup b.evidence \cup b.unresolved : ~ x.claims \subseteq IdsOf(b.claims)
    \/ \E x \in b.families \cup b.evidence : ~ x.contracts \subseteq IdsOf(b.contracts)
    \/ \E x \in b.claims \cup b.contracts : ~ x.evidence \subseteq IdsOf(b.evidence)

(* Claims and contracts name their evidence and are named by it; every     *)
(* contract of an evidence has every claim of it.                          *)
EvidenceLinkMismatch(b) ==
    \/ \E c \in b.claims, e \in b.evidence : (e.id \in c.evidence) # (c.id \in e.claims)
    \/ \E k \in b.contracts, e \in b.evidence : (e.id \in k.evidence) # (k.id \in e.contracts)
    \/ \E k \in b.contracts, e \in b.evidence :
          k.id \in e.contracts /\ ~ e.claims \subseteq k.claims

EvidenceEndpointMissing(b) == \E e \in b.evidence : e.claims = {} \/ e.contracts = {}

(* An assessment of a path uses observations of that path, and some.       *)
AssessmentUnfounded(b) ==
    \E e \in b.evidence : \E p \in e.paths : \E used \in p.assessments :
        used = {} \/ ~ used \subseteq p.observations

ClaimsFor(b, r) == {c \in b.claims : c.requirement = r.name}

TrustedClaimCardinality(b, ctx) ==
    \E r \in ctx.requirements : ~ \E c \in b.claims : ClaimsFor(b, r) = {c}
TrustedClaimTypeMismatch(b, ctx) ==
    \E r \in ctx.requirements : \E c \in ClaimsFor(b, r) : c.type # r.type

(* A mutant: only for what is critical.                                    *)
EvidenceIfCritical(b, ctx) ==
    \E r \in ctx.requirements : r.critical /\ \E c \in ClaimsFor(b, r) :
        c.evidence = {} \/ \E e \in b.evidence : e.id \in c.evidence /\ ~e.mandatory

(* What a decision needs is to be shown by evidence that is mandatory.     *)
RequiredEvidence(b, ctx) ==
    \E r \in ctx.requirements : \E c \in ClaimsFor(b, r) :
        /\ r.mandatory \/ r.critical
        /\ \/ c.evidence = {}
           \/ \E e \in b.evidence : e.id \in c.evidence /\ ~e.mandatory

Sections == {"claims", "contracts", "usageFamilies", "stressFamilies", "evidencePlan",
             "stoppingConditions", "untestedRisks"}

(* An empty section needs a blocking requirement that says so.  Of the     *)
(* sections that hold texts only, "empty" has those without one.           *)
EmptySections(b) ==
    b.empty \cup (IF b.claims = {} THEN {"claims"} ELSE {})
            \cup (IF b.contracts = {} THEN {"contracts"} ELSE {})
            \cup (IF b.evidence = {} THEN {"evidencePlan"} ELSE {})

IsBlocked(b, section) == \E u \in b.unresolved : u.blocking /\ u.field = section

RequiredSectionEmpty(b) == \E s \in EmptySections(b) : ~IsBlocked(b, s)

Diagnostics(b, ctx) ==
    LET found == [DUPLICATE_ID |-> DuplicateId(b),
                  BROKEN_REFERENCE |-> BrokenReference(b),
                  EVIDENCE_LINK_MISMATCH |-> EvidenceLinkMismatch(b),
                  EVIDENCE_ENDPOINT_MISSING |-> EvidenceEndpointMissing(b),
                  ASSESSMENT_OBSERVATION_MISSING |-> AssessmentUnfounded(b),
                  TRUSTED_CLAIM_CARDINALITY |-> TrustedClaimCardinality(b, ctx),
                  TRUSTED_CLAIM_TYPE_MISMATCH |-> TrustedClaimTypeMismatch(b, ctx),
                  REQUIRED_EVIDENCE |-> RequiredEvidence(b, ctx),
                  REQUIRED_SECTION_EMPTY |-> RequiredSectionEmpty(b)]
    IN {code \in DOMAIN found : found[code]}

(* The first two protocols have no trusted context: claims are mandatory   *)
(* by the author's word, and their contracts need direct evidence.         *)
DirectEvidenceMissing(b) ==
    \E k \in b.contracts :
        /\ \E c \in b.claims : c.id \in k.claims /\ c.mandatory
        /\ k.evidence # {}
        /\ ~ \E e \in b.evidence : e.mandatory /\ e.direct /\ k.id \in e.contracts
        /\ ~IsBlocked(b, "evidencePlan")

HistoricalDiagnostics(b) ==
    LET found == [DUPLICATE_ID |-> \E x, y \in Entities(b) : x # y /\ x.id = y.id,
                  BROKEN_REFERENCE |->
                     \/ \E x \in b.contracts \cup b.evidence : ~ x.claims \subseteq IdsOf(b.claims)
                     \/ \E x \in b.families \cup b.evidence :
                           ~ x.contracts \subseteq IdsOf(b.contracts),
                  MANDATORY_DIRECT_EVIDENCE_MISSING |-> DirectEvidenceMissing(b),
                  REQUIRED_SECTION_EMPTY |-> RequiredSectionEmpty(b)]
    IN {code \in DOMAIN found : found[code]}

(* Errors that make a candidate unusable: an identifier of the system's    *)
(* namespaces, a shape that the schema refuses, a reference to a           *)
(* requirement that the context does not have.                             *)
Usable(c, ctx) ==
    /\ \A x \in Entities(c) : ~Reserved(x.id)
    /\ c.shaped
    /\ \A x \in c.claims :
          x.requirement # None => \E r \in ctx.requirements : r.name = x.requirement

Lifecycle(diagnostics, unresolved) ==
    IF diagnostics # {} THEN "DRAFT"
    ELSE IF \E u \in unresolved : u.blocking THEN "BLOCKED" ELSE "READY"

(***************************************************************************)
(* Composition.                                                            *)
(***************************************************************************)
(* The flags of a claim are those of its requirement.                      *)
Flags(c, ctx) ==
    LET own == {r \in ctx.requirements : r.name = c.requirement}
    IN [mandatory |-> \E r \in own : r.mandatory, critical |-> \E r \in own : r.critical]

Compose(c, ctx) ==
    LET claims == {[id |-> x.id, requirement |-> x.requirement, type |-> x.type,
                    evidence |-> x.evidence, flags |-> Flags(x, ctx)] : x \in c.claims}
    IN [claims |-> claims, contracts |-> c.contracts, families |-> c.families,
        evidence |-> c.evidence, empty |-> c.empty,
        unresolved |-> {[id |-> u.id, field |-> u.field, blocking |-> u.blocking,
                         origin |-> "AUTHOR", claims |-> u.claims] : u \in c.unresolved}
                       \cup Blockers(ctx, claims),
        trusted |-> ctx.requirements, missing |-> ctx.missing]

(* The blueprint, with its identifier and the context's fingerprint.  It is *)
(* labelled if its campaign has a name and the snapshot's fingerprint is a *)
(* digest.                                                                 *)
Blueprint(content, state, ctx, packet, labelled) ==
    [content |-> content, state |-> state, context |-> ctx, packet |-> packet,
     labelled |-> labelled,
     id |-> [content |-> content, context |-> ctx, packet |-> packet]]

(***************************************************************************)
(* A composed blueprint that is read: everything derived is derived again. *)
(***************************************************************************)
ContextOf(content) == [requirements |-> content.trusted, missing |-> content.missing]

BlockersIntact(content) ==
    LET expected == Blockers(ContextOf(content), content.claims)
        system == {u \in content.unresolved : u.origin = "SYSTEM" \/ Reserved(u.id)}
    IN system = expected

ClaimsIntact(content) ==
    \A c \in content.claims :
        /\ c.requirement # None =>
              \E r \in content.trusted : r.name = c.requirement
        /\ c.flags = Flags(c, ContextOf(content))

(* The schema of a composed blueprint.  It refuses the system's identifiers *)
(* also where the schema of a candidate lets them pass: among the claims   *)
(* that an open question concerns.                                         *)
ComposedShape(b) ==
    /\ b.labelled
    /\ \A x \in b.content.claims : ~Reserved(x.id) /\ NamesOwn(x.evidence)
    /\ \A x \in b.content.evidence : ~Reserved(x.id) /\ NamesOwn(x.claims \cup x.contracts)
    /\ \A x \in b.content.unresolved : NamesOwn(x.claims)

BlueprintValid(b) ==
    LET ctx == ContextOf(b.content)
        diagnostics == Diagnostics(b.content, ctx)
    IN /\ ComposedShape(b)
       /\ ContextValid(ctx)
       /\ b.state = "DRAFT" \/ diagnostics = {}
       /\ b.state = Lifecycle(diagnostics, b.content.unresolved)
       /\ b.id = [content |-> b.content, context |-> b.context, packet |-> b.packet]
       /\ b.context = ctx
       /\ BlockersIntact(b.content)
       /\ ClaimsIntact(b.content)

(***************************************************************************)
(* What READY promises: each requirement that a decision needs is met by   *)
(* exactly one claim of its type, which is shown by evidence, and every    *)
(* evidence of it is mandatory and belongs to a contract that has this     *)
(* claim and asks for this evidence; and no fact is missing.               *)
(***************************************************************************)
Earned(content) ==
    /\ content.missing = {}
    /\ \A r \in content.trusted : \E c \in content.claims :
          /\ c.requirement = r.name /\ c.type = r.type
          /\ (c.flags.mandatory <=> r.mandatory) /\ (c.flags.critical <=> r.critical)
          /\ \A d \in content.claims : d.requirement = r.name => d = c
          /\ r.mandatory \/ r.critical =>
                /\ c.evidence # {}
                /\ \A i \in c.evidence : \E e \in content.evidence :
                      /\ e.id = i /\ e.mandatory
                      /\ \E k \in content.contracts :
                            k.id \in e.contracts /\ c.id \in k.claims /\ i \in k.evidence
=============================================================================
