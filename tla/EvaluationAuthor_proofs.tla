------------------------- MODULE EvaluationAuthor_proofs -------------------------
(***************************************************************************)
(* For all contexts and candidates: what a READY blueprint promises, that  *)
(* what is reported of a run is what its journal tells, that a blueprint   *)
(* holds the context that was sent, and when a usable candidate is refused *)
(* after it was composed.                                                  *)
(***************************************************************************)
EXTENDS EvaluationAuthor, SequenceTheorems, WellFoundedInduction, TLAPS

(* The rules on evidence join up: if none of them is broken, an evidence   *)
(* of a claim belongs to a contract that has the claim and asks for this   *)
(* evidence (evaluationBlueprintV3Diagnostics).                            *)
LEMMA EvidenceJoins ==
    ASSUME NEW b, ~BrokenReference(b), ~EvidenceLinkMismatch(b), ~EvidenceEndpointMissing(b),
           NEW c \in b.claims, NEW i \in c.evidence
    PROVE  \E e \in b.evidence :
              /\ e.id = i
              /\ \E k \in b.contracts :
                    k.id \in e.contracts /\ c.id \in k.claims /\ i \in k.evidence
<1>1. PICK e \in b.evidence : e.id = i
  BY DEF BrokenReference, IdsOf
<1>2. c.id \in e.claims
  BY <1>1 DEF EvidenceLinkMismatch
<1>3. PICK k \in b.contracts : k.id \in e.contracts
  BY DEF EvidenceEndpointMissing, BrokenReference, IdsOf
<1>4. i \in k.evidence
  BY <1>1, <1>3 DEF EvidenceLinkMismatch
<1>5. c.id \in k.claims
  BY <1>2, <1>3 DEF EvidenceLinkMismatch
<1> QED
  BY <1>1, <1>3, <1>4, <1>5

(* No diagnostic: none of the rules is broken.                             *)
LEMMA NoDiagnostic ==
    ASSUME NEW b, NEW ctx, Diagnostics(b, ctx) = {}
    PROVE  /\ ~BrokenReference(b) /\ ~EvidenceLinkMismatch(b) /\ ~EvidenceEndpointMissing(b)
           /\ ~TrustedClaimCardinality(b, ctx) /\ ~TrustedClaimTypeMismatch(b, ctx)
           /\ ~RequiredEvidence(b, ctx)
<1> DEFINE found == [DUPLICATE_ID |-> DuplicateId(b),
                  BROKEN_REFERENCE |-> BrokenReference(b),
                  EVIDENCE_LINK_MISMATCH |-> EvidenceLinkMismatch(b),
                  EVIDENCE_ENDPOINT_MISSING |-> EvidenceEndpointMissing(b),
                  ASSESSMENT_OBSERVATION_MISSING |-> AssessmentUnfounded(b),
                  TRUSTED_CLAIM_CARDINALITY |-> TrustedClaimCardinality(b, ctx),
                  TRUSTED_CLAIM_TYPE_MISMATCH |-> TrustedClaimTypeMismatch(b, ctx),
                  REQUIRED_EVIDENCE |-> RequiredEvidence(b, ctx),
                  REQUIRED_SECTION_EMPTY |-> RequiredSectionEmpty(b)]
<1>1. \A code \in DOMAIN found : ~found[code]
  BY DEF Diagnostics
<1>2. /\ ~found["BROKEN_REFERENCE"] /\ ~found["EVIDENCE_LINK_MISMATCH"]
      /\ ~found["EVIDENCE_ENDPOINT_MISSING"] /\ ~found["TRUSTED_CLAIM_CARDINALITY"]
      /\ ~found["TRUSTED_CLAIM_TYPE_MISMATCH"] /\ ~found["REQUIRED_EVIDENCE"]
  BY <1>1
<1> QED
  BY <1>2

(* A valid blueprint that is READY keeps what READY promises, whoever made *)
(* or edited it (validateComposedEvaluationBlueprint).                     *)
THEOREM ReadyPromises ==
    ASSUME NEW b, BlueprintValid(b), b.state = "READY"
    PROVE  Earned(b.content)
<1> DEFINE content == b.content
           ctx == ContextOf(content)
<1>1. /\ Diagnostics(content, ctx) = {}
      /\ ~ \E u \in content.unresolved : u.blocking
  BY DEF BlueprintValid, Lifecycle
<1>2. content.missing = {}
  <2>1. \A m \in content.missing : \E u \in Blockers(ctx, content.claims) : u.blocking
    <3> SUFFICES ASSUME NEW m \in content.missing
                 PROVE  \E u \in Blockers(ctx, content.claims) : u.blocking
      OBVIOUS
    <3> DEFINE u == [id |-> BlockerId(m.fact), field |-> m.fact, blocking |-> TRUE,
                     origin |-> "SYSTEM",
                     claims |-> IF m.dependency = None THEN {}
                                ELSE {c.id : c \in {d \in content.claims :
                                                        d.requirement = m.dependency}}]
    <3>1. u \in Blockers(ctx, content.claims)
      BY DEF Blockers, ContextOf
    <3>2. u.blocking
      OBVIOUS
    <3> QED
      BY <3>1, <3>2
  <2>2. Blockers(ctx, content.claims) \subseteq content.unresolved
    BY DEF BlueprintValid, BlockersIntact
  <2> QED
    BY <1>1, <2>1, <2>2
<1>3. ASSUME NEW r \in content.trusted
      PROVE  \E c \in content.claims :
          /\ c.requirement = r.name /\ c.type = r.type
          /\ (c.flags.mandatory <=> r.mandatory) /\ (c.flags.critical <=> r.critical)
          /\ \A d \in content.claims : d.requirement = r.name => d = c
          /\ r.mandatory \/ r.critical =>
                /\ c.evidence # {}
                /\ \A i \in c.evidence : \E e \in content.evidence :
                      /\ e.id = i /\ e.mandatory
                      /\ \E k \in content.contracts :
                            k.id \in e.contracts /\ c.id \in k.claims /\ i \in k.evidence
  <2>1. r \in ctx.requirements
    BY DEF ContextOf
  <2>2. PICK c \in content.claims : ClaimsFor(content, r) = {c}
    BY <1>1, <2>1, NoDiagnostic DEF TrustedClaimCardinality
  <2>3. /\ c.requirement = r.name
        /\ \A d \in content.claims : d.requirement = r.name => d = c
    BY <2>2 DEF ClaimsFor
  <2>4. c.type = r.type
    BY <1>1, <2>1, <2>2, NoDiagnostic DEF TrustedClaimTypeMismatch
  <2>5. (c.flags.mandatory <=> r.mandatory) /\ (c.flags.critical <=> r.critical)
    <3>1. c.flags = Flags(c, ctx)
      BY DEF BlueprintValid, ClaimsIntact
    <3>2. \A s \in ctx.requirements : s.name = c.requirement => s = r
      BY <2>1, <2>3 DEF BlueprintValid, ContextValid
    <3>3. {s \in ctx.requirements : s.name = c.requirement} = {r}
      BY <2>1, <2>3, <3>2
    <3> QED
      BY <3>1, <3>3 DEF Flags
  <2>6. ASSUME r.mandatory \/ r.critical
        PROVE  /\ c.evidence # {}
               /\ \A i \in c.evidence : \A e \in content.evidence : e.id = i => e.mandatory
    BY <1>1, <2>1, <2>2, <2>6, NoDiagnostic DEF RequiredEvidence
  <2>7. ASSUME NEW i \in c.evidence
        PROVE  \E e \in content.evidence :
                  /\ e.id = i
                  /\ \E k \in content.contracts :
                        k.id \in e.contracts /\ c.id \in k.claims /\ i \in k.evidence
    BY <1>1, NoDiagnostic, EvidenceJoins
  <2> QED
    BY <2>3, <2>4, <2>5, <2>6, <2>7
<1> QED
  BY <1>2, <1>3 DEF Earned

LEMMA ReadyAtFirst == Init => ReadyIsEarned
  BY DEF Init, ReadyIsEarned, Unfinished

(* A result is only made from a blueprint that is valid.                   *)
LEMMA DecidedIsValid ==
    ASSUME protocol = 3, Decided.status = "COMPLETED"
    PROVE  BlueprintValid(Decided.blueprint)
<1>1. \A code : Error(code).status # "COMPLETED"
  BY DEF Error
<1>2. /\ ending = "OUTPUT" /\ answer # NoText
      /\ IsUsable(answer) /\ BlueprintValid(Composed(answer))
  BY <1>1, Zenon DEF Decided
<1>3. Decided.blueprint = Composed(answer)
  BY <1>2 DEF Decided
<1> QED
  BY <1>2, <1>3

LEMMA ReadyStep == ReadyIsEarned /\ [Next]_vars => ReadyIsEarned'
<1> SUFFICES ASSUME ReadyIsEarned, [Next]_vars PROVE ReadyIsEarned'
  OBVIOUS
<1> USE DEF ReadyIsEarned
<1>1. CASE Start
  BY <1>1 DEF Start, provider, process, reading
<1>2. CASE Return
  BY <1>2 DEF Return, NextAfter, outcome
<1>3. CASE ReadJournal
  BY <1>3 DEF ReadJournal, outcome
<1>4. CASE Decide
  <2>1. /\ result' = Decided /\ pc' = "done"
        /\ UNCHANGED <<protocol, accepted>>
    BY <1>4 DEF Decide
  <2>2. ASSUME result'.status = "COMPLETED", protocol' = 3, result'.blueprint.state = "READY"
        PROVE  Earned(result'.blueprint.content)
    BY <2>1, <2>2, DecidedIsValid, ReadyPromises
  <2> QED
    BY <2>1, <2>2
<1>5. CASE Reread
  <2>1. /\ accepted' = IF BlueprintValid(kept) THEN kept ELSE None
        /\ UNCHANGED <<pc, protocol, result>>
    BY <1>5 DEF Reread
  <2>2. ASSUME accepted' # None, accepted'.state = "READY" PROVE Earned(accepted'.content)
    BY <2>1, <2>2, ReadyPromises
  <2> QED
    BY <2>1, <2>2
<1>6. CASE Settle
  BY <1>6 DEF Settle, outcome
<1>7. CASE Proxy
  <2>1. UNCHANGED <<pc, protocol, outcome>>
    BY <1>7 DEF Proxy, StartProxy, RecordStart, Emit, Relay, ObserveSignal, Exit, Leave,
                Interrupt, Others
  <2> QED
    BY <2>1 DEF outcome
<1>8. CASE ChangeContext
  BY <1>8 DEF ChangeContext, outcome
<1>9. CASE Edit
  BY <1>9 DEF Edit
<1>10. CASE UNCHANGED vars
  BY <1>10 DEF vars
<1> QED
  BY <1>1, <1>2, <1>3, <1>4, <1>5, <1>6, <1>7, <1>8, <1>9, <1>10 DEF Next, Author

(* Whatever the model answers, the caller changes or somebody edits, a     *)
(* blueprint that is READY keeps what READY promises                       *)
(* (authorEvaluationBlueprint, parseCompletedCollection).                  *)
THEOREM ReadyIsEarnedAlways == Spec => []ReadyIsEarned
  BY ReadyAtFirst, ReadyStep, PTL DEF Spec

-----------------------------------------------------------------------------
(* The run and its observation. *)

LEMMA MaxIsMember ==
    ASSUME NEW n \in Nat, NEW S \in SUBSET (1..n), S # {}
    PROVE  Max(S) \in S
<1> DEFINE T == {n - x : x \in S}
           R == {ss \in Nat \X Nat : ss[1] < ss[2]}
<1>1. T \subseteq Nat /\ T # {}
  <2>1. ASSUME NEW x \in S PROVE n - x \in Nat
    OBVIOUS
  <2>2. PICK x \in S : TRUE
    OBVIOUS
  <2>3. n - x \in T
    BY <2>2
  <2> QED
    BY <2>1, <2>3
<1>2. IsWellFoundedOn(R, Nat)
  BY NatLessThanWellFounded, Zenon DEF OpToRel
<1> HIDE DEF T, R
<1>3. PICK m \in T : \A y \in T : ~ (<<y, m>> \in R)
  BY <1>1, <1>2, WFMin
<1>4. \A y \in T : ~ (y < m)
  BY <1>1, <1>3 DEF R
<1>5. PICK x \in S : m = n - x
  BY DEF T
<1>6. \A y \in S : x >= y
  <2> TAKE y \in S
  <2>1. n - y \in T
    BY DEF T
  <2> QED
    BY <1>4, <1>5, <2>1
<1>7. \E z \in S : \A y \in S : z >= y
  BY <1>6
<1> QED
  BY <1>7, Zenon DEF Max

(* What Codex ended the turn with, if it did, and otherwise one of the     *)
(* other stages.                                                           *)
LEMMA StageIsOfTheTurn ==
    ASSUME NEW events \in Seq(Events)
    PROVE  /\ Range(events) \cap {"completed", "failed"} # {} =>
                 Stage(events) \in Range(events) \cap {"completed", "failed"}
           /\ Stage(events) \in Progress \cup {"process", "exit", "NONE", "UNKNOWN"}
<1>1. /\ Len(events) \in Nat /\ DOMAIN events = 1..Len(events)
      /\ \A i \in DOMAIN events : events[i] \in Events
  BY LenProperties, ElementOfSeq
<1>2. Range(events) \cap {"completed", "failed"} # {} => TurnEnds(events) # {}
  BY DEF Range, TurnEnds
<1>3. ASSUME TurnEnds(events) # {}
      PROVE  Stage(events) \in Range(events) \cap {"completed", "failed"}
  <2>1. TurnEnds(events) \in SUBSET (1..Len(events))
    BY <1>1 DEF TurnEnds
  <2>2. Max(TurnEnds(events)) \in TurnEnds(events)
    BY <1>1, <1>3, <2>1, MaxIsMember
  <2>3. Stage(events) = events[Max(TurnEnds(events))]
    BY <1>3 DEF Stage
  <2> QED
    BY <2>2, <2>3 DEF TurnEnds, Range
<1>4. ASSUME TurnEnds(events) = {}, events # <<>>
      PROVE  Stage(events) \in Progress \cup {"process", "exit", "NONE", "UNKNOWN"}
  <2>1. Last(events) \in Events
    BY <1>1, <1>4, EmptySeq DEF Last
  <2> QED
    BY <1>4, <2>1 DEF Stage, Events
<1>5. ASSUME TurnEnds(events) = {}, events = <<>>
      PROVE  Stage(events) = "NONE"
  BY <1>5 DEF Stage
<1> QED
  BY <1>2, <1>3, <1>4, <1>5 DEF Progress

LEMMA Recording ==
    ASSUME NEW events \in Seq(Events), NEW e \in Events
    PROVE  /\ Append(events, e) \in Seq(Events)
           /\ Range(events) \subseteq Range(Append(events, e))
           /\ e \in Range(Append(events, e))
<1>1. /\ Append(events, e) \in Seq(Events) /\ Len(Append(events, e)) = Len(events) + 1
      /\ \A i \in 1..Len(events) : Append(events, e)[i] = events[i]
      /\ Append(events, e)[Len(events) + 1] = e
  BY AppendProperties
<1>2. /\ Len(events) \in Nat /\ DOMAIN events = 1..Len(events)
      /\ DOMAIN Append(events, e) = 1..(Len(events) + 1)
  BY <1>1, LenProperties
<1>3. Len(events) + 1 \in 1..(Len(events) + 1) /\ 1..Len(events) \subseteq 1..(Len(events) + 1)
  BY <1>2
<1> QED
  BY <1>1, <1>2, <1>3, Zenon DEF Range

(* Nothing of the script is printed twice.                                 *)
LEMMA Printing ==
    ASSUME NEW left \in Seq(Progress), NEW printed \in Seq(Progress), left # <<>>
    PROVE  /\ Head(left) \in Progress /\ Tail(left) \in Seq(Progress)
           /\ Append(printed, Head(left)) \in Seq(Progress)
<1>1. Head(left) \in Progress /\ Tail(left) \in Seq(Progress)
  BY HeadTailProperties
<1> QED
  BY <1>1, AppendProperties

LEMMA RunAtFirst == Init => RunInvariant
<1> SUFFICES ASSUME Init PROVE RunInvariant
  OBVIOUS
<1> USE DEF Init
<1>1. script \in Seq(Progress) /\ <<>> \in Seq(Progress) /\ <<>> \in Seq(Events)
  <2>1. /\ <<"thread", "turn", "item", "completed">> \in Seq(Progress)
        /\ <<"thread", "turn", "failed">> \in Seq(Progress)
    BY DEF Progress
  <2>2. Turns \subseteq Seq(Progress)
    BY <2>1 DEF Turns
  <2> QED
    BY <2>2, EmptySeq
<1>2. Unreported \in Reports /\ ~Reported
  BY DEF Unreported, Reported, Reports
<1>3. TypeOK
  <2>1. count \in [invocations : 0..1, changes : 0..MaxChanges, edits : 0..MaxEdits]
    BY BoundAssumption
  <2>2. 0 \in 0..Polls /\ None \in (0..Polls) \cup {None}
    BY PollsAssumption
  <2>3. result.status \in {"NONE", "THROWN", "ERROR", "COMPLETED"}
    BY DEF Unfinished
  <2> QED
    BY <1>1, <1>2, <2>1, <2>2, <2>3 DEF TypeOK
<1>4. RunsOnce
  BY DEF RunsOnce
<1>5. StepsHeld
  BY <1>2 DEF StepsHeld, Unfinished
<1> QED
  BY <1>3, <1>4, <1>5 DEF RunInvariant

LEMMA ObservedIsAReport ==
    ASSUME TypeOK
    PROVE  Observed \in Reports /\ Observed.stage # "UNREPORTED"
<1>1. Stage(journal) \in Progress \cup {"process", "exit", "NONE", "UNKNOWN"}
  BY StageIsOfTheTurn DEF TypeOK
<1>2. \A condition : YesNo(condition) \in {"null", "yes", "no"}
  BY DEF YesNo
<1>3. Requested \in BOOLEAN
  BY DEF Requested
<1>4. Observed.stage \in Progress \cup {"process", "exit", "NONE", "UNKNOWN"}
  BY <1>1 DEF Observed
<1>5. Observed.owner \in {"PROMPTFOO_STEP", "PROMPTFOO_EVALUATION", "CODEX_TURN", "UNKNOWN",
                         "null"}
  BY DEF Observed
<1>6. Observed \in Reports
  BY <1>2, <1>3, <1>4, <1>5 DEF Observed, Reports
<1> QED
  BY <1>4, <1>6 DEF Progress

LEMMA DecidedIsAResult == Decided.status \in {"ERROR", "COMPLETED"}
  BY DEF Decided, Error

(* What a step of the proxy changes, but for what it writes.               *)
LEMMA ProxySteps ==
    ASSUME Proxy
    PROVE  /\ UNCHANGED Others
           /\ Running
           /\ proxy' = proxy \/ proxy' \in {"starting", "running", "leaving", "gone"}
           /\ created' = created \/ created'
           /\ signal' \in {signal, TRUE, FALSE}
           /\ cancelled' \in {cancelled, attempt}
<1> USE DEF Others, process
<1>1. CASE StartProxy
  BY <1>1 DEF StartProxy
<1>2. CASE RecordStart
  BY <1>2 DEF RecordStart
<1>3. CASE Emit
  BY <1>3 DEF Emit
<1>4. CASE Relay
  BY <1>4 DEF Relay
<1>5. CASE ObserveSignal
  BY <1>5 DEF ObserveSignal
<1>6. CASE Exit
  BY <1>6 DEF Exit
<1>7. CASE Leave
  BY <1>7 DEF Leave
<1>8. CASE Interrupt
  BY <1>8 DEF Interrupt
<1> QED
  BY <1>1, <1>2, <1>3, <1>4, <1>5, <1>6, <1>7, <1>8, Zenon DEF Proxy

(* What it writes: nothing, or one event at the end of the journal.        *)
LEMMA ProxyWrites ==
    ASSUME TypeOK, Proxy
    PROVE  /\ journal' = journal \/ \E e \in Events : journal' = Append(journal, e)
           /\ journal' \in Seq(Events)
           /\ script' \in Seq(Progress) /\ pending' \in Seq(Progress)
<1>0. journal \in Seq(Events) /\ script \in Seq(Progress) /\ pending \in Seq(Progress)
  BY DEF TypeOK
<1>1. CASE StartProxy
  BY <1>0, <1>1 DEF StartProxy
<1>2. CASE RecordStart
  <2>1. "process" \in Events
    BY DEF Events
  <2> QED
    BY <1>0, <1>2, <2>1, Recording DEF RecordStart, Recorded
<1>3. CASE Emit
  BY <1>0, <1>3, Printing DEF Emit
<1>4. CASE Relay
  <2>1. Head(pending) \in Events
    BY <1>0, <1>4, HeadTailProperties DEF Relay, Events
  <2> QED
    BY <1>0, <1>4, <2>1, Recording, HeadTailProperties DEF Relay, Recorded
<1>5. CASE ObserveSignal
  <2>1. "signal" \in Events
    BY DEF Events
  <2> QED
    BY <1>0, <1>5, <2>1, Recording DEF ObserveSignal, Recorded
<1>6. CASE Exit
  <2>1. "exit" \in Events
    BY DEF Events
  <2> QED
    BY <1>0, <1>6, <2>1, Recording DEF Exit, Recorded
<1>7. CASE Leave
  BY <1>0, <1>7 DEF Leave
<1>8. CASE Interrupt
  BY <1>0, <1>8 DEF Interrupt, process
<1> QED
  BY <1>1, <1>2, <1>3, <1>4, <1>5, <1>6, <1>7, <1>8, Zenon DEF Proxy

LEMMA Counting ==
    ASSUME TypeOK, NEW next,
           \/ /\ count.changes < MaxChanges
              /\ next = [count EXCEPT !.changes = count.changes + 1]
           \/ /\ count.edits < MaxEdits
              /\ next = [count EXCEPT !.edits = count.edits + 1]
    PROVE  /\ next \in [invocations : 0..1, changes : 0..MaxChanges, edits : 0..MaxEdits]
           /\ next.invocations = count.invocations
<1>1. count \in [invocations : 0..1, changes : 0..MaxChanges, edits : 0..MaxEdits]
  BY DEF TypeOK
<1>2. /\ count.invocations \in 0..1
      /\ count.changes \in 0..MaxChanges /\ count.edits \in 0..MaxEdits
  BY <1>1
<1>3. CASE count.changes < MaxChanges /\ next = [count EXCEPT !.changes = count.changes + 1]
  <2>1. count.changes + 1 \in 0..MaxChanges
    BY <1>2, <1>3, BoundAssumption
  <2> QED
    BY <1>1, <1>3, <2>1
<1>4. CASE count.edits < MaxEdits /\ next = [count EXCEPT !.edits = count.edits + 1]
  <2>1. count.edits + 1 \in 0..MaxEdits
    BY <1>2, <1>4, BoundAssumption
  <2> QED
    BY <1>1, <1>4, <2>1
<1> QED
  BY <1>3, <1>4

(* What the author does not do leaves the run where it is.                 *)
RunStays ==
    /\ UNCHANGED <<pc, protocol, watched, sent, attempt, report>>
    /\ result' = result /\ count'.invocations = count.invocations
    /\ pc = "invoked" \/ ending' = ending

LEMMA Staying ==
    ASSUME RunInvariant, RunStays
    PROVE  RunsOnce' /\ StepsHeld'
  BY DEF RunInvariant, RunsOnce, StepsHeld, RunStays, Reported, Observable

LEMMA RunStep == RunInvariant /\ [Next]_vars => RunInvariant'
<1> SUFFICES ASSUME RunInvariant, [Next]_vars PROVE RunInvariant'
  OBVIOUS
<1>0. TypeOK /\ RunsOnce /\ StepsHeld
  BY DEF RunInvariant
<1> USE <1>0, PollsAssumption, BoundAssumption DEF provider, process, reading, outcome, Observable
<1>1. CASE Start
  <2> USE <1>1 DEF Start
  <2>1. sent = None /\ count.invocations = 0
    BY DEF StepsHeld, RunsOnce
  <2>2. CASE protocol = 3 /\ ~ContextValid(context)
    <3>1. TypeOK'
      BY <2>2 DEF TypeOK
    <3>2. RunsOnce' /\ StepsHeld'
      BY <2>1, <2>2 DEF RunsOnce, StepsHeld, Reported
    <3> QED
      BY <3>1, <3>2 DEF RunInvariant
  <2>3. CASE ~(protocol = 3 /\ ~ContextValid(context))
    <3>1. /\ count' \in [invocations : 0..1, changes : 0..MaxChanges, edits : 0..MaxEdits]
          /\ count'.invocations = 1
      BY <2>1, <2>3 DEF TypeOK
    <3>2. sent' \in Context /\ sent' # None
      BY <2>3, ContextAssumption DEF TypeOK
    <3>3. TypeOK'
      BY <2>3, <3>1, <3>2 DEF TypeOK
    <3>4. RunsOnce' /\ StepsHeld'
      BY <2>1, <2>3, <3>1, <3>2 DEF RunsOnce, StepsHeld, Reported
    <3> QED
      BY <3>3, <3>4 DEF RunInvariant
  <2> QED
    BY <2>2, <2>3
<1>2. CASE Return
  <2> USE <1>2 DEF Return, NextAfter
  <2>1. TypeOK'
    BY DEF TypeOK
  <2>2. RunsOnce' /\ StepsHeld'
    BY DEF RunsOnce, StepsHeld, Reported, TypeOK
  <2> QED
    BY <2>1, <2>2 DEF RunInvariant
<1>3. CASE ReadJournal
  <2> USE <1>3 DEF ReadJournal
  <2>1. attempt \in 0..Polls /\ attempt < Polls /\ Observable /\ sent # None /\ ~Reported
    BY DEF StepsHeld, TypeOK
  <2>2. CASE ReadsAgain
    <3>1. attempt' \in 0..Polls /\ attempt' < Polls
      BY <2>1, <2>2 DEF ReadsAgain
    <3>2. TypeOK'
      BY <2>2, <3>1 DEF TypeOK
    <3>3. RunsOnce' /\ StepsHeld'
      BY <2>1, <2>2, <3>1 DEF RunsOnce, StepsHeld, Reported
    <3> QED
      BY <3>2, <3>3 DEF RunInvariant
  <2>3. CASE ~ReadsAgain
    <3>1. attempt' \in 0..Polls
      BY <2>1, <2>3
    <3>2. report' \in Reports /\ Reported'
      BY <1>0, <2>3, ObservedIsAReport DEF Reported, Unreported
    <3>3. TypeOK'
      BY <2>3, <3>1, <3>2 DEF TypeOK
    <3>4. RunsOnce' /\ StepsHeld'
      BY <2>1, <2>3, <3>2 DEF RunsOnce, StepsHeld
    <3> QED
      BY <3>3, <3>4 DEF RunInvariant
  <2> QED
    BY <2>2, <2>3
<1>4. CASE Decide
  <2> USE <1>4 DEF Decide
  <2>1. result'.status \in {"ERROR", "COMPLETED"}
    BY DecidedIsAResult
  <2>2. TypeOK'
    BY <2>1 DEF TypeOK
  <2>3. RunsOnce' /\ StepsHeld'
    BY <2>1 DEF RunsOnce, StepsHeld, Reported
  <2> QED
    BY <2>2, <2>3 DEF RunInvariant
<1>5. CASE Reread
  <2> USE <1>5 DEF Reread
  <2>1. TypeOK'
    BY DEF TypeOK
  <2>2. RunStays
    BY DEF RunStays
  <2> QED
    BY <2>1, <2>2, Staying DEF RunInvariant
<1>6. CASE Settle
  <2> USE <1>6 DEF Settle
  <2>1. TypeOK'
    BY DEF TypeOK
  <2>2. RunStays
    BY DEF RunStays
  <2> QED
    BY <2>1, <2>2, Staying DEF RunInvariant
<1>7. CASE Proxy
  <2>1. /\ proxy' \in {"absent", "starting", "running", "leaving", "gone"}
        /\ created' \in BOOLEAN /\ signal' \in BOOLEAN
        /\ cancelled' \in (0..Polls) \cup {None}
        /\ UNCHANGED Others
    BY <1>7, ProxySteps DEF TypeOK
  <2>2. journal' \in Seq(Events) /\ script' \in Seq(Progress) /\ pending' \in Seq(Progress)
    BY <1>7, ProxyWrites
  <2>3. TypeOK'
    BY <2>1, <2>2 DEF TypeOK, Others
  <2>4. RunStays
    BY <2>1 DEF RunStays, Others
  <2> QED
    BY <2>3, <2>4, Staying DEF RunInvariant
<1>8. CASE ChangeContext
  <2> USE <1>8 DEF ChangeContext
  <2>0. /\ count.changes < MaxChanges
        /\ count' = [count EXCEPT !.changes = count.changes + 1]
    OBVIOUS
  <2>1. /\ count' \in [invocations : 0..1, changes : 0..MaxChanges, edits : 0..MaxEdits]
        /\ count'.invocations = count.invocations
    BY <2>0, Counting
  <2>2. TypeOK'
    BY <2>1 DEF TypeOK
  <2>3. RunStays
    BY <2>1 DEF RunStays
  <2> QED
    BY <2>2, <2>3, Staying DEF RunInvariant
<1>9. CASE Edit
  <2> USE <1>9 DEF Edit
  <2>0. /\ count.edits < MaxEdits
        /\ count' = [count EXCEPT !.edits = count.edits + 1]
    OBVIOUS
  <2>1. /\ count' \in [invocations : 0..1, changes : 0..MaxChanges, edits : 0..MaxEdits]
        /\ count'.invocations = count.invocations
    BY <2>0, Counting
  <2>2. TypeOK'
    BY <2>1 DEF TypeOK
  <2>3. RunStays
    BY <2>1 DEF RunStays
  <2> QED
    BY <2>2, <2>3, Staying DEF RunInvariant
<1>10. CASE UNCHANGED vars
  <2> USE <1>10 DEF vars
  <2>1. TypeOK'
    BY DEF TypeOK
  <2>2. RunStays
    BY DEF RunStays
  <2> QED
    BY <2>1, <2>2, Staying DEF RunInvariant
<1> QED
  BY <1>1, <1>2, <1>3, <1>4, <1>5, <1>6, <1>7, <1>8, <1>9, <1>10 DEF Next, Author

(* A run invokes the provider once and reports one observation, or none    *)
(* (authorEvaluationBlueprint).                                            *)
THEOREM Invariance == Spec => []RunInvariant
  BY RunAtFirst, RunStep, PTL DEF Spec

LEMMA ObservationAtFirst == Init => ObservationIsTrue
<1>1. ASSUME Init PROVE ~Reported
  BY <1>1 DEF Init, Reported
<1>2. Init => JournalHeld
  BY DEF Init, JournalHeld
<1> QED
  BY <1>1, <1>2 DEF ObservationIsTrue, CancellationIsReported, StageTellsTheTurn

(* A journal that nobody has created tells nothing.                        *)
LEMMA NothingToTell ==
    ASSUME JournalHeld, ~created
    PROVE  ~Tells(journal) /\ Range(journal) = {}
<1>1. journal = <<>>
  BY DEF JournalHeld
<1>2. DOMAIN journal = {}
  BY <1>1
<1>3. Range(journal) = {}
  BY <1>2 DEF Range
<1> QED
  BY <1>3 DEF Tells

(* What is reported is what the journal tells when it is read last.        *)
LEMMA ReadingIsTrue ==
    ASSUME RunInvariant, JournalHeld, ReadJournal
    PROVE  CancellationIsReported' /\ StageTellsTheTurn'
<1>0. TypeOK /\ StepsHeld
  BY DEF RunInvariant
<1>1. /\ attempt < Polls /\ attempt \in 0..Polls /\ attempt' = attempt + 1 /\ ~Reported
      /\ UNCHANGED <<journal, cancelled, created, ending>>
  BY <1>0 DEF StepsHeld, TypeOK, ReadJournal, process, provider
<1>2. CASE ReadsAgain
  <2>1. ~Reported'
    BY <1>1, <1>2 DEF ReadJournal, Reported
  <2> QED
    BY <2>1 DEF CancellationIsReported, StageTellsTheTurn
<1>3. CASE ~ReadsAgain
  <2>1. report' = Observed
    BY <1>3 DEF ReadJournal
  <2>2. /\ report'.requested = Requested
        /\ report'.cancelled = YesNo(Requested /\ Tells(journal))
        /\ created => report'.stage = Stage(journal)
    BY <2>1 DEF Observed
  <2>3. Tells(journal) => created
    BY NothingToTell
  <2>4. report'.cancelled = "yes" <=> Requested /\ Tells(journal)
    BY <2>2, <2>3 DEF YesNo
  <2>5. cancelled # None => Tells(journal)
    BY DEF JournalHeld
  <2>6. Requested /\ ~Tells(journal) => attempt' = Polls
    BY <1>1, <1>3, PollsAssumption DEF ReadsAgain
  <2>7. CancellationIsReported'
    BY <1>1, <2>2, <2>4, <2>5, <2>6 DEF CancellationIsReported, Tells
  <2>8. StageTellsTheTurn'
    <3>1. ASSUME Range(journal) \cap {"completed", "failed"} # {}
          PROVE  report'.stage \in Range(journal) \cap {"completed", "failed"}
      <4>1. created
        BY <3>1, NothingToTell
      <4>2. journal \in Seq(Events)
        BY <1>0 DEF TypeOK
      <4> QED
        BY <2>2, <3>1, <4>1, <4>2, StageIsOfTheTurn
    <3> QED
      BY <1>1, <3>1 DEF StageTellsTheTurn
  <2> QED
    BY <2>7, <2>8
<1> QED
  BY <1>2, <1>3

(* The proxy writes to a journal that is there, and takes nothing away.    *)
LEMMA ProxyKeepsTheJournal ==
    ASSUME TypeOK, JournalHeld, Proxy
    PROVE  JournalHeld'
<1>0. journal \in Seq(Events)
  BY DEF TypeOK
<1>1. Tells(journal) => Tells(journal')
  BY <1>0, ProxyWrites, Recording DEF Tells
<1> USE DEF process
<1>2. CASE StartProxy
  BY <1>1, <1>2 DEF StartProxy, JournalHeld
<1>3. CASE RecordStart
  BY <1>1, <1>3 DEF RecordStart, JournalHeld
<1>4. CASE Emit
  BY <1>1, <1>4 DEF Emit, JournalHeld
<1>5. CASE Relay
  BY <1>1, <1>5 DEF Relay, JournalHeld
<1>6. CASE ObserveSignal
  <2>1. "signal" \in Events
    BY DEF Events
  <2>2. Tells(journal')
    BY <1>0, <1>6, <2>1, Recording DEF ObserveSignal, Recorded, Tells
  <2> QED
    BY <1>6, <2>2 DEF ObserveSignal, JournalHeld
<1>7. CASE Exit
  BY <1>1, <1>7 DEF Exit, JournalHeld
<1>8. CASE Leave
  BY <1>1, <1>8 DEF Leave, JournalHeld
<1>9. CASE Interrupt
  BY <1>9 DEF Interrupt, JournalHeld, Tells
<1> QED
  BY <1>2, <1>3, <1>4, <1>5, <1>6, <1>7, <1>8, <1>9, Zenon DEF Proxy

LEMMA ObservationStep ==
    RunInvariant /\ ObservationIsTrue /\ [Next]_vars => ObservationIsTrue'
<1> SUFFICES ASSUME RunInvariant, ObservationIsTrue, [Next]_vars PROVE ObservationIsTrue'
  OBVIOUS
<1>0. /\ TypeOK /\ StepsHeld
      /\ CancellationIsReported /\ StageTellsTheTurn /\ JournalHeld
  BY DEF RunInvariant, ObservationIsTrue
<1>1. ASSUME UNCHANGED process, UNCHANGED reading PROVE ObservationIsTrue'
  BY <1>0, <1>1 DEF process, reading, ObservationIsTrue, CancellationIsReported,
     StageTellsTheTurn, JournalHeld, Reported, Tells
<1>2. CASE ReadJournal
  <2>1. JournalHeld'
    BY <1>0, <1>2 DEF ReadJournal, JournalHeld, process, Tells
  <2> QED
    BY <1>0, <1>2, <2>1, ReadingIsTrue DEF ObservationIsTrue
<1>3. CASE Proxy
  <2>1. UNCHANGED Others /\ Running
    BY <1>3, ProxySteps
  <2>2. ~Reported'
    BY <1>0, <2>1 DEF StepsHeld, Running, Others, Reported, reading
  <2>3. JournalHeld'
    BY <1>0, <1>3, ProxyKeepsTheJournal
  <2> QED
    BY <2>2, <2>3 DEF ObservationIsTrue, CancellationIsReported, StageTellsTheTurn
<1>4. CASE Start \/ Return \/ Decide \/ Reread \/ Settle \/ ChangeContext \/ Edit
           \/ UNCHANGED vars
  <2>1. UNCHANGED process /\ UNCHANGED reading
    BY <1>4 DEF Start, Return, Decide, Reread, Settle, ChangeContext, Edit, vars, process, reading
  <2> QED
    BY <1>1, <2>1
<1> QED
  BY <1>2, <1>3, <1>4 DEF Next, Author

(* What is reported of a turn is what the journal tells of it, whichever   *)
(* of the timer, the signal and the records came first                     *)
(* (readCodexObservation).                                                 *)
THEOREM Observation == Spec => []ObservationIsTrue
  BY RunAtFirst, RunStep, ObservationAtFirst, ObservationStep, PTL DEF Spec

-----------------------------------------------------------------------------
(* The composition. *)

(* A result is made once, from what was sent.                              *)
LEMMA ResultIsDecided ==
    ASSUME StepsHeld, [Next]_vars, result'.status \in {"ERROR", "COMPLETED"}
    PROVE  /\ UNCHANGED <<protocol, sent>>
           /\ \/ UNCHANGED result
              \/ pc = "deciding" /\ result' = Decided
<1> USE DEF outcome
<1>1. CASE Start
  <2>1. result' = result \/ result'.status = "THROWN"
    BY <1>1 DEF Start
  <2>2. result.status = "NONE"
    BY <1>1 DEF Start, StepsHeld
  <2> QED
    BY <2>1, <2>2
<1>2. CASE Decide
  BY <1>2 DEF Decide, StepsHeld
<1>3. CASE Proxy
  BY <1>3, ProxySteps DEF Others
<1>4. CASE Return
  BY <1>4 DEF Return
<1>5. CASE ReadJournal
  BY <1>5 DEF ReadJournal
<1>6. CASE Reread \/ Settle \/ ChangeContext \/ Edit \/ UNCHANGED vars
  BY <1>6 DEF Reread, Settle, ChangeContext, Edit, vars
<1> QED
  BY <1>1, <1>2, <1>3, <1>4, <1>5, <1>6 DEF Next, Author

LEMMA ComposedContext ==
    ASSUME NEW c, NEW ctx \in Context
    PROVE  ContextOf(Compose(c, ctx)) = ctx
<1>1. ctx = [requirements |-> ctx.requirements, missing |-> ctx.missing]
  BY ContextAssumption
<1>2. /\ Compose(c, ctx).trusted = ctx.requirements
      /\ Compose(c, ctx).missing = ctx.missing
  BY DEF Compose
<1> QED
  BY <1>1, <1>2 DEF ContextOf

LEMMA PacketStep ==
    ASSUME RunInvariant, BlueprintIsOfThePacket, [Next]_vars
    PROVE  BlueprintIsOfThePacket'
<1> SUFFICES ASSUME result'.status = "COMPLETED", protocol' = 3
             PROVE  /\ result'.blueprint.context = sent'
                    /\ ContextOf(result'.blueprint.content) = sent'
  BY DEF BlueprintIsOfThePacket
<1>0. TypeOK /\ StepsHeld
  BY DEF RunInvariant
<1>1. /\ UNCHANGED <<protocol, sent>>
      /\ UNCHANGED result \/ (pc = "deciding" /\ result' = Decided)
  BY <1>0, ResultIsDecided
<1>2. CASE UNCHANGED result
  BY <1>1, <1>2 DEF BlueprintIsOfThePacket
<1>3. CASE pc = "deciding" /\ result' = Decided
  <2>1. sent \in Context
    BY <1>0, <1>3 DEF TypeOK, StepsHeld
  <2>2. result'.blueprint = Composed(answer)
    BY <1>1, <1>3 DEF Decided, Error
  <2>3. /\ Composed(answer).context = sent
        /\ Composed(answer).content = Compose(answer, sent)
    BY DEF Composed, Blueprint, Trusted
  <2> QED
    BY <1>1, <2>1, <2>2, <2>3, ComposedContext
<1> QED
  BY <1>1, <1>2, <1>3

(* A blueprint holds the context that the provider was given, whatever the *)
(* caller has done to its objects since (canonicalFrozenCopy).             *)
THEOREM Packet == Spec => []BlueprintIsOfThePacket
<1>1. Init => BlueprintIsOfThePacket
  BY DEF Init, Unfinished, BlueprintIsOfThePacket
<1>2. RunInvariant /\ BlueprintIsOfThePacket /\ [Next]_vars => BlueprintIsOfThePacket'
  BY PacketStep
<1> QED
  BY <1>1, <1>2, RunAtFirst, RunStep, PTL DEF Spec

(* What the composition makes of a claim and of an unresolved requirement. *)
ComposedClaim(x, ctx) ==
    [id |-> x.id, requirement |-> x.requirement, type |-> x.type, evidence |-> x.evidence,
     flags |-> Flags(x, ctx)]
ComposedQuestion(u) ==
    [id |-> u.id, field |-> u.field, blocking |-> u.blocking, origin |-> "AUTHOR",
     claims |-> u.claims]

(* The parts of a composed blueprint.                                      *)
LEMMA Parts ==
    ASSUME NEW c, NEW ctx, NEW b, b = Compose(c, ctx)
    PROVE  /\ b.claims = {ComposedClaim(x, ctx) : x \in c.claims}
           /\ b.contracts = c.contracts /\ b.families = c.families
           /\ b.evidence = c.evidence /\ b.empty = c.empty
           /\ b.unresolved = {ComposedQuestion(u) : u \in c.unresolved}
                              \cup Blockers(ctx, b.claims)
           /\ b.trusted = ctx.requirements /\ b.missing = ctx.missing
           /\ "trusted" \in DOMAIN b
  BY DEF Compose, ComposedClaim, ComposedQuestion

(* A blocker is the system's, blocks, has no section for its field, and    *)
(* names only claims that are there.                                       *)
LEMMA BlockersAre ==
    ASSUME NEW ctx \in Context, NEW claims, NEW u \in Blockers(ctx, claims)
    PROVE  /\ \E m \in ctx.missing : u.id = BlockerId(m.fact)
           /\ u.blocking /\ u.origin = "SYSTEM" /\ Reserved(u.id)
           /\ u.field \notin Sections
           /\ u.claims \subseteq IdsOf(claims)
           /\ \A v \in Blockers(ctx, claims) : v.id = u.id => v = u
<1> DEFINE block(m) ==
        [id |-> BlockerId(m.fact), field |-> m.fact, blocking |-> TRUE, origin |-> "SYSTEM",
         claims |-> IF m.dependency = None THEN {}
                    ELSE {d.id : d \in {e \in claims : e.requirement = m.dependency}}]
<1>1. PICK m \in ctx.missing : u = block(m)
  BY DEF Blockers
<1>2. u.id = BlockerId(m.fact) /\ u.field = m.fact /\ u.blocking /\ u.origin = "SYSTEM"
  BY <1>1
<1>3. u.claims = IF m.dependency = None THEN {}
                 ELSE {d.id : d \in {e \in claims : e.requirement = m.dependency}}
  BY <1>1
<1>4. u.claims \subseteq IdsOf(claims)
  BY <1>3 DEF IdsOf
<1>5. Reserved(u.id) /\ u.field \notin Sections
  BY <1>2, ContextAssumption
<1>6. ASSUME NEW v \in Blockers(ctx, claims), v.id = u.id PROVE v = u
  <2>1. PICK n \in ctx.missing : v = block(n)
    BY DEF Blockers
  <2>2. v.id = BlockerId(n.fact)
    BY <2>1
  <2>3. n.fact = m.fact
    BY <1>2, <1>6, <2>2 DEF BlockerId
  <2>4. n = m
    BY <2>3, ContextAssumption
  <2> QED
    BY <1>1, <2>1, <2>4
<1> QED
  BY <1>2, <1>4, <1>5, <1>6

(* What kind of entity something is tells itself by its fields.            *)
Kind(x) ==
    IF "requirement" \in DOMAIN x THEN "claim"
    ELSE IF "field" \in DOMAIN x THEN "question"
    ELSE IF "mandatory" \in DOMAIN x THEN "evidence"
    ELSE IF "claims" \in DOMAIN x THEN "contract" ELSE "family"

Made(x, ctx) ==
    IF Kind(x) = "claim" THEN ComposedClaim(x, ctx)
    ELSE IF Kind(x) = "question" THEN ComposedQuestion(x) ELSE x

LEMMA Kinds ==
    ASSUME NEW c, Shaped(c)
    PROVE  /\ \A x \in c.claims : Kind(x) = "claim"
           /\ \A x \in c.contracts : Kind(x) = "contract"
           /\ \A x \in c.families : Kind(x) = "family"
           /\ \A x \in c.evidence : Kind(x) = "evidence"
           /\ \A x \in c.unresolved : Kind(x) = "question"
<1>1. ASSUME NEW x \in c.claims PROVE Kind(x) = "claim"
  <2>1. DOMAIN x = {"id", "requirement", "type", "evidence"}
    BY DEF Shaped
  <2> QED
    BY <2>1 DEF Kind
<1>2. ASSUME NEW x \in c.contracts PROVE Kind(x) = "contract"
  <2>1. DOMAIN x = {"id", "claims", "evidence"}
    BY DEF Shaped
  <2> QED
    BY <2>1 DEF Kind
<1>3. ASSUME NEW x \in c.families PROVE Kind(x) = "family"
  <2>1. DOMAIN x = {"id", "contracts"}
    BY DEF Shaped
  <2> QED
    BY <2>1 DEF Kind
<1>4. ASSUME NEW x \in c.evidence PROVE Kind(x) = "evidence"
  <2>1. x = [id |-> x.id, claims |-> x.claims, contracts |-> x.contracts,
             mandatory |-> x.mandatory, paths |-> x.paths]
    BY DEF Shaped
  <2>2. DOMAIN x = {"id", "claims", "contracts", "mandatory", "paths"}
    BY <2>1
  <2> QED
    BY <2>2 DEF Kind
<1>5. ASSUME NEW x \in c.unresolved PROVE Kind(x) = "question"
  <2>1. DOMAIN x = {"id", "field", "blocking", "claims"}
    BY DEF Shaped
  <2> QED
    BY <2>1 DEF Kind
<1> QED
  BY <1>1, <1>2, <1>3, <1>4, <1>5

LEMMA MadeKeeps ==
    ASSUME NEW c, Shaped(c), NEW ctx, NEW x \in Entities(c)
    PROVE  /\ Made(x, ctx).id = x.id /\ Kind(Made(x, ctx)) = Kind(x)
           /\ \A y \in Entities(c) : Made(y, ctx) = Made(x, ctx) => y = x
<1>1. ASSUME NEW y \in Entities(c)
      PROVE  Made(y, ctx).id = y.id /\ Kind(Made(y, ctx)) = Kind(y)
  <2>1. CASE Kind(y) = "claim"
    <3>1. Made(y, ctx) = ComposedClaim(y, ctx)
      BY <2>1 DEF Made
    <3>2. /\ ComposedClaim(y, ctx).id = y.id
          /\ DOMAIN ComposedClaim(y, ctx) = {"id", "requirement", "type", "evidence", "flags"}
      BY DEF ComposedClaim
    <3> QED
      BY <2>1, <3>1, <3>2 DEF Kind
  <2>2. CASE Kind(y) = "question"
    <3>1. Made(y, ctx) = ComposedQuestion(y)
      BY <2>2 DEF Made
    <3>2. /\ ComposedQuestion(y).id = y.id
          /\ DOMAIN ComposedQuestion(y) = {"id", "field", "blocking", "origin", "claims"}
      BY DEF ComposedQuestion
    <3> QED
      BY <2>2, <3>1, <3>2 DEF Kind
  <2>3. CASE Kind(y) \notin {"claim", "question"}
    BY <2>3 DEF Made
  <2> QED
    BY <2>1, <2>2, <2>3
<1>2. ASSUME NEW y \in Entities(c), Made(y, ctx) = Made(x, ctx) PROVE y = x
  <2>1. Kind(y) = Kind(x)
    BY <1>1, <1>2
  <2>2. CASE Kind(x) = "claim"
    <3>1. x \in c.claims /\ y \in c.claims
      BY <2>1, <2>2, Kinds DEF Entities
    <3>2. ComposedClaim(x, ctx) = ComposedClaim(y, ctx)
      BY <1>2, <2>1, <2>2 DEF Made
    <3>3. x.id = y.id /\ x.requirement = y.requirement /\ x.type = y.type
          /\ x.evidence = y.evidence
      BY <3>2 DEF ComposedClaim
    <3> QED
      BY <3>1, <3>3 DEF Shaped
  <2>3. CASE Kind(x) = "question"
    <3>1. x \in c.unresolved /\ y \in c.unresolved
      BY <2>1, <2>3, Kinds DEF Entities
    <3>2. ComposedQuestion(x) = ComposedQuestion(y)
      BY <1>2, <2>1, <2>3 DEF Made
    <3>3. x.id = y.id /\ x.field = y.field /\ x.blocking = y.blocking /\ x.claims = y.claims
      BY <3>2 DEF ComposedQuestion
    <3> QED
      BY <3>1, <3>3 DEF Shaped
  <2>4. CASE Kind(x) \notin {"claim", "question"}
    BY <1>2, <2>1, <2>4 DEF Made
  <2> QED
    BY <2>2, <2>3, <2>4
<1> QED
  BY <1>1, <1>2

(* A blueprint holds what the author wrote, each entity once, and the      *)
(* blockers.                                                               *)
LEMMA ComposedEntities ==
    ASSUME NEW c, Shaped(c), NEW ctx, NEW b, b = Compose(c, ctx)
    PROVE  Entities(b) = {Made(x, ctx) : x \in Entities(c)} \cup Blockers(ctx, b.claims)
<1>1. {ComposedClaim(x, ctx) : x \in c.claims} = {Made(x, ctx) : x \in c.claims}
  BY Kinds DEF Made
<1>2. {ComposedQuestion(x) : x \in c.unresolved} = {Made(x, ctx) : x \in c.unresolved}
  BY Kinds DEF Made
<1>3. \A x \in c.contracts \cup c.families \cup c.evidence : Made(x, ctx) = x
  BY Kinds DEF Made
<1>4. Entities(b) = {Made(x, ctx) : x \in c.claims} \cup (c.contracts \cup c.families
                       \cup c.evidence) \cup {Made(x, ctx) : x \in c.unresolved}
                    \cup Blockers(ctx, b.claims)
  <2>1. Entities(b) = b.claims \cup b.contracts \cup b.families \cup b.evidence
                      \cup b.unresolved
    BY DEF Entities
  <2>2. /\ b.claims = {Made(x, ctx) : x \in c.claims}
        /\ b.contracts = c.contracts /\ b.families = c.families /\ b.evidence = c.evidence
        /\ b.unresolved = {Made(x, ctx) : x \in c.unresolved} \cup Blockers(ctx, b.claims)
    BY <1>1, <1>2, Parts
  <2> QED
    BY <2>1, <2>2
<1> QED
  BY <1>3, <1>4 DEF Entities

LEMMA SameDuplicates ==
    ASSUME NEW c, Shaped(c), NEW ctx \in Context, NEW b, b = Compose(c, ctx),
           \A x \in Entities(c) : ~Reserved(x.id)
    PROVE  DuplicateId(b) <=> DuplicateId(c)
<1> DEFINE blockers == Blockers(ctx, b.claims)
<1>1. Entities(b) = {Made(x, ctx) : x \in Entities(c)} \cup blockers
  BY ComposedEntities
<1>2. \A u \in blockers :
         /\ Reserved(u.id) /\ (\A v \in blockers : v.id = u.id => v = u)
         /\ \E m \in ctx.missing : u.id = BlockerId(m.fact)
  BY BlockersAre
<1>3. \A x \in Entities(c) : /\ Made(x, ctx).id = x.id
                             /\ \A y \in Entities(c) : Made(y, ctx) = Made(x, ctx) => y = x
  BY MadeKeeps
<1>4. TrustedIds(c) = {}
  BY DEF Shaped, TrustedIds
<1>5. TrustedIds(b) = {RequirementId(r.name) : r \in ctx.requirements}
  BY Parts DEF TrustedIds
<1> HIDE DEF blockers
<1>6. \A x \in Entities(b) : x.id \notin TrustedIds(b)
  <2> SUFFICES ASSUME NEW x \in Entities(b), NEW r \in ctx.requirements,
                      x.id = RequirementId(r.name)
               PROVE  FALSE
    BY <1>5
  <2>1. Reserved(x.id)
    BY ContextAssumption
  <2>2. x \in blockers
    BY <1>1, <1>3, <2>1
  <2> QED
    BY <1>2, <2>2 DEF BlockerId, RequirementId
<1>7. ASSUME NEW x \in Entities(b), NEW y \in Entities(b), x # y, x.id = y.id
      PROVE  DuplicateId(c)
  <2>1. CASE x \in blockers \/ y \in blockers
    BY <1>1, <1>2, <1>3, <1>7, <2>1
  <2>2. CASE ~ (x \in blockers \/ y \in blockers)
    <3>1. PICK x0 \in Entities(c) : x = Made(x0, ctx)
      BY <1>1, <2>2
    <3>2. PICK y0 \in Entities(c) : y = Made(y0, ctx)
      BY <1>1, <2>2
    <3> QED
      BY <1>3, <1>7, <3>1, <3>2 DEF DuplicateId
  <2> QED
    BY <2>1, <2>2
<1>8. ASSUME NEW x \in Entities(c), NEW y \in Entities(c), x # y, x.id = y.id
      PROVE  DuplicateId(b)
  <2>1. Made(x, ctx) \in Entities(b) /\ Made(y, ctx) \in Entities(b)
    BY <1>1
  <2>2. Made(x, ctx) # Made(y, ctx) /\ Made(x, ctx).id = Made(y, ctx).id
    BY <1>3, <1>8
  <2> QED
    BY <2>1, <2>2 DEF DuplicateId
<1>9. DuplicateId(b) => DuplicateId(c)
  BY <1>6, <1>7 DEF DuplicateId
<1>10. DuplicateId(c) => DuplicateId(b)
  BY <1>4, <1>8 DEF DuplicateId
<1> QED
  BY <1>9, <1>10

(* The claims of a blueprint are those of the candidate, one for one.      *)
LEMMA ComposedClaims ==
    ASSUME NEW c, Shaped(c), NEW ctx, NEW b, b = Compose(c, ctx)
    PROVE  /\ \A x \in c.claims : \E y \in b.claims :
                 /\ y = ComposedClaim(x, ctx)
                 /\ y.id = x.id /\ y.requirement = x.requirement /\ y.type = x.type
                 /\ y.evidence = x.evidence /\ y.flags = Flags(x, ctx)
           /\ \A y \in b.claims : \E x \in c.claims :
                 /\ y = ComposedClaim(x, ctx)
                 /\ y.id = x.id /\ y.requirement = x.requirement /\ y.type = x.type
                 /\ y.evidence = x.evidence /\ y.flags = Flags(x, ctx)
           /\ \A x, y \in c.claims : ComposedClaim(x, ctx) = ComposedClaim(y, ctx) => x = y
           /\ IdsOf(b.claims) = IdsOf(c.claims)
<1>1. b.claims = {ComposedClaim(x, ctx) : x \in c.claims}
  BY Parts
<1>2. \A x : /\ ComposedClaim(x, ctx).id = x.id
             /\ ComposedClaim(x, ctx).requirement = x.requirement
             /\ ComposedClaim(x, ctx).type = x.type
             /\ ComposedClaim(x, ctx).evidence = x.evidence
             /\ ComposedClaim(x, ctx).flags = Flags(x, ctx)
  BY DEF ComposedClaim
<1>3. ASSUME NEW x \in c.claims, NEW y \in c.claims,
             ComposedClaim(x, ctx) = ComposedClaim(y, ctx)
      PROVE  x = y
  <2>1. x.id = y.id /\ x.requirement = y.requirement /\ x.type = y.type
        /\ x.evidence = y.evidence
    BY <1>2, <1>3
  <2> QED
    BY <2>1 DEF Shaped
<1>4. IdsOf(b.claims) = IdsOf(c.claims)
  BY <1>1, <1>2 DEF IdsOf
<1> QED
  BY <1>1, <1>2, <1>3, <1>4

(* The questions of a blueprint are the author's and the blockers.         *)
LEMMA ComposedQuestions ==
    ASSUME NEW c, NEW ctx, NEW b, b = Compose(c, ctx)
    PROVE  /\ \A u \in c.unresolved : \E v \in b.unresolved :
                 v.field = u.field /\ v.blocking = u.blocking /\ v.claims = u.claims
           /\ \A v \in b.unresolved :
                 \/ v \in Blockers(ctx, b.claims)
                 \/ \E u \in c.unresolved :
                       /\ v.id = u.id /\ v.field = u.field /\ v.blocking = u.blocking
                       /\ v.claims = u.claims /\ v.origin = "AUTHOR"
           /\ Blockers(ctx, b.claims) \subseteq b.unresolved
<1>1. b.unresolved = {ComposedQuestion(u) : u \in c.unresolved} \cup Blockers(ctx, b.claims)
  BY Parts
<1>2. \A u : /\ ComposedQuestion(u).id = u.id /\ ComposedQuestion(u).field = u.field
             /\ ComposedQuestion(u).blocking = u.blocking
             /\ ComposedQuestion(u).claims = u.claims /\ ComposedQuestion(u).origin = "AUTHOR"
  BY DEF ComposedQuestion
<1> QED
  BY <1>1, <1>2

(* Each rule finds in the blueprint what it finds in the candidate.        *)
LEMMA SameReferences ==
    ASSUME NEW c, Shaped(c), NEW ctx \in Context, NEW b, b = Compose(c, ctx)
    PROVE  BrokenReference(b) <=> BrokenReference(c)
<1> DEFINE loose(bp, xs) == \E x \in xs : ~ x.claims \subseteq IdsOf(bp.claims)
           open(bp) == \E x \in bp.claims : ~ x.evidence \subseteq IdsOf(bp.evidence)
           rest(bp) == \/ loose(bp, bp.contracts) \/ loose(bp, bp.evidence)
                       \/ \E x \in bp.families \cup bp.evidence :
                             ~ x.contracts \subseteq IdsOf(bp.contracts)
                       \/ \E x \in bp.contracts : ~ x.evidence \subseteq IdsOf(bp.evidence)
<1>1. \A bp : BrokenReference(bp) <=> rest(bp) \/ loose(bp, bp.unresolved) \/ open(bp)
  BY DEF BrokenReference
<1>2. /\ b.contracts = c.contracts /\ b.families = c.families /\ b.evidence = c.evidence
      /\ IdsOf(b.claims) = IdsOf(c.claims)
  BY Parts, ComposedClaims
<1>3. rest(b) <=> rest(c)
  BY <1>2
<1>4. open(b) <=> open(c)
  BY <1>2, ComposedClaims
<1>5. loose(b, b.unresolved) <=> loose(c, c.unresolved)
  <2>1. \A u \in Blockers(ctx, b.claims) : u.claims \subseteq IdsOf(b.claims)
    BY BlockersAre
  <2> QED
    BY <1>2, <2>1, ComposedQuestions
<1> QED
  BY <1>1, <1>3, <1>4, <1>5

LEMMA SameEvidenceRules ==
    ASSUME NEW c, Shaped(c), NEW ctx, NEW b, b = Compose(c, ctx)
    PROVE  /\ EvidenceLinkMismatch(b) <=> EvidenceLinkMismatch(c)
           /\ EvidenceEndpointMissing(b) <=> EvidenceEndpointMissing(c)
           /\ AssessmentUnfounded(b) <=> AssessmentUnfounded(c)
<1>1. b.contracts = c.contracts /\ b.evidence = c.evidence
  BY Parts
<1>2. (\E x \in b.claims, e \in b.evidence : (e.id \in x.evidence) # (x.id \in e.claims))
      <=> \E x \in c.claims, e \in c.evidence : (e.id \in x.evidence) # (x.id \in e.claims)
  BY <1>1, ComposedClaims
<1>3. EvidenceLinkMismatch(b) <=> EvidenceLinkMismatch(c)
  BY <1>1, <1>2 DEF EvidenceLinkMismatch
<1> QED
  BY <1>1, <1>3 DEF EvidenceEndpointMissing, AssessmentUnfounded

LEMMA SameTrustedRules ==
    ASSUME NEW c, Shaped(c), NEW ctx, NEW b, b = Compose(c, ctx)
    PROVE  /\ TrustedClaimCardinality(b, ctx) <=> TrustedClaimCardinality(c, ctx)
           /\ TrustedClaimTypeMismatch(b, ctx) <=> TrustedClaimTypeMismatch(c, ctx)
           /\ RequiredEvidence(b, ctx) <=> RequiredEvidence(c, ctx)
<1>1. ASSUME NEW r
      PROVE  /\ \A x \in ClaimsFor(c, r) : \E y \in ClaimsFor(b, r) :
                    y = ComposedClaim(x, ctx) /\ y.type = x.type /\ y.evidence = x.evidence
             /\ \A y \in ClaimsFor(b, r) : \E x \in ClaimsFor(c, r) :
                    y = ComposedClaim(x, ctx) /\ y.type = x.type /\ y.evidence = x.evidence
  BY ComposedClaims DEF ClaimsFor
<1>2. ASSUME NEW r
      PROVE  (\E y \in b.claims : ClaimsFor(b, r) = {y})
             <=> \E x \in c.claims : ClaimsFor(c, r) = {x}
  <2>1. \A x, y \in c.claims : ComposedClaim(x, ctx) = ComposedClaim(y, ctx) => x = y
    BY ComposedClaims
  <2>2. ClaimsFor(c, r) \subseteq c.claims /\ ClaimsFor(b, r) \subseteq b.claims
    BY DEF ClaimsFor
  <2>3. ASSUME NEW y \in b.claims, ClaimsFor(b, r) = {y}
        PROVE  \E x \in c.claims : ClaimsFor(c, r) = {x}
    <3>1. PICK x \in ClaimsFor(c, r) : y = ComposedClaim(x, ctx)
      BY <1>1, <2>3
    <3>2. \A z \in ClaimsFor(c, r) : z = x
      BY <1>1, <2>1, <2>2, <2>3, <3>1
    <3> QED
      BY <2>2, <3>1, <3>2
  <2>4. ASSUME NEW x \in c.claims, ClaimsFor(c, r) = {x}
        PROVE  \E y \in b.claims : ClaimsFor(b, r) = {y}
    <3>1. PICK y \in ClaimsFor(b, r) : y = ComposedClaim(x, ctx)
      BY <1>1, <2>4
    <3>2. \A z \in ClaimsFor(b, r) : z = y
      BY <1>1, <2>4, <3>1
    <3> QED
      BY <2>2, <3>1, <3>2
  <2> QED
    BY <2>3, <2>4
<1>3. b.evidence = c.evidence
  BY Parts
<1>4. TrustedClaimCardinality(b, ctx) <=> TrustedClaimCardinality(c, ctx)
  BY <1>2 DEF TrustedClaimCardinality
<1>5. TrustedClaimTypeMismatch(b, ctx) <=> TrustedClaimTypeMismatch(c, ctx)
  BY <1>1 DEF TrustedClaimTypeMismatch
<1>6. RequiredEvidence(b, ctx) <=> RequiredEvidence(c, ctx)
  <2> DEFINE bad(x) == x.evidence = {} \/ \E e \in c.evidence : e.id \in x.evidence /\ ~e.mandatory
  <2>1. \A r : (\E y \in ClaimsFor(b, r) : bad(y)) <=> (\E x \in ClaimsFor(c, r) : bad(x))
    BY <1>1
  <2>2. \A bp : bp.evidence = c.evidence =>
           (RequiredEvidence(bp, ctx) <=>
            \E r \in ctx.requirements : (r.mandatory \/ r.critical)
                                       /\ \E x \in ClaimsFor(bp, r) : bad(x))
    BY DEF RequiredEvidence
  <2> HIDE DEF bad
  <2> QED
    BY <1>3, <2>1, <2>2
<1> QED
  BY <1>4, <1>5, <1>6

LEMMA SameSections ==
    ASSUME NEW c, Shaped(c), NEW ctx \in Context, NEW b, b = Compose(c, ctx)
    PROVE  RequiredSectionEmpty(b) <=> RequiredSectionEmpty(c)
<1>1. EmptySections(b) = EmptySections(c)
  <2>1. b.claims = {} <=> c.claims = {}
    BY ComposedClaims
  <2> QED
    BY <2>1, Parts DEF EmptySections
<1>2. EmptySections(c) \subseteq Sections
  BY DEF EmptySections, Shaped, Sections
<1>3. ASSUME NEW s \in Sections PROVE IsBlocked(b, s) <=> IsBlocked(c, s)
  <2>1. \A u \in Blockers(ctx, b.claims) : u.field # s
    BY BlockersAre
  <2> QED
    BY <2>1, ComposedQuestions DEF IsBlocked
<1> QED
  BY <1>1, <1>2, <1>3 DEF RequiredSectionEmpty

LEMMA SameDiagnostics ==
    ASSUME NEW c, Shaped(c), NEW ctx \in Context, NEW b, b = Compose(c, ctx),
           \A x \in Entities(c) : ~Reserved(x.id)
    PROVE  Diagnostics(b, ctx) = Diagnostics(c, ctx)
<1> DEFINE rules(bp) == [DUPLICATE_ID |-> DuplicateId(bp),
                  BROKEN_REFERENCE |-> BrokenReference(bp),
                  EVIDENCE_LINK_MISMATCH |-> EvidenceLinkMismatch(bp),
                  EVIDENCE_ENDPOINT_MISSING |-> EvidenceEndpointMissing(bp),
                  ASSESSMENT_OBSERVATION_MISSING |-> AssessmentUnfounded(bp),
                  TRUSTED_CLAIM_CARDINALITY |-> TrustedClaimCardinality(bp, ctx),
                  TRUSTED_CLAIM_TYPE_MISMATCH |-> TrustedClaimTypeMismatch(bp, ctx),
                  REQUIRED_EVIDENCE |-> RequiredEvidence(bp, ctx),
                  REQUIRED_SECTION_EMPTY |-> RequiredSectionEmpty(bp)]
<1>1. /\ DuplicateId(b) <=> DuplicateId(c)
      /\ BrokenReference(b) <=> BrokenReference(c)
      /\ RequiredSectionEmpty(b) <=> RequiredSectionEmpty(c)
  BY SameDuplicates, SameReferences, SameSections
<1>2. /\ EvidenceLinkMismatch(b) <=> EvidenceLinkMismatch(c)
      /\ EvidenceEndpointMissing(b) <=> EvidenceEndpointMissing(c)
      /\ AssessmentUnfounded(b) <=> AssessmentUnfounded(c)
  BY SameEvidenceRules
<1>3. /\ TrustedClaimCardinality(b, ctx) <=> TrustedClaimCardinality(c, ctx)
      /\ TrustedClaimTypeMismatch(b, ctx) <=> TrustedClaimTypeMismatch(c, ctx)
      /\ RequiredEvidence(b, ctx) <=> RequiredEvidence(c, ctx)
  BY SameTrustedRules
<1>4. /\ DOMAIN rules(b) = DOMAIN rules(c)
      /\ \A code \in DOMAIN rules(c) : rules(b)[code] <=> rules(c)[code]
  BY <1>1, <1>2, <1>3
<1>5. \A bp : Diagnostics(bp, ctx) = {code \in DOMAIN rules(bp) : rules(bp)[code]}
  BY DEF Diagnostics
<1> HIDE DEF rules
<1> QED
  BY <1>4, <1>5

(* What was derived when the blueprint was composed is derived again when  *)
(* it is read.                                                             *)
LEMMA DerivedAgain ==
    ASSUME NEW c, Shaped(c), NEW ctx \in Context, NEW b, b = Compose(c, ctx), Usable(c, ctx)
    PROVE  BlockersIntact(b) /\ ClaimsIntact(b)
<1>1. ContextOf(b) = ctx /\ b.trusted = ctx.requirements
  BY ComposedContext, Parts
<1>2. BlockersIntact(b)
  <2>1. \A u \in Blockers(ctx, b.claims) : u.origin = "SYSTEM"
    BY BlockersAre
  <2>2. ASSUME NEW v \in b.unresolved, v.origin = "SYSTEM" \/ Reserved(v.id)
        PROVE  v \in Blockers(ctx, b.claims)
    BY <2>2, ComposedQuestions DEF Usable, Entities
  <2>3. {u \in b.unresolved : u.origin = "SYSTEM" \/ Reserved(u.id)} = Blockers(ctx, b.claims)
    BY <2>1, <2>2, ComposedQuestions
  <2> QED
    BY <1>1, <2>3 DEF BlockersIntact
<1>3. ASSUME NEW y \in b.claims
      PROVE  /\ y.requirement # None => \E r \in b.trusted : r.name = y.requirement
             /\ y.flags = Flags(y, ContextOf(b))
  <2>1. PICK x \in c.claims : y.requirement = x.requirement /\ y.flags = Flags(x, ctx)
    BY ComposedClaims
  <2> QED
    BY <1>1, <2>1 DEF Usable, Flags
<1> QED
  BY <1>2, <1>3 DEF ClaimsIntact

(* The schema of composed blueprints accepts what was composed of a        *)
(* candidate, if the run is labelled and no question of the candidate      *)
(* concerns something the system names.                                    *)
LEMMA ComposedIsShaped ==
    ASSUME NEW c, Shaped(c), NEW ctx \in Context, Usable(c, ctx), labelled,
           \A u \in c.unresolved : NamesOwn(u.claims),
           NEW b, b.content = Compose(c, ctx), b.labelled = labelled
    PROVE  ComposedShape(b)
<1> DEFINE content == Compose(c, ctx)
<1>1. /\ content.evidence = c.evidence
      /\ IdsOf(content.claims) = IdsOf(c.claims)
  BY Parts, ComposedClaims
<1>2. ASSUME NEW y \in content.claims
      PROVE  ~Reserved(y.id) /\ NamesOwn(y.evidence)
  <2>1. PICK x \in c.claims : y.id = x.id /\ y.evidence = x.evidence
    BY ComposedClaims
  <2> QED
    BY <2>1 DEF Usable, Entities, Shaped
<1>3. ASSUME NEW x \in content.evidence
      PROVE  ~Reserved(x.id) /\ NamesOwn(x.claims \cup x.contracts)
  BY <1>1 DEF Usable, Entities, Shaped
<1>4. ASSUME NEW v \in content.unresolved PROVE NamesOwn(v.claims)
  <2>1. CASE v \in Blockers(ctx, content.claims)
    <3>1. v.claims \subseteq IdsOf(c.claims)
      BY <1>1, <2>1, BlockersAre
    <3> QED
      BY <3>1 DEF NamesOwn, IdsOf, Usable, Entities
  <2>2. CASE v \notin Blockers(ctx, content.claims)
    BY <2>2, ComposedQuestions
  <2> QED
    BY <2>1, <2>2
<1> QED
  BY <1>2, <1>3, <1>4 DEF ComposedShape

(* Every usable candidate of a labelled run becomes a valid blueprint, if  *)
(* none of its questions concerns something the system names               *)
(* (composeProtocolV3Candidate, validateComposedEvaluationBlueprint).      *)
THEOREM UsableComposes ==
    ASSUME NEW c, Shaped(c), Usable(c, sent), sent \in Context, ContextValid(sent),
           labelled, \A u \in c.unresolved : NamesOwn(u.claims)
    PROVE  BlueprintValid(Composed(c))
<1> DEFINE content == Compose(c, sent)
           state == Lifecycle(Diagnostics(c, sent), content.unresolved)
<1>1. /\ Composed(c).content = content /\ Composed(c).state = state
      /\ Composed(c).context = sent /\ Composed(c).labelled = labelled
      /\ Composed(c).id = [content |-> content, context |-> sent,
                            packet |-> Composed(c).packet]
  BY DEF Composed, Blueprint, Trusted
<1>2. ContextOf(content) = sent
  BY ComposedContext
<1>3. Diagnostics(content, sent) = Diagnostics(c, sent)
  BY SameDiagnostics DEF Usable
<1>4. BlockersIntact(content) /\ ClaimsIntact(content)
  BY DerivedAgain
<1>5. state = "DRAFT" \/ Diagnostics(c, sent) = {}
  BY DEF Lifecycle
<1>6. ComposedShape(Composed(c))
  BY <1>1, ComposedIsShaped
<1> HIDE DEF content
<1> QED
  BY <1>1, <1>2, <1>3, <1>4, <1>5, <1>6 DEF BlueprintValid

(* What a run was given stays.                                             *)
LEMMA GivenStays ==
    ASSUME [Next]_vars
    PROVE  protocol' = protocol /\ labelled' = labelled /\ answer' = answer
BY DEF Next, Author, Start, Return, ReadJournal, Decide, Reread, Settle, Proxy, StartProxy,
       RecordStart, Emit, Relay, ObserveSignal, Exit, Leave, Interrupt, Others, ChangeContext,
       Edit, provider, vars

LEMMA CompositionStep ==
    ASSUME RunInvariant, RefusedWithCause, [Next]_vars
    PROVE  RefusedWithCause'
<1> DEFINE named == \E u \in answer.unresolved : ~NamesOwn(u.claims)
<1>a. RefusedWithCause <=>
         (result = Error("COMPOSED_BLUEPRINT_INVALID") => ~labelled \/ (protocol = 3 /\ named))
  BY Zenon DEF RefusedWithCause
<1>b. RefusedWithCause' <=>
         (result' = Error("COMPOSED_BLUEPRINT_INVALID") =>
             ~labelled' \/ (protocol' = 3 /\ named'))
  BY Zenon DEF RefusedWithCause
<1>c. protocol' = protocol /\ labelled' = labelled /\ answer' = answer
  BY GivenStays
<1>d. named' <=> named
  BY <1>c
<1> SUFFICES ASSUME result' = Error("COMPOSED_BLUEPRINT_INVALID"), labelled,
                    ~(protocol = 3 /\ named)
             PROVE  FALSE
  <2> HIDE DEF named
  <2> QED
    BY <1>b, <1>c, <1>d, Zenon
<1>0. TypeOK /\ StepsHeld
  BY DEF RunInvariant
<1>1. result'.status = "ERROR"
  BY DEF Error
<1>2. pc = "deciding" /\ result' = Decided
  <2>1. UNCHANGED result \/ (pc = "deciding" /\ result' = Decided)
    BY <1>0, <1>1, ResultIsDecided
  <2>2. result # result'
    BY <1>a
  <2> QED
    BY <2>1, <2>2
<1>3. /\ ending = "OUTPUT" /\ answer # NoText /\ protocol = 3
      /\ IsUsable(answer) /\ ~BlueprintValid(Composed(answer))
  BY <1>2 DEF Decided, Error
<1>4. answer \in Candidate /\ sent \in Context /\ ContextValid(sent)
  BY <1>0, <1>2, <1>3 DEF TypeOK, StepsHeld
<1>5. Usable(answer, sent)
  BY <1>3 DEF IsUsable, Trusted
<1>6. Shaped(answer)
  BY <1>4, <1>5, CandidateAssumption DEF Usable
<1> QED
  BY <1>3, <1>4, <1>5, <1>6, UsableComposes

(* A usable answer is refused after it was composed for the two reasons    *)
(* only (validateComposedEvaluationBlueprint).                             *)
THEOREM Composition == Spec => []RefusedWithCause
<1>1. Init => RefusedWithCause
  BY DEF Init, Unfinished, RefusedWithCause, Error
<1>2. RunInvariant /\ RefusedWithCause /\ [Next]_vars => RefusedWithCause'
  BY CompositionStep
<1> QED
  BY <1>1, <1>2, RunAtFirst, RunStep, PTL DEF Spec
=============================================================================
