-------------------------- MODULE OperabilityRunner --------------------------
(***************************************************************************)
(* The one-call canary: src/qualification/author-operability.ts.            *)
(*                                                                          *)
(* Runners are operating-system processes that were given the same frozen   *)
(* campaign.  A runner compares the campaign with what it derives from the  *)
(* skill directory, reserves the campaign, reads the skill directory again, *)
(* calls the provider once, classifies the result by the policy of the      *)
(* campaign, and writes the collection and then the terminal receipt.  When *)
(* that fails it writes a fallback collection to the same path.             *)
(***************************************************************************)
EXTENDS AuthorCampaign

CONSTANTS Runner,    \* processes started on the campaign
          Version,   \* what the skill directory can hold
          Frozen,    \* the version the campaign was prepared with
          NoRunner,  \* the mark of a file no runner created
          NoVersion  \* no version read

ASSUME FrozenAssumption == Frozen \in Version
ASSUME NoRunnerAssumption == NoRunner \notin Runner
ASSUME NoVersionAssumption == NoVersion \notin Version

VARIABLES
  policy,       \* the policy of the campaign's profile
  skill,        \* what the skill directory holds now
  pc,           \* pc[r]: the await at which r stands
  invocations,  \* invocations[r]: providerInvocations
  outcome,      \* outcome[r]: operabilityOutcome
  decision,     \* decision[r]: viabilityDecision or comparisonConclusion
  persisted,    \* persisted[r]: collectionPersisted
  reservation, collection, receipt,   \* the three files of the campaign
  \* History, which no guard reads:
  holder,       \* the runner that created the reservation
  calls,        \* provider invocations started
  sent,         \* the version of the skill in the packet that was sent
  answered      \* what the provider answered

verdict == <<outcome, decision>>
files == <<reservation, collection, receipt>>
history == <<holder, calls, sent, answered>>
vars == <<policy, skill, pc, invocations, verdict, persisted, files, history>>

\* How the run of the Author ends: a blueprint within the time limit that is
\* BLOCKED, that shows the shared evidence failure, or that has another
\* lifecycle; a blueprint too late; a timeout of the Promptfoo step or of
\* another owner; an answer that is no blueprint; another provider error.
Answers == {"BLOCKED", "SHARED_FAILURE", "NOT_BLOCKED", "LATE", "STEP_TIMEOUT",
            "OTHER_TIMEOUT", "INVALID_OUTPUT", "PROVIDER_ERROR"}

Steps == {"START", "INSPECT", "RESERVE", "RECORD", "SNAPSHOT", "AWAIT", "COLLECT",
          "COLLECT_WRITE", "CATCH", "FALLBACK", "FALLBACK_WRITE", "RECEIPT",
          "RECEIPT_WRITE", "DONE", "REFUSED", "THROWN", "KILLED"}

Init ==
  /\ policy \in Policies
  /\ skill \in Version
  /\ pc = [r \in Runner |-> "START"]
  /\ invocations = [r \in Runner |-> 0]
  /\ outcome = [r \in Runner |-> "INSUFFICIENT"]
  /\ decision = [r \in Runner |-> "NONE"]
  /\ persisted = [r \in Runner |-> FALSE]
  /\ reservation = "ABSENT"
  /\ collection = Blank("ABSENT") /\ receipt = Blank("ABSENT")
  /\ holder = NoRunner /\ calls = 0 /\ sent = NoVersion /\ answered = "NONE"

Goto(r, from, to) == pc[r] = from /\ pc' = [pc EXCEPT ![r] = to]

-----------------------------------------------------------------------------
(* Up to the reservation. *)

Refuse(r, from) ==
  /\ Goto(r, from, "REFUSED")
  /\ UNCHANGED <<policy, skill, invocations, verdict, persisted, files, history>>

\* Approval of 1, a preflight of this campaign and commit that is ready (it
\* found no reservation, receipt or output), the clean expected commit.
PassChecks(r) ==
  /\ Goto(r, "START", "INSPECT")
  /\ UNCHANGED <<policy, skill, invocations, verdict, persisted, files, history>>

\* inspectAuthorOperabilityCampaign derives the fingerprints of the skill
\* directory as it is now; they are those of the campaign.
PassInspection(r) ==
  /\ skill = Frozen
  /\ Goto(r, "INSPECT", "RESERVE")
  /\ UNCHANGED <<policy, skill, invocations, verdict, persisted, files, history>>

\* OPERABILITY_APPROVAL_REQUIRED, _PREFLIGHT_BLOCKED, _COMMIT_DRIFT and
\* _IDENTITY_DRIFT, or the reservation exists or cannot be created.
FailChecks(r) == Refuse(r, "START") \/ Refuse(r, "INSPECT") \/ Refuse(r, "RESERVE")

AlwaysCreates(state) == TRUE

\* open(path, 'wx')
ExclusiveCreates(state) == state = "ABSENT"

OpenReservation(r) ==
  /\ ExclusiveCreates(reservation)
  /\ Goto(r, "RESERVE", "RECORD")
  /\ reservation' = "PARTIAL"
  /\ holder' = r
  /\ UNCHANGED <<policy, skill, invocations, verdict, persisted, collection, receipt,
                 calls, sent, answered>>

WriteReservation(r) ==
  /\ Goto(r, "RECORD", "SNAPSHOT")
  /\ reservation' = "WRITTEN"
  /\ UNCHANGED <<policy, skill, invocations, verdict, persisted, collection, receipt, history>>

\* Before the try block: the campaign stays reserved, the error is thrown on.
FailReservation(r) ==
  /\ Goto(r, "RECORD", "THROWN")
  /\ UNCHANGED <<policy, skill, invocations, verdict, persisted, files, history>>

-----------------------------------------------------------------------------
(* The try block. *)

\* createSkillSnapshot reads the skill directory once more; the packet made
\* of it is sent without another comparison.
Invoke(r) ==
  /\ Goto(r, "SNAPSHOT", "AWAIT")
  /\ invocations' = [invocations EXCEPT ![r] = 1]
  /\ calls' = calls + 1
  /\ sent' = skill
  /\ UNCHANGED <<policy, skill, verdict, persisted, files, holder, answered>>

FailSnapshot(r) ==
  /\ Goto(r, "SNAPSHOT", "CATCH")
  /\ UNCHANGED <<policy, skill, invocations, verdict, persisted, files, history>>

\* operabilityOutcome; the historical policy asks whose timeout it was.
OutcomeOf(a) ==
  CASE a \in {"BLOCKED", "SHARED_FAILURE", "NOT_BLOCKED"} -> "COMPLETED"
    [] a \in {"LATE", "STEP_TIMEOUT"} -> "NOT_COMPLETED"
    [] a = "OTHER_TIMEOUT" ->
         IF policy = "HISTORICAL_OPERABILITY" THEN "INSUFFICIENT" ELSE "NOT_COMPLETED"
    [] a \in {"INVALID_OUTPUT", "PROVIDER_ERROR"} -> "INSUFFICIENT"

AcceptsLateAnswer(a) == IF a \in {"BLOCKED", "LATE"} THEN "PENDING" ELSE "NOT_PASSED"

\* viabilityDecision and comparisonConclusion, of which at most one is not null.
DecisionOf(a) ==
  CASE policy = "HISTORICAL_OPERABILITY" -> "NONE"
    [] policy # "HISTORICAL_OPERABILITY" /\ a = "BLOCKED" -> "PENDING"
    [] policy = "TERRA_CONTRAST" /\ a = "SHARED_FAILURE" -> "SHARED"
    [] policy # "HISTORICAL_OPERABILITY" /\ a = "PROVIDER_ERROR" -> "INSUFFICIENT"
    [] OTHER -> "NOT_PASSED"

RetriesProviderError(r) ==
  /\ Goto(r, "AWAIT", "SNAPSHOT") /\ calls < 2
  /\ UNCHANGED <<policy, skill, invocations, verdict, persisted, files, history>>

\* authorEvaluationBlueprint returns, and its result is classified.
Receive(r) ==
  /\ Goto(r, "AWAIT", "COLLECT")
  /\ \E a \in Answers :
       /\ answered' = a
       /\ outcome' = [outcome EXCEPT ![r] = OutcomeOf(a)]
       /\ decision' = [decision EXCEPT ![r] = DecisionOf(a)]
  /\ UNCHANGED <<policy, skill, invocations, persisted, files, holder, calls, sent>>

Content(r) == Result("WRITTEN", invocations[r], outcome[r], decision[r])

OpenCollection(r) ==
  /\ ExclusiveCreates(collection.state)
  /\ Goto(r, "COLLECT", "COLLECT_WRITE")
  /\ collection' = Blank("PARTIAL")
  /\ UNCHANGED <<policy, skill, invocations, verdict, persisted, reservation, receipt, history>>

FailOpenCollection(r) ==
  /\ Goto(r, "COLLECT", "CATCH")
  /\ UNCHANGED <<policy, skill, invocations, verdict, persisted, files, history>>

WriteCollection(r) ==
  /\ Goto(r, "COLLECT_WRITE", "RECEIPT")
  /\ collection' = Content(r)
  /\ persisted' = [persisted EXCEPT ![r] = TRUE]
  /\ UNCHANGED <<policy, skill, invocations, verdict, reservation, receipt, history>>

\* writeFile fails half way, or close fails after all of it was written.
FailCollection(r) ==
  /\ Goto(r, "COLLECT_WRITE", "CATCH")
  /\ collection' \in {Blank("PARTIAL"), Content(r)}
  /\ UNCHANGED <<policy, skill, invocations, verdict, persisted, reservation, receipt, history>>

-----------------------------------------------------------------------------
(* The catch block, and the receipt. *)

\* An outcome that was measured stays; a decision does not.
Catch(r) ==
  /\ Goto(r, "CATCH", "FALLBACK")
  /\ outcome' = [outcome EXCEPT ![r] = IF invocations[r] = 0 THEN "INVALIDATED" ELSE @]
  /\ decision' = [decision EXCEPT ![r] =
       IF policy = "HISTORICAL_OPERABILITY" THEN @ ELSE "INSUFFICIENT"]
  /\ UNCHANGED <<policy, skill, invocations, persisted, files, history>>

\* writeFile(collectionPath, ..., { flag: 'wx' }): it meets whatever the try
\* block left at the same path.
OpenFallback(r) ==
  /\ ExclusiveCreates(collection.state)
  /\ Goto(r, "FALLBACK", "FALLBACK_WRITE")
  /\ collection' = Blank("PARTIAL")
  /\ UNCHANGED <<policy, skill, invocations, verdict, persisted, reservation, receipt, history>>

FailOpenFallback(r) ==
  /\ Goto(r, "FALLBACK", "RECEIPT")
  /\ UNCHANGED <<policy, skill, invocations, verdict, persisted, files, history>>

WriteFallback(r) ==
  /\ Goto(r, "FALLBACK_WRITE", "RECEIPT")
  /\ collection' = Content(r)
  /\ persisted' = [persisted EXCEPT ![r] = TRUE]
  /\ UNCHANGED <<policy, skill, invocations, verdict, reservation, receipt, history>>

ClaimsPersisted(r) ==
  /\ Goto(r, "FALLBACK", "RECEIPT") \/ Goto(r, "FALLBACK_WRITE", "RECEIPT")
  /\ persisted' = [persisted EXCEPT ![r] = TRUE]
  /\ UNCHANGED <<policy, skill, invocations, verdict, files, history>>

\* .catch(() => undefined)
FailFallback(r) ==
  /\ Goto(r, "FALLBACK_WRITE", "RECEIPT")
  /\ collection' \in {Blank("PARTIAL"), Content(r)}
  /\ UNCHANGED <<policy, skill, invocations, verdict, persisted, reservation, receipt, history>>

\* createExclusiveJson(receiptPath, ...)
OpenReceipt(r) ==
  /\ ExclusiveCreates(receipt.state)
  /\ Goto(r, "RECEIPT", "RECEIPT_WRITE")
  /\ receipt' = Blank("PARTIAL")
  /\ UNCHANGED <<policy, skill, invocations, verdict, persisted, reservation, collection, history>>

WriteReceipt(r) ==
  /\ Goto(r, "RECEIPT_WRITE", "DONE")
  /\ receipt' = Content(r)
  /\ UNCHANGED <<policy, skill, invocations, verdict, persisted, reservation, collection, history>>

\* writeFile fails half way, or close fails after all of it was written.
FailReceipt(r) ==
  /\ Goto(r, "RECEIPT", "THROWN") \/ Goto(r, "RECEIPT_WRITE", "THROWN")
  /\ receipt' \in {receipt} \cup IF pc[r] = "RECEIPT" THEN {} ELSE {Content(r)}
  /\ UNCHANGED <<policy, skill, invocations, verdict, persisted, reservation, collection, history>>

-----------------------------------------------------------------------------

Ended(r) == pc[r] \in {"DONE", "REFUSED", "THROWN", "KILLED"}

Kill(r) ==
  /\ ~Ended(r)
  /\ pc' = [pc EXCEPT ![r] = "KILLED"]
  /\ UNCHANGED <<policy, skill, invocations, verdict, persisted, files, history>>

\* Another program edits the skill directory.
Edit ==
  /\ skill' \in Version
  /\ UNCHANGED <<policy, pc, invocations, verdict, persisted, files, history>>

Reserving(r) ==
  \/ PassChecks(r) \/ PassInspection(r) \/ FailChecks(r) \/ OpenReservation(r)
  \/ WriteReservation(r) \/ FailReservation(r)

Collecting(r) ==
  \/ Invoke(r) \/ FailSnapshot(r) \/ Receive(r) \/ OpenCollection(r)
  \/ FailOpenCollection(r) \/ WriteCollection(r) \/ FailCollection(r)

Closing(r) ==
  \/ Catch(r) \/ OpenFallback(r) \/ FailOpenFallback(r) \/ WriteFallback(r)
  \/ FailFallback(r) \/ OpenReceipt(r) \/ WriteReceipt(r) \/ FailReceipt(r)

Run(r) == Reserving(r) \/ Collecting(r) \/ Closing(r)

Next == Edit \/ \E r \in Runner : Run(r) \/ Kill(r)

Spec == Init /\ [][Next]_vars

-----------------------------------------------------------------------------
(* Properties. *)

\* Every variable has its type.
TypeOK ==
  /\ policy \in Policies /\ skill \in Version
  /\ pc \in [Runner -> Steps]
  /\ invocations \in [Runner -> 0 .. 1]
  /\ outcome \in [Runner -> Outcomes] /\ decision \in [Runner -> Decisions]
  /\ persisted \in [Runner -> BOOLEAN]
  /\ reservation \in {"ABSENT", "PARTIAL", "WRITTEN"}
  /\ \A file \in {collection, receipt} :
       file \in [state : {"ABSENT", "PARTIAL", "WRITTEN"}, invocations : 0 .. 1,
                outcome : Outcomes, decision : Decisions]
  /\ holder \in Runner \cup {NoRunner} /\ calls \in 0 .. 1
  /\ sent \in Version \cup {NoVersion} /\ answered \in Answers \cup {"NONE"}

\* Both files that survive the campaign count the paid call that was made,
\* and INVALIDATED is said exactly of a campaign that was not paid for.
FilesCountTheCall ==
  \A file \in {collection, receipt} : file.state = "WRITTEN" =>
    /\ file.invocations = calls
    /\ (file.outcome = "INVALIDATED") <=> (calls = 0)

\* A receipt that says the collection was persisted agrees with it word for
\* word, whichever of the two writes it was that succeeded; and a campaign
\* whose collection is not known to be on disk is given no decision, whatever
\* the provider answered.
ReceiptMatchesCollection ==
  receipt.state = "WRITTEN" =>
    IF persisted[holder] THEN collection = receipt
    ELSE receipt.decision \in {"NONE", "INSUFFICIENT"}

\* What a review or a score may start from: the collection is one of those
\* they know; a pending decision rests on a blueprint that was BLOCKED and in
\* time, a negative one on a measurement.
DecisionIsMeasured ==
  /\ collection \in Collections(policy)
  /\ \A file \in {collection, receipt} :
    /\ file.decision = "PENDING" => answered = "BLOCKED" /\ file.outcome = "COMPLETED"
    /\ file.decision \in {"NOT_PASSED", "SHARED"} =>
         answered \notin {"NONE", "BLOCKED", "PROVIDER_ERROR"}
    /\ file.outcome = "NOT_COMPLETED" => answered \in {"LATE", "STEP_TIMEOUT", "OTHER_TIMEOUT"}

\* What makes these inductive.  A runner owns the campaign from its
\* reservation on, and one that does not own it has measured nothing.
Owning == Steps \ {"START", "INSPECT", "RESERVE", "REFUSED", "KILLED"}

OwnerHeld ==
  /\ \A r \in Runner :
       /\ pc[r] \in Owning => holder = r
       /\ pc[r] = "RECORD" => reservation = "PARTIAL"
       /\ IF holder = r THEN invocations[r] = calls
          ELSE /\ invocations[r] = 0 /\ ~persisted[r]
               /\ outcome[r] = "INSUFFICIENT" /\ decision[r] = "NONE"
  /\ reservation = "ABSENT" <=> holder = NoRunner
  /\ holder = NoRunner => /\ calls = 0 /\ answered = "NONE"
                          /\ collection = Blank("ABSENT") /\ receipt = Blank("ABSENT")

\* How far the measurement has come at each step of the runner: nothing is
\* measured before the call; a measured outcome stays, and its decision stays
\* unless the catch block withdraws it.
Undecided == IF policy = "HISTORICAL_OPERABILITY" THEN "NONE" ELSE "INSUFFICIENT"
Unmeasured(r) == answered = "NONE" /\ outcome[r] = "INSUFFICIENT" /\ decision[r] = "NONE"
Measured(r) == calls = 1 /\ answered \in Answers /\ outcome[r] = OutcomeOf(answered)

VerdictHeld ==
  \A r \in Runner :
    /\ pc[r] \in {"RECORD", "SNAPSHOT"} => Unmeasured(r) /\ calls = 0
    /\ pc[r] = "AWAIT" => Unmeasured(r) /\ calls = 1
    /\ pc[r] \in {"COLLECT", "COLLECT_WRITE"} => Measured(r) /\ decision[r] = DecisionOf(answered)
    /\ pc[r] = "CATCH" => \/ Measured(r) /\ decision[r] = DecisionOf(answered)
                          \/ Unmeasured(r) /\ calls = 0
    /\ pc[r] \in {"FALLBACK", "FALLBACK_WRITE", "RECEIPT", "RECEIPT_WRITE"} =>
         \/ Measured(r) /\ decision[r] \in {DecisionOf(answered), Undecided}
         \/ /\ calls = 0 /\ answered = "NONE"
            /\ outcome[r] = "INVALIDATED" /\ decision[r] = Undecided
    /\ pc[r] \in {"FALLBACK", "FALLBACK_WRITE"} => decision[r] = Undecided

\* What is on disk at each step, and what the runner knows of it.
DiskHeld ==
  /\ \A r \in Runner :
       /\ pc[r] \in {"RECORD", "SNAPSHOT", "AWAIT", "COLLECT"} => collection = Blank("ABSENT")
       /\ pc[r] \in {"COLLECT_WRITE", "FALLBACK_WRITE"} => collection = Blank("PARTIAL")
       /\ pc[r] \in Owning \ {"RECEIPT_WRITE", "DONE", "THROWN"} => receipt = Blank("ABSENT")
       /\ pc[r] = "RECEIPT_WRITE" => receipt = Blank("PARTIAL")
       /\ pc[r] \in {"RECEIPT", "RECEIPT_WRITE"} =>
            IF persisted[r] THEN collection = Content(r) ELSE decision[r] = Undecided
       /\ pc[r] \in Owning \ {"RECEIPT", "RECEIPT_WRITE", "DONE", "THROWN"} => ~persisted[r]
  /\ receipt.state = "WRITTEN" => holder \in Runner /\ pc[holder] \in {"DONE", "THROWN"}

\* Every variable has its type, the files agree with the call and with one
\* another, and everything holds that this and the next are proved from.
FilesAgree ==
  /\ TypeOK /\ FilesCountTheCall /\ ReceiptMatchesCollection
  /\ OwnerHeld /\ VerdictHeld /\ DiskHeld

\* No file of the campaign changes once it is whole: not by a second runner,
\* and not by the fallback of the runner that wrote it.
FilesAreFinal ==
  [][/\ reservation = "WRITTEN" => reservation' = reservation
     /\ collection.state = "WRITTEN" => collection' = collection
     /\ receipt.state = "WRITTEN" => receipt' = receipt]_vars

\* The campaign is reserved by one runner and its one call is made by it.
Budget ==
  INSTANCE InvocationBudget WITH
    Key <- {"campaign"}, Actor <- Runner, Nobody <- NoRunner,
    holder <- [k \in {"campaign"} |-> holder],
    spent <- [k \in {"campaign"} |-> calls]
ImplementsBudget == Budget!Spec

\* What the report says of a Luna campaign (author-viability-workflow.ts:262,
\* "applies only to ... the frozen locale-catalog packet"): the packet that was
\* sent was made of the skill the campaign was frozen with.
InvokesFrozenPacket ==
  policy = "LUNA_VIABILITY" /\ calls > 0 => sent = Frozen
=============================================================================
