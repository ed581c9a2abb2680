-------------------------- MODULE ViabilityWorkflow --------------------------
(***************************************************************************)
(* The review of a canary whose decision is pending:                        *)
(* src/qualification/author-viability-workflow.ts, author-viability-review.ts *)
(* and the three commands prepare-author-viability-review,                  *)
(* prepare-author-viability-resolution and score-author-viability.          *)
(*                                                                          *)
(* A clerk is a terminal at which these commands are run, one after the     *)
(* other.  Commands meet only in the files of the review directory, which   *)
(* are all created exclusively, and in the three input files, which people  *)
(* write and may rewrite.  Up to three files are written at once by         *)
(* Promise.all: when one of them fails the others go on.                    *)
(*                                                                          *)
(* The collection is whatever OperabilityRunner leaves (its invariant       *)
(* DecisionIsMeasured).  The blueprint in it, the rubric and the identity   *)
(* of the campaign do not change, so that a packet differs from another in  *)
(* the skill files alone, and a judgment is reduced to its verdict.         *)
(***************************************************************************)
EXTENDS AuthorCampaign

CONSTANTS Clerk,        \* terminals
          Version,      \* what the skill directory can hold
          Criterion,    \* the criteria of the packet
          Critical,     \* those that decide
          Reviews,      \* what reviewers may submit: a verdict on every criterion
          Resolutions,  \* what a resolver may submit: a verdict on some of them
          MaxCommands,  \* bounds for TLC: commands started, and changes
          MaxEdits      \* of the skill directory or of an answer given before

Verdicts == {"ACCEPT", "NEEDS_ADJUDICATION", "REJECT"}

Partial(D) == UNION {[C -> Verdicts] : C \in SUBSET D}

ASSUME CriterionAssumption == Critical \subseteq Criterion /\ Criterion # {}
ASSUME ReviewAssumption == Reviews \subseteq [Criterion -> Verdicts]
ASSUME ResolutionAssumption == Resolutions \subseteq Partial(Criterion)
ASSUME BoundAssumption == MaxCommands \in Nat /\ MaxEdits \in Nat

VARIABLES
  policy, collection,   \* the campaign, as its runner left it
  skill,                \* what the skill directory holds now
  file,                 \* file[f]: the files that commands create
  input,                \* input[w]: a set that holds what w wrote, if anything
  run,                  \* run[c]: the command that runs at clerk c
  started, edits        \* commands started and changes made so far

vars == <<policy, collection, skill, file, input, run, started, edits>>

Packets == {"packetA", "packetB", "manifest"}
Submissions == {"submissionA", "submissionB", "resolution"}
Files == Packets \cup Submissions \cup {"report"}
Writers == {"A", "B", "R"}
Commands == {"prepare", "resolve", "score"}

\* A file holds a set: its content, once it is whole.
Absent == [state |-> "ABSENT", content |-> {}]
Torn == [state |-> "PARTIAL", content |-> {}]
Whole(v) == [state |-> "WRITTEN", content |-> {v}]

\* left is the first reviewer's input as this command read it; todo[f] is what
\* it has still to write to f, and opened the files it has created.
Command(name, step) ==
  [command |-> name, pc |-> step, left |-> {}, todo |-> <<>>, opened |-> {}]
Idle == Command("none", "IDLE")

Init ==
  /\ policy \in Policies
  /\ collection \in Collections(policy)
  /\ skill \in Version
  /\ file = [f \in Files |-> Absent]
  /\ input = [w \in Writers |-> {}]
  /\ run = [c \in Clerk |-> Idle]
  /\ started = 0 /\ edits = 0

Readable(f) == file[f].state = "WRITTEN"

At(c, name, step) == run[c].command = name /\ run[c].pc = step
Becomes(c, r) == run' = [run EXCEPT ![c] = r]

-----------------------------------------------------------------------------
(* People. *)

\* A reviewer answers a packet, the resolver a resolution packet; they may
\* change their minds.
Answer(w, packet, answers) ==
  /\ Readable(packet)
  /\ input[w] # {} => edits < MaxEdits
  /\ edits' = IF input[w] = {} THEN edits ELSE edits + 1
  /\ \E j \in answers : {j} # input[w] /\ input' = [input EXCEPT ![w] = {j}]
  /\ UNCHANGED <<policy, collection, skill, file, run, started>>

Judge == Answer("A", "packetA", Reviews) \/ Answer("B", "packetB", Reviews)
Arbitrate == Answer("R", "resolution", Resolutions)

Edit ==
  /\ edits < MaxEdits
  /\ skill' \in Version \ {skill}
  /\ edits' = edits + 1
  /\ UNCHANGED <<policy, collection, file, input, run, started>>

-----------------------------------------------------------------------------
(* Commands: reading. *)

Start(c) ==
  /\ run[c] = Idle /\ started < MaxCommands
  /\ \E name \in Commands : Becomes(c, Command(name, "READ"))
  /\ started' = started + 1
  /\ UNCHANGED <<policy, collection, skill, file, input, edits>>

\* A check fails, a file is missing, torn or unreadable.
Refuse(c) ==
  /\ run[c].pc \in {"READ", "READ_RIGHT"}
  /\ Becomes(c, Idle)
  /\ UNCHANGED <<policy, collection, skill, file, input, started, edits>>

\* assertReviewCampaign
IsReviewCampaign == policy # "HISTORICAL_OPERABILITY"

\* parseCompletedCollection
ReviewRequired ==
  /\ IsReviewCampaign
  /\ collection.state = "WRITTEN" /\ collection.decision = "PENDING"

Writes(c, todo) == Becomes(c, [run[c] EXCEPT !.pc = "WRITE", !.todo = todo])

\* prepareAuthorViabilityReview, up to Promise.all: the packet is made of the
\* skill directory as it is now.
Prepare(c) ==
  /\ At(c, "prepare", "READ")
  /\ ReviewRequired
  /\ Writes(c, [f \in Packets |-> skill])
  /\ UNCHANGED <<policy, collection, skill, file, input, started, edits>>

Submission(v, j) == [packet |-> v, judgments |-> j]

\* The resolver is asked about every criterion on which the verdicts differ
\* or the first reviewer could not decide, and is shown both judgments.
Disputed(l, r) == {k \in Criterion : l[k] # r[k] \/ l[k] = "NEEDS_ADJUDICATION"}
ResolutionPacket(v, l, r) ==
  [packet |-> v, disputed |-> [k \in Disputed(l, r) |-> <<l[k], r[k]>>]]

ReadsOnePacket == Readable("packetA") /\ Readable("packetB")

PacketsAgree ==
  Readable("packetA") /\ Readable("packetB") /\ file["packetA"] = file["packetB"]

\* prepareAuthorViabilityResolution reads both packets and the first input,
ReadLeft(c) ==
  /\ At(c, "resolve", "READ")
  /\ PacketsAgree
  /\ input["A"] # {}
  /\ Becomes(c, [run[c] EXCEPT !.pc = "READ_RIGHT", !.left = input["A"]])
  /\ UNCHANGED <<policy, collection, skill, file, input, started, edits>>

\* and then the second one.
ReadRight(c) ==
  /\ At(c, "resolve", "READ_RIGHT")
  /\ \E v \in file["packetA"].content, l \in run[c].left, r \in input["B"] :
       Writes(c, [f \in Submissions |->
         CASE f = "submissionA" -> Submission(v, l)
           [] f = "submissionB" -> Submission(v, r)
           [] f = "resolution" -> ResolutionPacket(v, l, r)])
  /\ UNCHANGED <<policy, collection, skill, file, input, started, edits>>

\* The resolver decides exactly the disputed criteria.
Covers(resolution, disputed) ==
  /\ DOMAIN resolution = disputed
  /\ \A k \in disputed : resolution[k] # "NEEDS_ADJUDICATION"

\* resolveAuthorViabilityReview
Judgments(l, resolution) ==
  [k \in Criterion |-> IF k \in DOMAIN resolution THEN resolution[k] ELSE l[k]]
Passes(judgments) == \A k \in Critical : judgments[k] = "ACCEPT"

\* resolved: the criteria whose judgment in the report is the resolver's.
Report(result, judgments, resolved) ==
  [result |-> result, judgments |-> judgments, resolved |-> resolved]

\* scoreAuthorViability on a decision that was mechanical: there is no review.
ScoreMechanically(c) ==
  /\ At(c, "score", "READ")
  /\ IsReviewCampaign
  /\ collection.state = "WRITTEN" /\ collection.invocations = 1
  /\ collection.decision # "PENDING"
  /\ Writes(c, [f \in {"report"} |-> Report(collection.decision, <<>>, {})])
  /\ UNCHANGED <<policy, collection, skill, file, input, started, edits>>

TrustsResolutionPacket(packet, v, l, r) == packet.packet = v

\* The resolution packet is built again and compared with the one on disk.
IsResolutionOf(packet, v, l, r) == packet = ResolutionPacket(v, l, r)

\* scoreAuthorViability on a pending decision.
ScoreReview(c) ==
  /\ At(c, "score", "READ")
  /\ ReviewRequired /\ collection.invocations = 1
  /\ \E v \in file["packetA"].content, a \in file["submissionA"].content,
        b \in file["submissionB"].content, p \in file["resolution"].content :
       /\ a.packet = v /\ b.packet = v
       /\ IsResolutionOf(p, v, a.judgments, b.judgments)
       /\ \E resolution \in IF DOMAIN p.disputed = {} THEN {<<>>} ELSE input["R"] :
            /\ Covers(resolution, DOMAIN p.disputed)
            /\ LET j == Judgments(a.judgments, resolution)
               IN Writes(c, [f \in {"report"} |->
                    Report(IF Passes(j) THEN "PASSED" ELSE "NOT_PASSED", j, DOMAIN resolution)])
  /\ UNCHANGED <<policy, collection, skill, file, input, started, edits>>

-----------------------------------------------------------------------------
(* Commands: writing.  Each of the files is opened, written and closed by    *)
(* itself.                                                                   *)

Pending(c) == DOMAIN run[c].todo

\* The write of f is settled; the command ends with its last write.
Settles(c, f) ==
  Becomes(c, IF Pending(c) = {f} THEN Idle
             ELSE [run[c] EXCEPT !.todo = [g \in Pending(c) \ {f} |-> @[g]],
                                 !.opened = @ \ {f}])

AlwaysCreates(f) == TRUE

\* open(path, 'wx')
ExclusiveCreates(f) == file[f].state = "ABSENT"

OpenFile(c, f) ==
  /\ f \in Pending(c) \ run[c].opened
  /\ ExclusiveCreates(f)
  /\ file' = [file EXCEPT ![f] = Torn]
  /\ Becomes(c, [run[c] EXCEPT !.opened = @ \cup {f}])
  /\ UNCHANGED <<policy, collection, skill, input, started, edits>>

\* Whether its close succeeds makes no difference.
WriteFile(c, f) ==
  /\ f \in Pending(c) \cap run[c].opened
  /\ file' = [file EXCEPT ![f] = Whole(run[c].todo[f])]
  /\ Settles(c, f)
  /\ UNCHANGED <<policy, collection, skill, input, started, edits>>

\* The file exists or cannot be created, or it cannot be written.
FailFile(c, f) ==
  /\ f \in Pending(c)
  /\ Settles(c, f)
  /\ UNCHANGED <<policy, collection, skill, file, input, started, edits>>

\* Before it writes, a command that is killed is like one that refuses.
Kill(c) ==
  /\ run[c].pc = "WRITE"
  /\ Becomes(c, Idle)
  /\ UNCHANGED <<policy, collection, skill, file, input, started, edits>>

-----------------------------------------------------------------------------

Read(c) ==
  \/ Refuse(c) \/ Prepare(c) \/ ReadLeft(c) \/ ReadRight(c)
  \/ ScoreMechanically(c) \/ ScoreReview(c)

Write(c, f) == OpenFile(c, f) \/ WriteFile(c, f) \/ FailFile(c, f)

Step(c) == Read(c) \/ \E f \in Files : Write(c, f)

Next == Judge \/ Arbitrate \/ Edit \/ \E c \in Clerk : Start(c) \/ Step(c) \/ Kill(c)

Spec == Init /\ [][Next]_vars

\* The state after a command that has prepared the review and is not counted:
\* from here TLC reaches longer sequences of the later commands.
InitPrepared ==
  /\ policy = "TERRA_CONTRAST"
  /\ collection = Result("WRITTEN", 1, "COMPLETED", "PENDING")
  /\ skill \in Version
  /\ file = [f \in Files |-> IF f \in Packets THEN Whole(skill) ELSE Absent]
  /\ input = [w \in Writers |-> {}]
  /\ run = [c \in Clerk |-> Idle]
  /\ started = 0 /\ edits = 0

\* A pending Luna campaign differs from a pending contrast in the names of its
\* decisions only, which Decisions leaves out: one of the two is enough.
InitDistinct == Init /\ ~(policy = "LUNA_VIABILITY" /\ collection.decision = "PENDING")

SpecEither == (InitDistinct \/ InitPrepared) /\ [][Next]_vars

-----------------------------------------------------------------------------
(* Properties. *)

\* Every variable has its type; what the files hold is said by IsSound.
TypeOK ==
  /\ policy \in Policies /\ collection \in Collections(policy) /\ skill \in Version
  /\ DOMAIN file = Files
  /\ \A f \in Files :
       \/ file[f] \in {Absent, Torn}
       \/ \E v \in file[f].content : file[f] = Whole(v)
  /\ DOMAIN input = Writers
  /\ input["A"] \subseteq Reviews /\ input["B"] \subseteq Reviews
  /\ input["R"] \subseteq Resolutions
  /\ DOMAIN run = Clerk
  /\ \A c \in Clerk :
       /\ DOMAIN run[c] = DOMAIN Idle
       /\ run[c].command \in Commands \cup {"none"}
       /\ run[c].pc \in {"IDLE", "READ", "READ_RIGHT", "WRITE"}
       /\ run[c].left \subseteq Reviews
       /\ run[c].opened \subseteq Pending(c) /\ Pending(c) \subseteq Files
       /\ (Pending(c) # {}) <=> (run[c].pc = "WRITE")
  /\ started \in 0 .. MaxCommands /\ edits \in 0 .. MaxEdits

\* A campaign that was decided mechanically is never exposed to reviewers,
\* and a report on it repeats the decision of a paid collection.
RepeatsDecision(s) ==
  collection.invocations = 1 /\ s = Report(collection.decision, <<>>, {})

NothingIsReviewed ==
  collection.decision # "PENDING" => \A f \in Packets \cup Submissions : file[f] = Absent

MechanicalDecisionStands ==
  /\ NothingIsReviewed
  /\ collection.decision # "PENDING" => \A s \in file["report"].content : RepeatsDecision(s)

\* Whatever was submitted or asked of the resolver is about one packet, which
\* both reviewers had, although several commands may have written it and the
\* skill changed between them.
IsOfThePacket(s) == file["packetA"] = Whole(s.packet) /\ file["packetB"] = Whole(s.packet)

OnePacketIsJudged == \A f \in Submissions : \A s \in file[f].content : IsOfThePacket(s)

\* The report on a review follows from the two submissions that are on disk,
\* although they and the resolution packet may come from different commands
\* that read different inputs: agreed verdicts stand, the resolver decided
\* all the others and only them, nothing is left undecided, and the campaign
\* passes if every critical criterion was accepted.
FollowsFrom(s, l, r) ==
  /\ \A k \in Criterion :
       IF l[k] = r[k] /\ l[k] # "NEEDS_ADJUDICATION"
       THEN k \notin s.resolved /\ s.judgments[k] = l[k]
       ELSE k \in s.resolved /\ s.judgments[k] # "NEEDS_ADJUDICATION"
  /\ s.result = IF \E k \in Critical : s.judgments[k] = "REJECT"
                THEN "NOT_PASSED" ELSE "PASSED"

FollowsReviews(s) ==
  \E a \in file["submissionA"].content, b \in file["submissionB"].content :
    FollowsFrom(s, a.judgments, b.judgments)

ReportFollowsReviews ==
  collection.decision = "PENDING" => \A s \in file["report"].content : FollowsReviews(s)

\* What makes these inductive.  A file that a command has opened is torn and
\* nobody else's, so that none changes once it is whole, and packets that were
\* compared stay the same.
OpenFilesHeld ==
  \A c \in Clerk :
    /\ \A f \in run[c].opened :
         file[f] = Torn /\ \A d \in Clerk \ {c} : f \notin run[d].opened
    /\ run[c].pc = "READ_RIGHT" => PacketsAgree

\* What file f holds, or will hold when a command goes on.
Values(f) == file[f].content \cup {run[c].todo[f] : c \in {d \in Clerk : f \in Pending(d)}}

\* The file f may hold v, as the other files are now.
IsSound(f, v) ==
  /\ f # "report" => collection.decision = "PENDING"
  /\ f \in Packets => v \in Version
  /\ f \in Submissions => v.packet \in Version /\ IsOfThePacket(v)
  /\ f \in {"submissionA", "submissionB"} => v.judgments \in Reviews
  /\ f = "report" =>
       /\ v.result \in Decisions \ {"NONE", "PENDING"}
       /\ IF collection.decision = "PENDING" THEN FollowsReviews(v) ELSE RepeatsDecision(v)

ValuesAreSound == \A f \in Files : \A v \in Values(f) : IsSound(f, v)

\* Every variable has its type, one packet is judged, and everything holds
\* that the promises are proved from.
ReviewInvariant ==
  TypeOK /\ OnePacketIsJudged /\ NothingIsReviewed /\ OpenFilesHeld /\ ValuesAreSound

\* A report rests on what decides the campaign: a mechanical decision stands,
\* a review is followed.
ReportStands == MechanicalDecisionStands /\ ReportFollowsReviews

\* No file that a reviewer, the resolver or a reader of the report may have
\* read changes: not by a command that is run again, and not by one that runs
\* at the same time.
ReviewIsFinal ==
  [][\A f \in Files : Readable(f) => UNCHANGED file[f]]_vars

=============================================================================
