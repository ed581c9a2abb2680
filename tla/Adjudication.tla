------------------------------ MODULE Adjudication ------------------------------
(***************************************************************************)
(* The adjudication of the author benchmark: a workspace with one blind    *)
(* packet for each completed sample is prepared, two reviewers judge every *)
(* target, somebody resolves what they disagree on, and the score says     *)
(* which condition of the author qualifies.                                *)
(*                                                                         *)
(* The steps are run by several people at several terminals; they meet in  *)
(* the files of the workspace and of the archive, which are all created    *)
(* exclusively.  The collection of the benchmark, its bundle and the       *)
(* preparation do not change and belong together.  The fingerprint of a    *)
(* packet is its sample.                                                   *)
(***************************************************************************)
EXTENDS Naturals, FiniteSets, FiniteSetsExt

CONSTANTS
    Terminal,     \* where the steps are run
    Scheduled,    \* the samples of the benchmark's schedule
    ConditionOf,  \* the condition of each: one of two
    Reference,    \* the reference items of its case
    Assertion,    \* the candidate assertions of each sample
    Kind,         \* of an item: CLAIM, CONTRACT, ACTIVATION or another
    Position,     \* of an activation item among those of its reference
    Critical,     \* the items that are critical
    Collections,  \* what a benchmark may have collected
    Judgments,    \* what a reviewer may judge, of all targets
    Decisions,    \* what a resolution may say, of all targets
    Percent,      \* precision and recall that are asked for (90)
    Enough,       \* activation items of a position that are enough (7)
    MaxSteps,     \* bounds: steps that are started,
    MaxFaults,    \* and failures of the disk and kills
    None,         \* no file
    Torn          \* a file that was created and not written to its end

ASSUME SampleAssumption == ConditionOf \in [Scheduled -> {"LUNA_MAX", "TERRA_XHIGH"}]
ASSUME NumbersAssumption ==
    /\ Percent \in 0..100 /\ Enough \in Nat /\ MaxSteps \in Nat
    /\ MaxFaults \in Nat

Condition == {"LUNA_MAX", "TERRA_XHIGH"}
Verdict == {"ACCEPT", "REJECT", "NEEDS_ADJUDICATION"}

(* A target is an item of a sample, as a reference or as an assertion.     *)
(* Items that differ in more than their name are different, also when two  *)
(* samples give them the same name.                                        *)
TargetsOf(s) ==
    {[sample |-> s, type |-> "REFERENCE", item |-> i] : i \in Reference[s]}
    \cup {[sample |-> s, type |-> "CANDIDATE", item |-> i] : i \in Assertion[s]}
Target == UNION {TargetsOf(s) : s \in Scheduled}

ASSUME TargetAssumption == IsFiniteSet(Target)
ASSUME JudgmentsAssumption == Judgments \subseteq [Target -> Verdict]
ASSUME DecisionsAssumption == Decisions \subseteq [Target -> {"ACCEPT", "REJECT", "UNRESOLVED"}]

VARIABLES
    collected,   \* of each sample: completed, its lifecycle right, its families distinct
    disk,        \* the files of the workspace
    archive,     \* the archive: how far it has come, and the report in it
    out,         \* the consolidated report
    at,          \* what runs at each terminal
    steps,       \* steps started so far
    faults       \* failures so far

adjudicationVars == <<collected, disk, archive, out, at, steps, faults>>

Singles == {"reservation", "qualificationPacket", "manifest", "qualification", "a", "b",
            "resolutionPacket", "resolution"}
File == Singles \cup Scheduled

(* No packet is stored under the name of another file, and a reservation   *)
(* is there once it is written.                                            *)
ASSUME FileAssumption == Scheduled \cap Singles = {}
ASSUME NoneAssumption == None # "RESERVED"

Idle == [doing |-> "nothing"]

AdjudicationInit ==
    /\ collected \in Collections
    /\ disk = [f \in File |-> None]
    /\ archive = [stage |-> "ABSENT", report |-> None]
    /\ out = None
    /\ at = [t \in Terminal |-> Idle]
    /\ steps = 0 /\ faults = 0

Exists(f) == disk[f] # None
Readable(f) == Exists(f) /\ disk[f] # Torn
Packets == {s \in Scheduled : Exists(s)}
Completed == {s \in Scheduled : collected.completed[s]}

Begins(t) ==
    /\ at[t] = Idle /\ steps < MaxSteps
    /\ steps' = steps + 1
    /\ UNCHANGED <<collected, archive, out>>
Becomes(t, process) == at' = [at EXCEPT ![t] = process]
Create(f, v) == disk' = [disk EXCEPT ![f] = v]

(* What may go wrong, and is counted.                                      *)
Fault == faults < MaxFaults /\ faults' = faults + 1
Fine == UNCHANGED faults
CreateOrTear(f, v) ==
    \/ Create(f, v) /\ Fine
    \/ Create(f, Torn) /\ Fault

(***************************************************************************)
(* Files are created exclusively, several at once: one that is there or    *)
(* that cannot be written fails the whole, but the others go on.  It may   *)
(* be torn, or whole when only closing it failed.  Where a step has one    *)
(* file, failing to close it is the same as being killed after it.         *)
(***************************************************************************)
(* A mutant: files are replaced.                                           *)
MayReplace(f) == TRUE
MayCreate(f) == ~Exists(f)

(* Who locks is done when every file has been tried, whether one failed or *)
(* not; a preparation looks at that.                                       *)
Goes(t, process) ==
    Becomes(t, IF process.doing = "locking" /\ process.todo = {} THEN Idle ELSE process)

Writing(t) == at[t].doing \in {"preparing", "locking"} /\ at[t].todo # {}

Tried(t, f) == [at[t] EXCEPT !.todo = at[t].todo \ {f}]

WriteFile(t, f) ==
    /\ Writing(t) /\ f \in at[t].todo
    /\ \/ /\ MayCreate(f)
          /\ Create(f, at[t].text[f]) /\ Fine
          /\ Goes(t, Tried(t, f))
       \/ /\ \/ Exists(f) /\ UNCHANGED <<disk, faults>>
             \/ ~Exists(f) /\ UNCHANGED disk /\ Fault
             \/ MayCreate(f) /\ Fault /\ \E v \in {Torn, at[t].text[f]} : Create(f, v)
          /\ Goes(t, [Tried(t, f) EXCEPT !.failed = at[t].doing = "preparing"])
    /\ UNCHANGED <<collected, archive, out, steps>>

(***************************************************************************)
(* Preparation: the reservation, then the packets and the rest at once,    *)
(* and the manifest when all of them are written.                          *)
(***************************************************************************)
Prepare(t) ==
    /\ Begins(t)
    /\ MayCreate("reservation")
    /\ \/ /\ Create("reservation", "RESERVED") /\ Fine
          /\ Becomes(t, [doing |-> "preparing", failed |-> FALSE,
                         todo |-> Completed \cup {"qualificationPacket"},
                         text |-> [f \in Completed \cup {"qualificationPacket"} |-> "WRITTEN"]])
       \/ Create("reservation", Torn) /\ Fault /\ UNCHANGED at

WriteManifest(t) ==
    /\ at[t].doing = "preparing" /\ at[t].todo = {}
    /\ IF at[t].failed \/ ~MayCreate("manifest") THEN UNCHANGED <<disk, faults>>
       ELSE CreateOrTear("manifest", "WRITTEN")
    /\ Becomes(t, Idle)
    /\ UNCHANGED <<collected, archive, out, steps>>

(***************************************************************************)
(* The judgments.  A submission names the packets it judges and judges     *)
(* each of their targets once.                                             *)
(***************************************************************************)
Expected(packets) == UNION {TargetsOf(s) : s \in packets}

SubmissionValid(packets, s) ==
    s.packets = packets /\ DOMAIN s.judgments = Expected(packets)

Submission(packets, j) ==
    [packets |-> packets, judgments |-> [k \in Expected(packets) |-> j[k]]]

(* Reviewers that have not qualified on the probes are refused.  They are  *)
(* given the packets that are there when the preparation has ended, which  *)
(* may have failed.  A file that is there when they begin is there when it *)
(* is its turn, and is not written.                                        *)
Lock(t) ==
    /\ Begins(t) /\ Exists("reservation")
    /\ \A u \in Terminal : at[u].doing # "preparing"
    /\ \E j, k \in Judgments :
          LET text == [qualification |-> "QUALIFIED",
                       a |-> Submission(Packets, j), b |-> Submission(Packets, k)]
              todo == {f \in DOMAIN text : MayCreate(f)}
          IN Goes(t, [doing |-> "locking", failed |-> FALSE,
                      todo |-> todo, text |-> [f \in todo |-> text[f]]])
    /\ UNCHANGED <<disk, faults>>

(***************************************************************************)
(* The resolution.                                                         *)
(***************************************************************************)
(* A mutant: two reviewers that both ask for adjudication agree.           *)
AgreedToAsk(a, b, k) == a.judgments[k] = b.judgments[k]
Agreed(a, b, k) == a.judgments[k] = b.judgments[k] /\ a.judgments[k] # "NEEDS_ADJUDICATION"

Disagreements(a, b, packets) == {k \in Expected(packets) : ~Agreed(a, b, k)}

BothValid(a, b, packets) == SubmissionValid(packets, a) /\ SubmissionValid(packets, b)

Covers(a, b, r, packets) == DOMAIN r = Disagreements(a, b, packets)

ResolutionValid(a, b, r, packets) == BothValid(a, b, packets) /\ Covers(a, b, r, packets)

LockResolutionPacket(t) ==
    /\ Begins(t)
    /\ Readable("a") /\ Readable("b") /\ BothValid(disk["a"], disk["b"], Packets)
    /\ MayCreate("resolutionPacket")
    /\ CreateOrTear("resolutionPacket", Disagreements(disk["a"], disk["b"], Packets))
    /\ UNCHANGED at

(* What is resolved: the disagreements, all but one of them, or one target *)
(* more.                                                                   *)
Resolved(a, b) ==
    LET open == Disagreements(a, b, Packets)
    IN {open} \cup {open \ {k} : k \in open} \cup {open \cup {k} : k \in Expected(Packets)}

Resolve(t) ==
    /\ Begins(t)
    /\ Readable("a") /\ Readable("b") /\ BothValid(disk["a"], disk["b"], Packets)
    /\ MayCreate("resolution")
    /\ \E keys \in Resolved(disk["a"], disk["b"]), d \in Decisions :
          LET r == [k \in keys |-> d[k]]
          IN /\ ResolutionValid(disk["a"], disk["b"], r, Packets)
             /\ CreateOrTear("resolution", r)
    /\ UNCHANGED at

(***************************************************************************)
(* The score.                                                              *)
(***************************************************************************)
(* The verdict on a target: what both reviewers say, or the resolution of  *)
(* their disagreement.  Without two valid submissions there is none.       *)
Final(a, b, r, packets, k) ==
    IF ~BothValid(a, b, packets) \/ k \notin Expected(packets) THEN "NONE"
    ELSE IF Agreed(a, b, k) THEN a.judgments[k]
    ELSE IF k \in DOMAIN r THEN r[k] ELSE "UNRESOLVED"

SamplesOf(c) == {s \in Scheduled : ConditionOf[s] = c}
Of(s, type, items) == {[sample |-> s, type |-> type, item |-> i] : i \in items}
CriticalItems(items) == items \cap Critical
Ordinary(items) == {i \in items \ Critical : Kind[i] \in {"CLAIM", "CONTRACT"}}
(* V is the verdict on every target.                                       *)
Number(set, V, verdicts) == Cardinality({k \in set : V[k] \in verdicts})

(* Critical reference items that were not accepted, and once more those    *)
(* that are unresolved; critical assertions of the candidate that were     *)
(* rejected.                                                               *)
CriticalViolations(c, V) ==
    LET asked == UNION {Of(s, "REFERENCE", CriticalItems(Reference[s])) : s \in SamplesOf(c)}
        made == UNION {Of(s, "CANDIDATE", CriticalItems(Assertion[s])) : s \in SamplesOf(c)}
    IN Number(asked, V, {"REJECT", "UNRESOLVED", "NONE"}) + Number(asked, V, {"UNRESOLVED"})
       + Number(made, V, {"REJECT"})

(* The mean over samples of accepted / all, where nothing of nothing is    *)
(* all, reaches Percent.                                                   *)
MeanReaches(sets, V) ==
    LET all == FoldSet(LAMBDA s, n : n * (IF s.of = {} THEN 1 ELSE Cardinality(s.of)), 1, sets)
        share(s) == IF s.of = {} THEN all
                    ELSE Number(s.of, V, {"ACCEPT"}) * (all \div Cardinality(s.of))
    IN 100 * FoldSet(LAMBDA s, n : n + share(s), 0, sets) >= Percent * all * Cardinality(sets)

Recalls(c) == {[sample |-> s, of |-> Of(s, "REFERENCE", Ordinary(Reference[s]))] :
                 s \in SamplesOf(c)}
Precisions(c) == {[sample |-> s, of |-> Of(s, "CANDIDATE", Ordinary(Assertion[s]))] :
                    s \in SamplesOf(c)}

(* Of the activation items in each position: all, or enough of them.       *)
ActivationCovered(c, V) ==
    \A p \in 0..2 :
        LET there == UNION {Of(s, "REFERENCE", {i \in Reference[s] :
                                                  Kind[i] = "ACTIVATION" /\ Position[i] = p}) :
                              s \in SamplesOf(c)}
            accepted == Number(there, V, {"ACCEPT"})
        IN accepted = Cardinality(there) \/ accepted >= Enough

(* A mutant: the submissions are held against the packets that they name.  *)
NamedIntegrity(a, b, r, packets) == ResolutionValid(a, b, r, a.packets)
Integrity(a, b, r, packets) == ResolutionValid(a, b, r, packets) /\ packets = Completed

Gates(c, V) ==
    /\ \A s \in SamplesOf(c) : collected.lifecycle[s] /\ collected.distinct[s]
    /\ CriticalViolations(c, V) = 0
    /\ MeanReaches(Recalls(c), V) /\ MeanReaches(Precisions(c), V)
    /\ ActivationCovered(c, V)

Status(c, a, b, r, packets) ==
    IF ~ SamplesOf(c) \subseteq Completed THEN "INSUFFICIENT"
    ELSE IF /\ Integrity(a, b, r, packets)
            /\ Gates(c, [k \in Target |-> Final(a, b, r, packets, k)])
    THEN "QUALIFIED" ELSE "NOT_QUALIFIED"

QualificationReport(a, b, r, packets) ==
    LET status == [c \in Condition |-> Status(c, a, b, r, packets)]
        selected == IF status["LUNA_MAX"] = "QUALIFIED" THEN "LUNA_MAX"
                    ELSE IF status["TERRA_XHIGH"] = "QUALIFIED" THEN "TERRA_XHIGH" ELSE None
    IN [status |-> status, selected |-> selected,
        result |-> IF ~Integrity(a, b, r, packets) THEN "INVALIDATED"
                   ELSE IF selected # None THEN "QUALIFIED"
                   ELSE IF \E c \in Condition : status[c] = "INSUFFICIENT"
                   THEN "INSUFFICIENT" ELSE "NOT_QUALIFIED"]

(* A condition whose samples are complete but have no packet stops the     *)
(* score with an exception.                                                *)
PacketMissing(packets) ==
    \E c \in Condition : SamplesOf(c) \subseteq Completed /\ ~ SamplesOf(c) \subseteq packets

(* The packets are read first, then the submissions, then the resolution.  *)
ReadPackets(t) ==
    /\ Begins(t)
    /\ \A s \in Packets : Readable(s)
    /\ Becomes(t, [doing |-> "scoring", packets |-> Packets])
    /\ UNCHANGED <<disk, faults>>

Score(t) ==
    /\ at[t].doing = "scoring"
    /\ IF (\E f \in {"a", "b", "resolution"} : ~Readable(f)) \/ PacketMissing(at[t].packets)
          \/ archive.stage # "ABSENT"
       THEN Becomes(t, Idle) /\ UNCHANGED archive
       ELSE LET report == QualificationReport(disk["a"], disk["b"], disk["resolution"],
                                              at[t].packets)
            IN /\ archive' = [archive EXCEPT !.stage = "STARTED"]
               /\ Becomes(t, [doing |-> "copying", packets |-> at[t].packets, report |-> report])
    /\ UNCHANGED <<collected, disk, out, steps, faults>>

(* Every component is copied at once; one that is missing fails the whole. *)
Components(packets) == (Singles \ {"reservation"}) \cup packets

Copy(t) ==
    /\ at[t].doing = "copying"
    /\ \/ /\ \A f \in Components(at[t].packets) : Exists(f)
          /\ archive' = [archive EXCEPT !.stage = "COPIED"]
          /\ Becomes(t, [at[t] EXCEPT !.doing = "archiving"])
          /\ Fine
       \/ /\ \E f \in Components(at[t].packets) : ~Exists(f)
          /\ Becomes(t, Idle) /\ UNCHANGED <<archive, faults>>
    /\ UNCHANGED <<collected, disk, out, steps>>

(* The report in the archive; then the digests of the components, which    *)
(* are read and parsed again, and the manifest; then the report outside.   *)
(* A disk that fails here is a kill: the archive stays as it is.           *)
Archive(t) ==
    /\ at[t].doing = "archiving"
    /\ \/ /\ archive.stage = "COPIED"
          /\ archive' = [stage |-> "SCORED", report |-> at[t].report]
          /\ UNCHANGED at
       \/ /\ archive.stage = "SCORED"
          /\ \A f \in Singles \ {"reservation"} : Readable(f)
          /\ archive' = [archive EXCEPT !.stage = "COMPLETE"]
          /\ Becomes(t, [at[t] EXCEPT !.doing = "publishing"])
       \/ /\ archive.stage = "SCORED"
          /\ \E f \in Singles \ {"reservation"} : ~Readable(f)
          /\ Becomes(t, Idle) /\ UNCHANGED archive
    /\ UNCHANGED <<collected, disk, out, steps, faults>>

(* A mutant: the report is published as soon as there is one.              *)
EarlyPublishing == {"copying", "archiving", "publishing"}
Publishing == {"publishing"}

(* Exclusively too, and who has the archive is the only one to try.        *)
Publish(t) ==
    /\ at[t].doing \in Publishing
    /\ out = None
    /\ \/ out' = at[t].report /\ Fine
       \/ out' = Torn /\ Fault
    /\ Becomes(t, Idle)
    /\ UNCHANGED <<collected, disk, archive, steps>>

KillTerminal(t) ==
    /\ at[t] # Idle /\ Fault
    /\ Becomes(t, Idle)
    /\ UNCHANGED <<collected, disk, archive, out, steps>>

AdjudicationNext ==
    \E t \in Terminal :
        \/ Prepare(t) \/ WriteManifest(t) \/ Lock(t)
        \/ LockResolutionPacket(t) \/ Resolve(t)
        \/ ReadPackets(t) \/ Score(t) \/ Copy(t) \/ Archive(t) \/ Publish(t) \/ KillTerminal(t)
        \/ \E f \in File : WriteFile(t, f)

AdjudicationSpec == AdjudicationInit /\ [][AdjudicationNext]_adjudicationVars

(***************************************************************************)
(* Properties.                                                             *)
(***************************************************************************)
(* What a process that writes, scores or has the archive consists of.      *)
IsWriting(process) ==
    /\ process.doing \in {"preparing", "locking"}
    /\ process = [doing |-> process.doing, failed |-> process.failed,
                  todo |-> process.todo, text |-> process.text]
    /\ process.todo \subseteq IF process.doing = "locking" THEN {"qualification", "a", "b"}
                              ELSE Scheduled \cup {"qualificationPacket"}
IsScoring(process) ==
    /\ process.doing = "scoring"
    /\ process = [doing |-> "scoring", packets |-> process.packets]
IsOwning(process) ==
    /\ process.doing \in {"copying", "archiving", "publishing"}
    /\ process = [doing |-> process.doing, packets |-> process.packets, report |-> process.report]

AdjudicationTypeOK ==
    /\ DOMAIN at = Terminal /\ DOMAIN disk = File
    /\ \A t \in Terminal :
          at[t] = Idle \/ IsWriting(at[t]) \/ IsScoring(at[t]) \/ IsOwning(at[t])
    /\ archive = [stage |-> archive.stage, report |-> archive.report]
    /\ archive.stage \in {"ABSENT", "STARTED", "COPIED", "SCORED", "COMPLETE"}

Published == out \notin {None, Torn}

(* Both reviewers said so, or the resolution of their disagreement.        *)
Said(verdict, k) ==
    \/ disk["a"].judgments[k] = verdict /\ disk["b"].judgments[k] = verdict
    \/ ~Agreed(disk["a"], disk["b"], k) /\ disk["resolution"][k] = verdict

(* What the condition of a sample has to show to be reported as qualified. *)
CleanSample(s) ==
    /\ collected.completed[s] /\ collected.lifecycle[s] /\ Exists(s)
    /\ \A k \in Of(s, "REFERENCE", CriticalItems(Reference[s])) : Said("ACCEPT", k)
    /\ \A k \in TargetsOf(s) :
          ~Agreed(disk["a"], disk["b"], k) => k \in DOMAIN disk["resolution"]
    /\ \A k \in Of(s, "CANDIDATE", CriticalItems(Assertion[s])) : ~Said("REJECT", k)
Clean(report) ==
    \A c \in Condition : report.status[c] = "QUALIFIED" => \A s \in SamplesOf(c) : CleanSample(s)

(* A report outside means a complete archive, with the same report, of a   *)
(* workspace that was prepared, judged and resolved                        *)
(* (scoreAuthorBenchmarkCommand).                                          *)
ReportMeansArchive ==
    Published =>
        /\ archive = [stage |-> "COMPLETE", report |-> out]
        /\ \A f \in Singles : Exists(f)
        /\ disk["resolutionPacket"] = DOMAIN disk["resolution"]

(* A condition that is reported as qualified was collected in full, and    *)
(* every critical item of the reference was accepted by both reviewers or  *)
(* by the resolution of their disagreement; no critical assertion of the   *)
(* candidate was rejected in that way, and each disagreement was resolved  *)
(* or expressly left open (scoreAuthorBenchmark), whoever locked, resolved *)
(* and scored at the same time.  An assertion that was left open does not  *)
(* count against the condition: see NoCriticalDisagreementRemains.         *)
QualifiedIsClean == Published => Clean(out)

(* Who scores the workspace again, whatever else was run since, gets the   *)
(* report that is outside, unless that says that the evidence does not     *)
(* hold together: the packets are read before the submissions and the      *)
(* resolution, and the packets of a preparation under way may be fewer     *)
(* (scoreAuthorBenchmarkCommand).                                          *)
ReportCanBeRepeated ==
    Published /\ out.result # "INVALIDATED" =>
        out = QualificationReport(disk["a"], disk["b"], disk["resolution"], Packets)

(* Parts of the invariant below.  The files of the workspace follow from   *)
(* each other: all come after the reservation, and what is resolved is     *)
(* what the two submissions that are there disagree on.                    *)
Submissions == {Submission(packets, j) : packets \in SUBSET Scheduled, j \in Judgments}
IsOpen(keys) ==
    /\ Readable("a") /\ Readable("b")
    /\ keys = Disagreements(disk["a"], disk["b"], disk["a"].packets)
DiskHeld ==
    /\ \A f \in File : Exists(f) => Exists("reservation")
    /\ Packets \subseteq Completed
    /\ \A f \in {"a", "b"} : Readable(f) => disk[f] \in Submissions
    /\ Readable("resolutionPacket") => IsOpen(disk["resolutionPacket"])
    /\ Readable("resolution") =>
          /\ IsOpen(DOMAIN disk["resolution"])
          /\ \A k \in DOMAIN disk["resolution"] :
                disk["resolution"][k] \in {"ACCEPT", "REJECT", "UNRESOLVED"}

(* What a process that writes or scores takes for granted.                 *)
ProcessHeld(t) ==
    /\ at[t].doing \in {"preparing", "locking"} =>
          /\ Exists("reservation") /\ at[t].todo \cap Scheduled \subseteq Completed
          /\ \A f \in at[t].todo \cap {"a", "b"} : at[t].text[f] \in Submissions
    /\ at[t].doing = "scoring" => at[t].packets \subseteq Packets

(* A report of the files that are there, and of packets that were there    *)
(* when somebody began to score them.                                      *)
IsScore(report) ==
    \E packets \in SUBSET Packets :
        report = QualificationReport(disk["a"], disk["b"], disk["resolution"], packets)

(* Who has the archive, and what it has put there.                         *)
Owners == {t \in Terminal : at[t].doing \in {"copying", "archiving", "publishing"}}
OwnerHeld(t) ==
    /\ at[t].doing = "copying" => archive.stage = "STARTED"
    /\ at[t].doing = "archiving" => archive.stage \in {"COPIED", "SCORED"}
    /\ at[t].doing = "publishing" => archive.stage = "COMPLETE"
    /\ archive.stage \in {"SCORED", "COMPLETE"} => archive.report = at[t].report
    /\ IsScore(at[t].report) /\ \A f \in {"a", "b", "resolution"} : Exists(f)
ArchiveHeld ==
    /\ \A t, u \in Owners : t = u
    /\ archive.stage = "ABSENT" \/ out # None => Owners = {}
    /\ \A t \in Owners : OwnerHeld(t)
    /\ archive.stage \in {"COPIED", "SCORED", "COMPLETE"} => \A f \in Singles : Exists(f)
    /\ archive.stage \in {"SCORED", "COMPLETE"} => IsScore(archive.report)
    /\ archive.stage = "COMPLETE" => \A f \in Singles \ {"reservation"} : Readable(f)
    /\ out # None => archive.stage = "COMPLETE"
    /\ Published => out = archive.report

(* The part that is inductive.                                             *)
AdjudicationHeld ==
    AdjudicationTypeOK /\ DiskHeld /\ (\A t \in Terminal : ProcessHeld(t)) /\ ArchiveHeld

(* Whoever runs what at the same time: a report outside means a complete   *)
(* archive, because the files of the workspace follow from each other, one *)
(* process at most has the archive, and what it has scored, copied and     *)
(* archived is what the files show (writeExclusive, mkdir of the archive   *)
(* in scoreAuthorBenchmarkCommand).                                        *)
AdjudicationInvariant == ReportMeansArchive /\ AdjudicationHeld

(* What has been locked stays as it is: "Their initial judgments are       *)
(* immutable" (resolution-policy.md), and so are the reservation, the      *)
(* packets, the resolution and the published report (writeExclusive).      *)
Kept ==
    /\ \A f \in File : Exists(f) => disk'[f] = disk[f]
    /\ out # None => out' = out
EvidenceIsFinal == [][Kept]_adjudicationVars

(***************************************************************************)
(* What the plan of the benchmark says and the code does not do.           *)
(***************************************************************************)
(* A condition is QUALIFIED only when "no critical reviewer disagreement   *)
(* remains unresolved": neither a critical item of the reference nor a     *)
(* critical assertion of the candidate on which the reviewers differ is    *)
(* left open by the resolution (scoreAuthorBenchmark).                     *)
NoCriticalDisagreementRemains ==
    Published =>
        \A c \in Condition : out.status[c] = "QUALIFIED" =>
            \A s \in SamplesOf(c) : \A k \in TargetsOf(s) :
                k.item \in Critical => ~Said("UNRESOLVED", k)
=============================================================================
