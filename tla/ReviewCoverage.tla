---------------------------- MODULE ReviewCoverage ----------------------------
(***************************************************************************)
(* Coverage receipts: what a command of reviewed-content-identity says of  *)
(* an earlier review, what it carries over into the receipt it writes, and *)
(* how that receipt reaches the disk.                                      *)
(*                                                                         *)
(* The content of the tree is one identity: the base commit, the increment *)
(* (active plan and revision), the material and the operational evidence.  *)
(* A command collects it in one step: module ContentIdentity shows that    *)
(* what it emits was in the tree at one instant.  Beside the commands work *)
(* the author, who changes the tree, and the supervisor, who reviews it    *)
(* and records the reviews in the receipts, right or wrong.                *)
(***************************************************************************)
EXTENDS Naturals, Sequences, FiniteSets

CONSTANTS
    Terminal,      \* where commands run, one after the other
    Name,          \* names of receipts
    Commit,        \* base commits
    Increment,     \* active plan with its revision
    Text,          \* material texts
    Evidence,      \* operational evidence
    Start,         \* the identity of the tree at the start
    Earlier,       \* the names an earlier command has written and reported
    None,          \* no receipt or no valid one, no artifact, no option
    Torn,          \* a receipt that is being rewritten in place
    MaxCommands,   \* bound: commands started
    MaxChanges,    \* bound: changes of the tree
    MaxArtifacts,  \* bound: artifacts of reviews
    MaxRecords,    \* bound: receipts rewritten by the supervisor
    MaxFaults      \* bound: kills, power failures, and removals that fail

Identity == [base : Commit, increment : Increment, material : Text, evidence : Evidence]

ASSUME StartAssumption == Start \in Identity
ASSUME EarlierAssumption == Earlier \subseteq Name
ASSUME BoundAssumption ==
    /\ MaxCommands \in Nat /\ MaxChanges \in Nat
    /\ MaxArtifacts \in Nat /\ MaxRecords \in Nat /\ MaxFaults \in Nat

(* Artifacts are files that a receipt refers to by digest.  A foundation   *)
(* review and a delta check name the whole identity, a round the material. *)
Foundation == [kind : {"foundation"}, of : Identity]
DeltaCheck == [kind : {"delta"}, of : Identity, from : Evidence]
RoundStart == [kind : {"round"}, of : Identity]
Artifact == Foundation \cup DeltaCheck \cup RoundStart

(* The last entry of a coverage: what became of the findings.             *)
Disposition == [of : Identity, outcome : {"P0_P2_NONE", "CARRIED"}]
Coverage == [foundation : Foundation \cup {None},
             deltas : Seq(DeltaCheck),
             rounds : SUBSET RoundStart,
             disposition : Disposition \cup {None}]
Uncovered == [foundation |-> None, deltas |-> <<>>, rounds |-> {}, disposition |-> None]

Receipt == [of : Identity, coverage : Coverage]

(* What stands for something that is not there is none of these.           *)
ASSUME MarkAssumption ==
    /\ None \notin Name \cup Foundation \cup Disposition
    /\ None \notin Receipt /\ Torn \notin Receipt
    /\ Torn # None

VARIABLES
    tree,       \* the identity the tree has now
    artifacts,  \* the artifacts on disk
    receipts,   \* receipts[n]: absent (None), being rewritten (Torn), or a receipt
    kept,       \* the receipts as they were at the last sync of the directory
    rewriting,  \* rewriting[n]: what the supervisor will have written there
    pc,         \* pc[t]: the step the command at t takes next
    job,        \* job[t]: what that command works on
    temp,       \* the terminals whose command has its temporary file there
    linked,     \* the terminals whose command has linked its receipt
    moved,      \* the terminals that would see the directory changed
    left,       \* history: the files that commands left behind, and why
    count,      \* commands started, tree changes, rewrites and faults so far
    reported    \* history: names whose command has reported the receipt

world == <<tree, artifacts, rewriting>>
history == <<count, reported>>
vars == <<tree, artifacts, receipts, kept, rewriting, pc, job, temp, linked, moved, left, count,
          reported>>

(* The names of the previous (until it is read) and of the new receipt,    *)
(* the identity that was collected, the previous receipt as it was read,   *)
(* the classification, and the coverage of the new receipt.                *)
NoJob == [previous |-> None, write |-> None, id |-> Start, prior |-> None,
          answer |-> "NONE", draft |-> Uncovered]

IsReceipt(r) == r \notin {None, Torn}

(***************************************************************************)
(* Is the coverage of a receipt complete?                                  *)
(***************************************************************************)
SameReview(a, b) ==
    /\ a.base = b.base /\ a.increment = b.increment /\ a.material = b.material

(* The delta checks lead from the evidence of the foundation to that of    *)
(* the receipt, each from where the one before it ended.                   *)
ChainFits(of, from, deltas) ==
    /\ \A i \in DOMAIN deltas :
          /\ SameReview(deltas[i].of, of)
          /\ deltas[i].from = IF i = 1 THEN from ELSE deltas[i - 1].of.evidence
    /\ of.evidence = IF deltas = <<>> THEN from ELSE deltas[Len(deltas)].of.evidence

Disposed(of, deltas) ==
    [of |-> of, outcome |-> IF deltas = <<>> THEN "P0_P2_NONE" ELSE "CARRIED"]

CoverageComplete(r) ==
    /\ r.coverage.foundation # None
    /\ SameReview(r.coverage.foundation.of, r.of)
    /\ ChainFits(r.of, r.coverage.foundation.of.evidence, r.coverage.deltas)
    /\ r.coverage.disposition = Disposed(r.of, r.coverage.deltas)

(* Rounds are of the receipt's increment, at most one per material; the    *)
(* base at dispatch may be another.                                        *)
RoundsValid(r) ==
    /\ \A a \in r.coverage.rounds : a.of.increment = r.of.increment
    /\ \A a, b \in r.coverage.rounds : a.of.material = b.of.material => a = b

(* A mutant: the base commit is not compared.                              *)
ClassifyAcrossBases(p, current) ==
    IF ~IsReceipt(p) \/ p.of.increment # current.increment \/ ~CoverageComplete(p)
    THEN "FULL_REVIEW_REQUIRED"
    ELSE IF p.of.material # current.material THEN "MATERIAL_DELTA"
    ELSE IF p.of.evidence = current.evidence THEN "UNCHANGED"
    ELSE "COMPOSABLE_OPERATIONAL_DELTA"

Classify(p, current) ==
    IF \/ ~IsReceipt(p)
       \/ p.of.base # current.base
       \/ p.of.increment # current.increment
       \/ ~CoverageComplete(p)
    THEN "FULL_REVIEW_REQUIRED"
    ELSE IF p.of.material # current.material THEN "MATERIAL_DELTA"
    ELSE IF p.of.evidence = current.evidence THEN "UNCHANGED"
    ELSE "COMPOSABLE_OPERATIONAL_DELTA"

(* A mutant: rounds are carried with the rest of the coverage or not at    *)
(* all.                                                                    *)
CarryAllOrNothing(p, current) ==
    IF IsReceipt(p) /\ CoverageComplete(p) /\ SameReview(p.of, current)
    THEN IF p.of.evidence = current.evidence THEN p.coverage
         ELSE [p.coverage EXCEPT !.disposition = None]
    ELSE Uncovered

(* What the new receipt takes over: the rounds of the increment in any     *)
(* case, the reviews only if they are complete and of the same content.    *)
Carry(p, current) ==
    IF ~IsReceipt(p) THEN Uncovered
    ELSE IF p.of.increment # current.increment THEN Uncovered
    ELSE IF CoverageComplete(p) /\ SameReview(p.of, current)
    THEN IF p.of.evidence = current.evidence THEN p.coverage
         ELSE [p.coverage EXCEPT !.disposition = None]
    ELSE [Uncovered EXCEPT !.rounds = p.coverage.rounds]

(***************************************************************************)
(* A command.                                                              *)
(***************************************************************************)
Goto(t, step) == pc' = [pc EXCEPT ![t] = step]

(* The process is gone, and what it knew with it.                          *)
Ends(t) ==
    /\ Goto(t, "idle")
    /\ job' = [job EXCEPT ![t] = NoJob]
    /\ linked' = linked \ {t}

Init ==
    /\ tree = Start /\ artifacts = {}
    /\ receipts = [n \in Name |-> IF n \in Earlier
                                   THEN [of |-> Start, coverage |-> Uncovered]
                                   ELSE None]
    /\ kept = receipts
    /\ rewriting = [n \in Name |-> None]
    /\ pc = [t \in Terminal |-> "idle"]
    /\ job = [t \in Terminal |-> NoJob]
    /\ temp = {} /\ linked = {} /\ moved = {} /\ left = {}
    /\ count = [commands |-> 0, changes |-> 0, records |-> 0, faults |-> 0]
    /\ reported = Earlier

(* What an author makes of a tree between two collections.                 *)
Changed(v) ==
    {w \in Identity : Cardinality({f \in DOMAIN v : v[f] # w[f]}) = 1}

(* Both collections of the tree, which agree.  Since the last command the  *)
(* author has changed the tree or not.                                     *)
Collect(t) ==
    /\ pc[t] = "idle" /\ count.commands < MaxCommands
    /\ \/ tree' = tree /\ count' = [count EXCEPT !.commands = @ + 1]
       \/ /\ count.changes < MaxChanges
          /\ tree' \in Changed(tree)
          /\ count' = [count EXCEPT !.commands = @ + 1, !.changes = @ + 1]
    /\ \E p, n \in Name \cup {None} :
          job' = [job EXCEPT ![t] =
                     [NoJob EXCEPT !.previous = p, !.write = n, !.id = tree']]
    /\ Goto(t, "previous")
    /\ UNCHANGED <<artifacts, rewriting, receipts, kept, temp, linked, moved, left, reported>>

(* A receipt that is not there, is being rewritten or has an invalid       *)
(* ledger is as good as none: only the reason given differs.               *)
Validated(r) == IF IsReceipt(r) /\ RoundsValid(r) THEN r ELSE None

ReadPrevious(t) ==
    /\ pc[t] = "previous"
    /\ LET p == IF job[t].previous = None THEN None
                ELSE Validated(receipts[job[t].previous])
       IN job' = [job EXCEPT ![t] = [job[t] EXCEPT !.previous = None, !.prior = p,
                                                   !.answer = Classify(p, job[t].id),
                                                   !.draft = Carry(p, job[t].id)]]
    /\ Goto(t, IF job[t].write = None THEN "report" ELSE "temp")
    /\ UNCHANGED <<world, receipts, kept, temp, linked, moved, left, history>>

(* Every entry that comes or goes changes the metadata of the directory.   *)
DirectoryChanges(t) ==
    moved' = moved \cup {u \in Terminal \ {t} : pc[u] \in {"check1", "check2"}}

(* The temporary file is created exclusively, written and synced.  Then    *)
(* the directory is bound: the held one and the one at its path, looked at *)
(* one after the other, must be the same and unchanged (Check).            *)
CreateTemp(t) ==
    /\ pc[t] = "temp"
    /\ temp' = temp \cup {t}
    /\ DirectoryChanges(t)
    /\ Goto(t, "check1")
    /\ UNCHANGED <<world, receipts, kept, job, linked, left, history>>

Check(t) ==
    /\ pc[t] \in {"check1", "check2"}
    /\ moved' = moved \ {t}
    /\ Goto(t, IF t \in moved THEN "withdraw"
               ELSE IF pc[t] = "check1" THEN "link" ELSE "clean")
    /\ UNCHANGED <<world, receipts, kept, job, temp, linked, left, history>>

(* linkSync refuses a name that is taken.                                  *)
Link(t) ==
    LET n == job[t].write
    IN /\ pc[t] = "link"
       /\ IF receipts[n] # None
          THEN /\ Goto(t, "withdraw")
               /\ UNCHANGED <<receipts, linked, moved>>
          ELSE /\ receipts' = [receipts EXCEPT ![n] =
                      [of |-> job[t].id, coverage |-> job[t].draft]]
               /\ linked' = linked \cup {t}
               /\ DirectoryChanges(t)
               /\ Goto(t, "sync")
       /\ UNCHANGED <<world, kept, job, temp, left, history>>

(* fsync of the directory; then it is bound again.                         *)
Sync(t) ==
    /\ pc[t] = "sync"
    /\ kept' = receipts
    /\ Goto(t, "check2")
    /\ UNCHANGED <<world, receipts, job, temp, linked, moved, left, history>>

(* Two mutants: the receipt is left there; whatever is at the target is    *)
(* removed.                                                                *)
NeverWithdraws(t) == FALSE
AlwaysWithdraws(t) == TRUE
(* Only a receipt that this command has linked is removed.                 *)
Withdraws(t) == t \in linked

(* The files of a command that are there, and those it leaves behind.      *)
Mine(t) ==
    (IF t \in linked THEN {"receipt"} ELSE {}) \cup (IF t \in temp THEN {"temporary"} ELSE {})
Leftovers(t, files, why) == {[name |-> job[t].write, file |-> f, cause |-> why] : f \in files}

Fault == count.faults < MaxFaults /\ count' = [count EXCEPT !.faults = @ + 1]

(* The catch of a step that failed, and the finally: both remove a file,   *)
(* and either removal may fail in its turn.                                *)
Withdraw(t) ==
    /\ pc[t] = "withdraw"
    /\ \E stays \in SUBSET Mine(t) :
          /\ receipts' = IF Withdraws(t) /\ "receipt" \notin stays
                         THEN [receipts EXCEPT ![job[t].write] = None] ELSE receipts
          /\ left' = left \cup Leftovers(t, stays, "NOT_REMOVED")
          /\ IF stays = {} THEN UNCHANGED count ELSE Fault
          /\ IF stays = Mine(t) THEN UNCHANGED moved ELSE DirectoryChanges(t)
    /\ temp' = temp \ {t}
    /\ Ends(t)
    /\ UNCHANGED <<world, kept, reported>>

(* An open, write, sync or stat that fails.                                *)
Break(t) ==
    /\ pc[t] \in {"temp", "check1", "link", "sync", "check2"}
    /\ moved' = moved \ {t}
    /\ Goto(t, "withdraw")
    /\ UNCHANGED <<world, receipts, kept, job, temp, linked, left, history>>

(* Finally the temporary file is removed.                                  *)
Clean(t) ==
    /\ pc[t] = "clean"
    /\ temp' = temp \ {t}
    /\ DirectoryChanges(t)
    /\ Goto(t, "report")
    /\ UNCHANGED <<world, receipts, kept, job, linked, left, history>>

(* If that fails, or only the close after it, the command does, although   *)
(* its receipt is linked and synced: the catch is behind it.               *)
FailClean(t) ==
    /\ pc[t] = "clean" /\ Fault
    /\ \/ /\ left' = left \cup Leftovers(t, Mine(t), "NOT_REMOVED")
          /\ UNCHANGED moved
       \/ /\ left' = left \cup Leftovers(t, Mine(t) \ {"temporary"}, "NOT_CLOSED")
          /\ DirectoryChanges(t)
    /\ temp' = temp \ {t}
    /\ Ends(t)
    /\ UNCHANGED <<world, receipts, kept, reported>>

Report(t) ==
    /\ pc[t] = "report"
    /\ reported' = reported \cup ({job[t].write} \ {None})
    /\ Ends(t)
    /\ UNCHANGED <<world, receipts, kept, temp, moved, left, count>>

Command(t) ==
    \/ Collect(t) \/ ReadPrevious(t) \/ CreateTemp(t) \/ Check(t)
    \/ Link(t) \/ Sync(t) \/ Withdraw(t) \/ Break(t) \/ Clean(t) \/ FailClean(t)
    \/ Report(t)

(* The files of a process that is killed stay.  The name of the temporary  *)
(* one is the process's own, and nobody looks at it again.                 *)
Kill(t) ==
    /\ pc[t] # "idle" /\ Fault
    /\ Ends(t)
    /\ left' = left \cup Leftovers(t, Mine(t), "KILLED")
    /\ temp' = temp \ {t} /\ moved' = moved \ {t}
    /\ UNCHANGED <<world, receipts, kept, reported>>

OfTheKilled == UNION {Leftovers(t, Mine(t), "KILLED") : t \in Terminal}
Unreported == {[name |-> n, file |-> "receipt", cause |-> "KILLED"] :
                  n \in {m \in Name \ reported : kept[m] # None}}

(* What was not synced may be there afterwards or not: a receipt that was  *)
(* withdrawn too.                                                          *)
PowerFailure ==
    /\ Fault
    /\ \E lost \in SUBSET {n \in Name : kept[n] # receipts[n]} :
          receipts' = [n \in Name |-> IF n \in lost THEN kept[n] ELSE receipts[n]]
    /\ kept' = receipts'
    /\ left' = left \cup OfTheKilled \cup Unreported
    /\ rewriting' = [n \in Name |-> None]
    /\ pc' = [t \in Terminal |-> "idle"]
    /\ job' = [t \in Terminal |-> NoJob]
    /\ temp' = {} /\ linked' = {} /\ moved' = {}
    /\ UNCHANGED <<tree, artifacts, reported>>

(***************************************************************************)
(* The supervisor.                                                         *)
(***************************************************************************)
(* A review, a mechanical check and the start of a round, of the content   *)
(* that a receipt is about.                                                *)
Reviews(of) ==
    {[kind |-> "foundation", of |-> of], [kind |-> "round", of |-> of]}
    \cup {[kind |-> "delta", of |-> of, from |-> e] : e \in Evidence \ {of.evidence}}

(* What the supervisor may record: that a round has started, or what came  *)
(* of the reviews; it adds what it has just reviewed or any earlier        *)
(* artifact, fitting or not.                                               *)
Recorded(r) ==
    LET Any(kind) == {a \in artifacts \cup Reviews(r.of) : a.kind = kind}
        c == r.coverage
    IN {[c EXCEPT !.rounds = @ \cup {a}] : a \in Any("round")}
       \cup UNION {[foundation : {c.foundation} \cup Any("foundation"),
                    deltas : {ds},
                    rounds : {c.rounds},
                    disposition : {c.disposition, Disposed(r.of, ds)}] :
                      ds \in {c.deltas} \cup {Append(c.deltas, d) : d \in Any("delta")}}

Cited(c) ==
    ({c.foundation} \ {None}) \cup {c.deltas[i] : i \in DOMAIN c.deltas} \cup c.rounds

(* It reviews the content of a reported receipt and rewrites the receipt   *)
(* in place: for a while the file is torn.                                 *)
BeginRecord(n) ==
    /\ count.records < MaxRecords
    /\ n \in reported /\ IsReceipt(receipts[n])
    /\ \E c \in Recorded(receipts[n]) :
          /\ artifacts' = artifacts \cup Cited(c)
          /\ Cardinality(artifacts') <= MaxArtifacts
          /\ rewriting' = [rewriting EXCEPT ![n] = [receipts[n] EXCEPT !.coverage = c]]
    /\ receipts' = [receipts EXCEPT ![n] = Torn]
    /\ count' = [count EXCEPT !.records = @ + 1]
    /\ UNCHANGED <<tree, kept, pc, job, temp, linked, moved, left, reported>>

EndRecord(n) ==
    /\ rewriting[n] # None
    /\ receipts' = [receipts EXCEPT ![n] = rewriting[n]]
    /\ kept' = [kept EXCEPT ![n] = rewriting[n]]
    /\ rewriting' = [rewriting EXCEPT ![n] = None]
    /\ UNCHANGED <<tree, artifacts, pc, job, temp, linked, moved, left, history>>

Next ==
    \/ \E t \in Terminal : Command(t) \/ Kill(t)
    \/ PowerFailure
    \/ \E n \in Name : BeginRecord(n) \/ EndRecord(n)

Spec == Init /\ [][Next]_vars

(***************************************************************************)
(* Properties.                                                             *)
(***************************************************************************)
Answers == {"NONE", "FULL_REVIEW_REQUIRED", "MATERIAL_DELTA", "UNCHANGED",
            "COMPOSABLE_OPERATIONAL_DELTA"}
Steps == {"idle", "previous", "temp", "check1", "link", "sync", "check2",
          "withdraw", "clean", "report"}

Job == [previous : Name \cup {None}, write : Name \cup {None}, id : Identity,
        prior : Receipt \cup {None}, answer : Answers, draft : Coverage]

Leftover == [name : Name \cup {None}, file : {"receipt", "temporary"},
             cause : {"NOT_REMOVED", "NOT_CLOSED", "KILLED"}]

TypeOK ==
    /\ tree \in Identity /\ artifacts \subseteq Artifact
    /\ receipts \in [Name -> Receipt \cup {None, Torn}]
    /\ kept \in [Name -> Receipt \cup {None, Torn}]
    /\ rewriting \in [Name -> Receipt \cup {None}]
    /\ pc \in [Terminal -> Steps] /\ job \in [Terminal -> Job]
    /\ temp \subseteq Terminal /\ linked \subseteq Terminal /\ moved \subseteq Terminal
    /\ left \subseteq Leftover
    /\ reported \subseteq Name
    /\ count \in [commands : Nat, changes : Nat, records : Nat, faults : Nat]

WasLeft(n) == \E l \in left : l.name = n /\ l.file = "receipt"

(* A receipt that was not reported is the work of a command that is still  *)
(* at it, or was left behind: by one that was killed, or that could not    *)
(* remove a file or close the directory in the end.  A temporary file is   *)
(* that of a command at work, or was left in the same way.                 *)
LeftoversHaveACause ==
    /\ \A n \in Name : IsReceipt(receipts[n]) /\ n \notin reported =>
             (\E t \in linked : job[t].write = n) \/ WasLeft(n)
    /\ \A t \in temp : pc[t] \notin {"idle", "previous", "temp", "report"}

(* Who has linked a receipt has it for itself, under a name that nobody    *)
(* has reported; once the directory was synced it survives a power failure,*)
(* as does what was reported.  Only that is rewritten.                     *)
LinksHeld ==
    /\ \A t \in Terminal :
          /\ pc[t] \in {"temp", "check1", "link"} => job[t].write # None
          /\ \/ pc[t] \in {"sync", "check2", "clean"}
             \/ pc[t] = "report" /\ job[t].write # None
             => t \in linked
          /\ pc[t] \in {"check2", "clean", "report"} /\ job[t].write # None =>
                kept[job[t].write] # None
    /\ \A t \in linked :
          /\ pc[t] \in {"sync", "check2", "withdraw", "clean", "report"}
          /\ job[t].write \in Name \ reported
          /\ receipts[job[t].write] # None
          /\ \A u \in linked : job[u].write = job[t].write => u = t
    /\ \A n \in reported : kept[n] # None
    /\ \A n \in Name : rewriting[n] # None => receipts[n] = Torn /\ n \in reported

(* No receipt refers to an artifact that is not there.                     *)
CitationsHeld ==
    /\ \A n \in Name : \A r \in {receipts[n], kept[n], rewriting[n]} :
          IsReceipt(r) => Cited(r.coverage) \subseteq artifacts
    /\ \A t \in Terminal : Cited(job[t].draft) \subseteq artifacts

(* The variables have their types, and a command that fails, whether over  *)
(* an error of the disk, a taken name or a directory that another command  *)
(* has changed, leaves neither its receipt nor its temporary file, unless  *)
(* it is killed or cannot remove the file or close the directory in the    *)
(* end (persistReceipt).  The other conjuncts make it inductive.           *)
CoverageInvariant == TypeOK /\ LeftoversHaveACause /\ LinksHeld /\ CitationsHeld

(* The evidences that were reviewed together with a content: by a          *)
(* foundation review, or by a chain of checks that starts at one.  None    *)
(* that is closed under the checks leaves one of them out.                 *)
WasReviewed(of) ==
    \A covered \in SUBSET Evidence :
       (\A a \in artifacts : a.kind # "round" /\ SameReview(a.of, of) =>
           \/ a.of.evidence \in covered
           \/ a.kind = "delta" /\ a.from \notin covered)
       => of.evidence \in covered

(* A command answers that nothing, or only the operational evidence, needs *)
(* to be looked at again only if somebody has reviewed this base, this     *)
(* plan revision and this material, together with the evidence of the      *)
(* previous receipt, whatever the supervisor wrote in that receipt; and it *)
(* carries over no review of another content (comparisonFor, main).        *)
ReuseIsEarned ==
    \A t \in Terminal :
       /\ job[t].answer \in {"UNCHANGED", "COMPOSABLE_OPERATIONAL_DELTA"} =>
             WasReviewed([job[t].id EXCEPT !.evidence = job[t].prior.of.evidence])
       /\ job[t].draft.foundation # None => WasReviewed(
             IF job[t].draft.disposition # None THEN job[t].id
             ELSE [job[t].id EXCEPT !.evidence = job[t].prior.of.evidence])

(* No round that was started in an increment is forgotten: whatever else   *)
(* has changed, base and material included, the new receipt has all rounds *)
(* of the previous one of the same increment (main).                       *)
LedgerSurvives ==
    \A t \in Terminal :
       IsReceipt(job[t].prior) /\ job[t].prior.of.increment = job[t].id.increment =>
          job[t].prior.coverage.rounds \subseteq job[t].draft.rounds

(* A receipt that was reported stays under its name for good, also when a  *)
(* later command fails on the same name, and when the power fails          *)
(* (persistReceipt: linkSync, the sync of the directory, the withdrawal).  *)
ReportedReceiptsStay == \A n \in reported : receipts[n] # None
=============================================================================
