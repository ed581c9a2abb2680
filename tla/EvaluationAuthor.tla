---------------------------- MODULE EvaluationAuthor ----------------------------
(***************************************************************************)
(* One run of the evaluation author: the request is prepared, the provider *)
(* is invoked through Promptfoo and Codex, a proxy beside Codex keeps a    *)
(* journal of what it sees, and the answer becomes a blueprint or an       *)
(* error.  Promptfoo, the proxy, the Codex process and the caller, who     *)
(* still holds the objects it passed, run at the same time as the author.  *)
(***************************************************************************)
EXTENDS Blueprint, Naturals, Sequences, SequencesExt

CONSTANTS
    Context,      \* authoring contexts a caller may pass, valid or not
    Candidate,    \* answers of the current protocol, usable or not
    Historical,   \* answers of the first two protocols
    NoText,       \* an answer that is not JSON
    Polls,        \* reads of the journal after a timeout (10)
    MaxChanges,   \* bound: changes the caller makes to its context
    MaxEdits      \* bound: edits of the blueprint that was kept

ASSUME PollsAssumption == Polls \in Nat \ {0}
ASSUME BoundAssumption == MaxChanges \in Nat /\ MaxEdits \in Nat

(* A context is its requirements and its missing facts, each missing once. *)
(* Facts are paths, which are not sections, and what the system makes      *)
(* identifiers of is not for authors (authoring-context.schema.json).      *)
ASSUME ContextAssumption ==
    /\ None \notin Context
    /\ \A ctx \in Context :
          /\ ctx = [requirements |-> ctx.requirements, missing |-> ctx.missing]
          /\ \A m, n \in ctx.missing : m.fact = n.fact => m = n
          /\ \A m \in ctx.missing : m.fact \notin Sections /\ Reserved(BlockerId(m.fact))
          /\ \A r \in ctx.requirements : Reserved(RequirementId(r.name))

(* The entries of a candidate that the schema lets pass have these fields  *)
(* and no others (evaluationBlueprintCandidateSchemaV3).                   *)
Shaped(c) ==
    /\ "trusted" \notin DOMAIN c
    /\ c.empty \subseteq Sections
    /\ \A x \in c.claims : /\ x = [id |-> x.id, requirement |-> x.requirement,
                                   type |-> x.type, evidence |-> x.evidence]
                            /\ NamesOwn(x.evidence)
    /\ \A x \in c.contracts : x = [id |-> x.id, claims |-> x.claims, evidence |-> x.evidence]
    /\ \A x \in c.families : x = [id |-> x.id, contracts |-> x.contracts]
    /\ \A x \in c.evidence : /\ x = [id |-> x.id, claims |-> x.claims,
                                     contracts |-> x.contracts, mandatory |-> x.mandatory,
                                     paths |-> x.paths]
                              /\ NamesOwn(x.claims \cup x.contracts)
    /\ \A x \in c.unresolved : x = [id |-> x.id, field |-> x.field, blocking |-> x.blocking,
                                    claims |-> x.claims]

ASSUME CandidateAssumption == \A c \in Candidate : c.shaped => Shaped(c)

(* How Promptfoo's evaluation ends: with a text, or with the message of    *)
(* one of its own timers, of an aborted Codex turn, of another abort, of   *)
(* another failure; or without a result.  If Promptfoo itself cannot be    *)
(* loaded there is no evaluation, and its failure is caught by the author  *)
(* and not by the invoker.                                                 *)
Timeouts == {"STEP_TIMEOUT", "EVALUATION_TIMEOUT"}
Endings == Timeouts \cup {"OUTPUT", "CODEX_TURN", "ABORTED", "FAILED", "NO_RESULT",
                        "NOT_LOADED"}

(* What Codex prints in a turn; it may stop anywhere.                      *)
Turns == {<<"thread", "turn", "item", "completed">>, <<"thread", "turn", "failed">>}

VARIABLES
    pc,        \* what the author does next
    protocol,  \* 3, or 2 for the historical ones
    watched,   \* the run has an observation session
    labelled,  \* its campaign has a name, the snapshot's fingerprint is a digest
    context,   \* the caller's context, which it may change
    sent,      \* the frozen copy the prompt was made from
    ending,    \* how the evaluation ended (None: it has not)
    answer,    \* the text it returns when it ends with one
    script,    \* what Codex has still to print
    pending,   \* what it has printed and the proxy has not seen yet
    proxy,     \* the proxy: absent, starting, running, leaving (its child is gone), gone
    signal,    \* a signal is on its way to the proxy
    created,   \* there is a journal
    journal,   \* the events in it
    attempt,   \* reads of the journal so far
    report,    \* the observation that was reported
    result,    \* the result of the run
    kept,      \* the blueprint on disk
    accepted,  \* what a later reader takes from there
    count,     \* invocations, changes of the context and edits so far
    cancelled  \* history: the value of "attempt" when a signal was recorded

provider == <<ending, answer, signal>>
process == <<script, pending, proxy, created, journal, cancelled>>
reading == <<attempt, report>>
outcome == <<result, kept, accepted>>
vars == <<pc, protocol, watched, labelled, context, sent, ending, answer, script, pending,
          proxy, signal, created, journal, attempt, report, result, kept, accepted, count,
          cancelled>>

Unreported ==
    [requested |-> FALSE, cancelled |-> "null", progress |-> "null", stage |-> "UNREPORTED",
     owner |-> "null"]
Reported == report # Unreported

Unfinished == [status |-> "NONE"]

Init ==
    /\ pc = "idle" /\ protocol \in {2, 3} /\ watched \in BOOLEAN /\ labelled \in BOOLEAN
    /\ context \in Context /\ sent = None
    /\ ending = None /\ signal = FALSE
    /\ answer \in {NoText} \cup (IF protocol = 3 THEN Candidate ELSE Historical)
    /\ script \in Turns /\ pending = <<>> /\ proxy = "absent"
    /\ created = FALSE /\ journal = <<>> /\ cancelled = None
    /\ attempt = 0 /\ report = Unreported
    /\ result = Unfinished /\ kept = None /\ accepted = None
    /\ count = [invocations |-> 0, changes |-> 0, edits |-> 0]

(***************************************************************************)
(* The author.                                                             *)
(***************************************************************************)
(* prepareAuthorInvocation checks the arguments and freezes copies; the    *)
(* provider is invoked in the same step.                                   *)
Start ==
    /\ pc = "idle"
    /\ IF protocol = 3 /\ ~ContextValid(context)
       THEN /\ pc' = "done"
            /\ result' = [status |-> "THROWN", code |-> "AUTHORING_CONTEXT_INVALID"]
            /\ UNCHANGED <<sent, count>>
       ELSE /\ pc' = "invoked"
            /\ sent' = context
            /\ count' = [count EXCEPT !.invocations = @ + 1]
            /\ UNCHANGED result
    /\ UNCHANGED <<protocol, watched, labelled, context, provider, process, reading, kept,
                   accepted>>

(* Mutants: only a failure is observed; a rejection is not handled.        *)
ObservesFailures(end) ==
    IF watched /\ end \notin {"OUTPUT", "NOT_LOADED"} THEN "reading" ELSE "deciding"
LosesRejection(end) ==
    IF end \notin {"OUTPUT", "NO_RESULT"} THEN "invoked"
    ELSE IF watched THEN "reading" ELSE "deciding"

(* The promise of the evaluation settles; an observed run then reads the   *)
(* journal, whether it was fulfilled or rejected.  If Promptfoo was not    *)
(* loaded the journal is not read.                                         *)
NextAfter(end) == IF watched /\ end # "NOT_LOADED" THEN "reading" ELSE "deciding"

Return ==
    /\ pc = "invoked" /\ ending # None
    /\ pc' = NextAfter(ending)
    /\ UNCHANGED <<protocol, watched, labelled, context, sent, provider, process, reading,
                   outcome, count>>

(* readCodexObservation.  After a timeout of Promptfoo the journal is read *)
(* until it tells of the signal, but a bounded number of times.            *)
Requested == ending \in Timeouts
Tells(events) == "signal" \in Range(events)

ReadsAgain == Requested /\ ~Tells(journal) /\ attempt + 1 < Polls

(* What Codex says of its turn; the last of TurnEnds tells how it ended.   *)
Progress == {"thread", "turn", "item", "completed", "failed"}
TurnEnds(events) == {i \in DOMAIN events : events[i] \in {"completed", "failed"}}

(* A mutant: the last event tells the stage.                               *)
LastEvent(events) == IF events = <<>> THEN "NONE" ELSE Last(events)
Stage(events) ==
    IF TurnEnds(events) # {} THEN events[Max(TurnEnds(events))]
    ELSE IF events = <<>> THEN "NONE"
    ELSE IF Last(events) = "signal" THEN "UNKNOWN" ELSE Last(events)

YesNo(condition) == IF ~created THEN "null" ELSE IF condition THEN "yes" ELSE "no"

Observed ==
    [requested |-> Requested,
     cancelled |-> YesNo(Requested /\ Tells(journal)),
     progress |-> YesNo(Range(journal) \cap Progress # {}),
     stage |-> IF created THEN Stage(journal) ELSE "UNKNOWN",
     owner |-> CASE ending = "STEP_TIMEOUT" -> "PROMPTFOO_STEP"
                 [] ending = "EVALUATION_TIMEOUT" -> "PROMPTFOO_EVALUATION"
                 [] ending = "CODEX_TURN" -> "CODEX_TURN"
                 [] ending = "ABORTED" -> "UNKNOWN"
                 [] OTHER -> "null"]

ReadJournal ==
    /\ pc = "reading"
    /\ attempt' = attempt + 1
    /\ IF ReadsAgain
       THEN UNCHANGED <<pc, report>>
       ELSE pc' = "deciding" /\ report' = Observed
    /\ UNCHANGED <<protocol, watched, labelled, context, sent, provider, process, outcome,
                   count>>

Error(code) == [status |-> "ERROR", code |-> code]

(* A mutant: the candidate is judged and composed with the caller's        *)
(* context of the moment.                                                  *)
CallersContext == context
Trusted == sent

(* A mutant: the identifiers of the system are not refused.                *)
UsableAnyId(c) ==
    /\ c.shaped
    /\ \A x \in c.claims :
          x.requirement # None => \E r \in Trusted.requirements : r.name = x.requirement
IsUsable(c) == Usable(c, Trusted)

(* The packet is the prompt: the context with everything else, which does  *)
(* not change.                                                             *)
Composed(c) ==
    LET content == Compose(c, Trusted)
    IN Blueprint(content, Lifecycle(Diagnostics(c, Trusted), content.unresolved), Trusted, sent,
                 labelled)

HistoricalBlueprint(c) ==
    [content |-> c, state |-> Lifecycle(HistoricalDiagnostics(c), c.unresolved)]

Decided ==
    IF ending # "OUTPUT" THEN Error("PROVIDER_ERROR")
    ELSE IF answer = NoText THEN Error("INVALID_JSON")
    ELSE IF protocol = 3
    THEN IF ~IsUsable(answer) THEN Error("CANDIDATE_STRUCTURALLY_INVALID")
         ELSE IF ~BlueprintValid(Composed(answer)) THEN Error("COMPOSED_BLUEPRINT_INVALID")
         ELSE [status |-> "COMPLETED", blueprint |-> Composed(answer)]
    ELSE IF ~answer.shaped THEN Error("CANDIDATE_STRUCTURALLY_INVALID")
    ELSE IF ~labelled THEN Error("COMPOSED_BLUEPRINT_INVALID")
    ELSE [status |-> "COMPLETED", blueprint |-> HistoricalBlueprint(answer)]

Decide ==
    /\ pc = "deciding"
    /\ result' = Decided
    /\ kept' = IF result'.status = "COMPLETED" THEN result'.blueprint ELSE None
    /\ pc' = "done"
    /\ UNCHANGED <<protocol, watched, labelled, context, sent, provider, process, reading,
                   accepted, count>>

(* Whoever uses the kept blueprint validates it again.                     *)
Reread ==
    /\ pc = "done" /\ protocol = 3 /\ kept # None
    /\ accepted' = IF BlueprintValid(kept) THEN kept ELSE None
    /\ UNCHANGED <<pc, protocol, watched, labelled, context, sent, provider, process,
                   reading, result, kept, count>>

Author == Start \/ Return \/ ReadJournal \/ Decide

(***************************************************************************)
(* Promptfoo and Codex.                                                    *)
(***************************************************************************)
(* Promptfoo's timer aborts the turn, which signals the proxy; the message *)
(* may be there before the signal has arrived.  Promptfoo starts the proxy, *)
(* so that there is none if it was not loaded.                             *)
Settle ==
    /\ pc = "invoked" /\ ending = None
    /\ ending' \in Endings
    /\ ending' = "NOT_LOADED" => proxy = "absent"
    /\ signal' = (ending' \in Timeouts)
    /\ UNCHANGED <<pc, answer, protocol, watched, labelled, context, sent, process,
                   reading, outcome, count>>

Recorded(e) == journal' = Append(journal, e)
(* What the proxy does after the journal was read last is left out: nobody *)
(* reads it any more.                                                      *)
Running == pc \in {"invoked", "reading"} /\ watched
Others == <<pc, protocol, watched, labelled, context, sent, ending, answer, reading,
            outcome, count>>

(* The first record creates the journal and is then written there.         *)
StartProxy ==
    /\ Running /\ proxy = "absent" /\ ending = None
    /\ proxy' = "starting" /\ created' = TRUE
    /\ UNCHANGED <<Others, script, pending, signal, journal, cancelled>>

RecordStart ==
    /\ Running /\ proxy = "starting"
    /\ proxy' = "running"
    /\ Recorded("process")
    /\ UNCHANGED <<Others, script, pending, signal, created, cancelled>>

Emit ==
    /\ Running /\ proxy = "running" /\ script # <<>>
    /\ pending' = Append(pending, Head(script))
    /\ script' = Tail(script)
    /\ UNCHANGED <<Others, proxy, signal, created, journal, cancelled>>

(* The output of the child may come after its exit.                        *)
Relay ==
    /\ Running /\ proxy \in {"running", "leaving"} /\ pending # <<>>
    /\ Recorded(Head(pending))
    /\ pending' = Tail(pending)
    /\ UNCHANGED <<Others, script, proxy, signal, created, cancelled>>

ObserveSignal ==
    /\ Running /\ proxy \in {"running", "leaving"} /\ signal
    /\ Recorded("signal")
    /\ cancelled' = IF cancelled = None THEN attempt ELSE cancelled
    /\ signal' = FALSE
    /\ UNCHANGED <<Others, script, pending, proxy, created>>

(* The child ends by itself or by the signal that was passed on.           *)
Exit ==
    /\ Running /\ proxy = "running"
    /\ Recorded("exit")
    /\ proxy' = "leaving"
    /\ UNCHANGED <<Others, script, pending, signal, created, cancelled>>

(* The proxy ends; it may also be killed, and what is pending is lost.     *)
Leave ==
    /\ Running /\ proxy \in {"starting", "running", "leaving"}
    /\ proxy' = "gone"
    /\ UNCHANGED <<Others, script, pending, signal, created, journal, cancelled>>

(* Somebody interrupts the process group.                                  *)
Interrupt ==
    /\ Running /\ proxy = "running" /\ ~signal /\ cancelled = None
    /\ signal' = TRUE
    /\ UNCHANGED <<Others, process>>

Proxy == StartProxy \/ RecordStart \/ Emit \/ Relay \/ ObserveSignal \/ Exit \/ Leave \/ Interrupt

(***************************************************************************)
(* The caller changes its context while it waits; later somebody edits the *)
(* kept blueprint: alone, with its identifier, or with the fingerprint of  *)
(* the context as well.                                                    *)
(***************************************************************************)
ChangeContext ==
    /\ pc = "invoked" /\ count.changes < MaxChanges
    /\ context' \in Context \ {context}
    /\ count' = [count EXCEPT !.changes = @ + 1]
    /\ UNCHANGED <<pc, protocol, watched, labelled, sent, provider, process, reading,
                   outcome>>

Edits(b) ==
    {[b EXCEPT !.state = s] : s \in {"DRAFT", "BLOCKED", "READY"}}
    \cup {[b EXCEPT !.content.unresolved = @ \ {u}] : u \in b.content.unresolved}
    \cup {[b EXCEPT !.content.missing = {}], [b EXCEPT !.context.missing = {}]}
    \cup {[b EXCEPT !.content.evidence = {[e EXCEPT !.mandatory = FALSE] : e \in @}],
          [b EXCEPT !.content.trusted = {[r EXCEPT !.mandatory = FALSE] : r \in @}],
          [b EXCEPT !.content.claims = {[c EXCEPT !.flags.mandatory = FALSE] : c \in @}]}

Edit ==
    /\ pc = "done" /\ protocol = 3 /\ kept # None /\ count.edits < MaxEdits
    /\ \E b \in Edits(kept) :
          kept' \in {b, Blueprint(b.content, b.state, b.context, b.packet, b.labelled),
                     Blueprint(b.content, b.state, ContextOf(b.content), b.packet, b.labelled)}
    /\ accepted' = None
    /\ count' = [count EXCEPT !.edits = @ + 1]
    /\ UNCHANGED <<pc, protocol, watched, labelled, context, sent, provider, process,
                   reading, result>>

Next == Author \/ Reread \/ Settle \/ Proxy \/ ChangeContext \/ Edit

Spec == Init /\ [][Next]_vars

(* The author's own steps happen, and Promptfoo's timers end the           *)
(* evaluation.                                                             *)
FairSpec == Spec /\ WF_vars(Author) /\ WF_vars(Settle)

(***************************************************************************)
(* Properties.                                                             *)
(***************************************************************************)
Events == Progress \cup {"process", "signal", "exit"}

Reports ==
    [requested : BOOLEAN, cancelled : {"null", "yes", "no"}, progress : {"null", "yes", "no"},
     stage : Progress \cup {"process", "exit", "NONE", "UNKNOWN", "UNREPORTED"},
     owner : {"PROMPTFOO_STEP", "PROMPTFOO_EVALUATION", "CODEX_TURN", "UNKNOWN", "null"}]

TypeOK ==
    /\ pc \in {"idle", "invoked", "reading", "deciding", "done"}
    /\ protocol \in {2, 3} /\ watched \in BOOLEAN /\ labelled \in BOOLEAN
    /\ context \in Context /\ sent \in Context \cup {None}
    /\ ending \in Endings \cup {None} /\ signal \in BOOLEAN
    /\ answer \in {NoText} \cup (IF protocol = 3 THEN Candidate ELSE Historical)
    /\ script \in Seq(Progress) /\ pending \in Seq(Progress)
    /\ proxy \in {"absent", "starting", "running", "leaving", "gone"}
    /\ created \in BOOLEAN /\ journal \in Seq(Events)
    /\ attempt \in 0..Polls /\ cancelled \in (0..Polls) \cup {None}
    /\ report \in Reports
    /\ result.status \in {"NONE", "THROWN", "ERROR", "COMPLETED"}
    /\ count \in [invocations : 0..1, changes : 0..MaxChanges, edits : 0..MaxEdits]

(* A run calls the invoker once at most.  When it has ended, it reports an *)
(* observation exactly if it has a session, has called the invoker, and    *)
(* Promptfoo was there to be called (authorEvaluationBlueprint,            *)
(* createPromptfooAuthorInvoker, maxRetries 0).                            *)
Observable == watched /\ ending # "NOT_LOADED"

RunsOnce ==
    /\ count.invocations = IF sent = None THEN 0 ELSE 1
    /\ pc = "done" => (Reported <=> Observable /\ sent # None)

(* What makes it inductive: how far a run has come at each step.           *)
StepsHeld ==
    /\ pc = "idle" => sent = None
    /\ pc \in {"invoked", "reading", "deciding"} => sent # None
    /\ protocol = 3 /\ sent # None => ContextValid(sent)
    /\ pc \in {"idle", "invoked"} => attempt = 0
    /\ pc = "reading" => Observable /\ attempt < Polls
    /\ pc \in {"idle", "invoked", "reading"} => ~Reported
    /\ pc = "deciding" => (Reported <=> Observable)
    /\ result.status # "NONE" <=> pc = "done"

RunInvariant == TypeOK /\ RunsOnce /\ StepsHeld

(* A signal that the proxy has recorded before the last read of the        *)
(* journal is reported when Promptfoo's timer asked for it, whichever of   *)
(* message and signal came first; one that nobody asked for is never       *)
(* reported (readCodexObservation).                                        *)
CancellationIsReported ==
    Reported =>
       /\ report.cancelled = "yes" => report.requested /\ Tells(journal)
       /\ report.requested /\ cancelled # None /\ cancelled < Polls /\ cancelled < attempt =>
             report.cancelled = "yes"
       /\ report.requested /\ report.cancelled # "yes" => attempt = Polls

(* If the end of the turn was in the journal when it was read last, that   *)
(* is the stage that is reported, also when exit or signal were recorded   *)
(* before or after it (observationStage).                                  *)
StageTellsTheTurn ==
    Reported /\ Range(journal) \cap {"completed", "failed"} # {} =>
        report.stage \in Range(journal) \cap {"completed", "failed"}

(* The journal is there before anything is recorded, and a signal that was *)
(* counted is in it.                                                       *)
JournalHeld ==
    /\ created <=> proxy # "absent"
    /\ ~created => journal = <<>>
    /\ cancelled # None => Tells(journal)

(* What is reported of the turn is what the journal tells: its stage, and  *)
(* whether the cancellation that was asked for was seen.                   *)
ObservationIsTrue == CancellationIsReported /\ StageTellsTheTurn /\ JournalHeld

(* A blueprint holds the context that the provider was given, whatever the *)
(* caller has done to its objects since (canonicalFrozenCopy).             *)
BlueprintIsOfThePacket ==
    result.status = "COMPLETED" /\ protocol = 3 =>
        /\ result.blueprint.context = sent
        /\ ContextOf(result.blueprint.content) = sent

(* A usable candidate is refused after it was composed for two reasons     *)
(* only: the run is not labelled, or a question of the author concerns     *)
(* something the system names.  Otherwise what the system adds collides    *)
(* with nothing the author wrote, and the state that was derived from the  *)
(* candidate is that of the blueprint                                      *)
(* (validateComposedEvaluationBlueprint).                                  *)
RefusedWithCause ==
    result = Error("COMPOSED_BLUEPRINT_INVALID") =>
       \/ ~labelled
       \/ protocol = 3 /\ \E u \in answer.unresolved : ~NamesOwn(u.claims)

(* A blueprint that is READY, when it is made or when it is read again     *)
(* after any edits, keeps what READY promises.                             *)
ReadyIsEarned ==
    /\ result.status = "COMPLETED" /\ protocol = 3
       /\ result.blueprint.state = "READY" => Earned(result.blueprint.content)
    /\ accepted # None /\ accepted.state = "READY" => Earned(accepted.content)

(* Every run ends.                                                         *)
RunEnds == pc = "invoked" ~> pc = "done"
=============================================================================
