---------------------------- MODULE LiveExperiment ----------------------------
(***************************************************************************)
(* One campaign of live experiments: experiments/cli.ts and the freeze,     *)
(* budget, run and report modules behind it.                                *)
(*                                                                          *)
(* Operators at several terminals run the commands "freeze", "e1",          *)
(* "e2-baseline", "e2-deep" and "report" on the same campaign directory, in *)
(* any order and at the same time, and a command may be killed.  An         *)
(* experiment compares the instrument with the freeze, reserves its kind by *)
(* the exclusive creation of a file, calls the provider once, persists what *)
(* it got and curates it.  The instrument (lockfile, manifest, commit,      *)
(* Codex home) may change under a running command, after the comparison     *)
(* too.                                                                     *)
(***************************************************************************)
EXTENDS Naturals, FiniteSets

CONSTANTS Kind,        \* the kinds of experiment the campaign runs
          Terminal,    \* where commands are run, one after the other
          Version,     \* what the fingerprint of the instrument can be
          NoVersion,   \* no fingerprint taken
          NoTerminal,  \* the mark of a reservation nobody made
          MaxCommands  \* a bound on the commands run, for TLC alone

ASSUME NoVersionAssumption == NoVersion \notin Version
ASSUME NoTerminalAssumption == NoTerminal \notin Terminal

\* The code has these three kinds; a model may leave the first one out.
ASSUME KindAssumption ==
  {"e2-baseline", "e2-deep"} \subseteq Kind /\ Kind \subseteq {"e1", "e2-baseline", "e2-deep"}
ASSUME VersionAssumption == {"ABSENT", "PARTIAL"} \cap Version = {}

Budget == 3                              \* totalStarted > 3 is refused
RawFile == {"summary", "traces"}
\* ERROR stands for INVALID_CANARY too: every gate asks for PASS.  What a raw
\* file holds is named by the status that its evidence leads to, and a file
\* that a failed write left without readable content is TORN.
Status == {"PASS", "ERROR"}

VARIABLES
  run,         \* run[t]: the command at t, its local state and, as a history, in
               \* "drift" whether the instrument changed after it was compared
  instrument,  \* the fingerprint of the instrument now
  freeze,      \* freeze.json: "ABSENT", "PARTIAL" or the frozen fingerprint
  reservation, \* reservation[k]: reservations/<k>.json
  ledger,      \* budget-ledger.json: its state and the kinds it lists
  raw,         \* raw[k][f]: raw/<k>-<f>.json
  curated,     \* curated[k]: <k>-curated.json
  reports,     \* the curated files below docs/experiments
  \* History, which no guard reads:
  holder,      \* holder[k]: the terminal whose command reserved k
  calls,       \* calls[k]: provider invocations started for k
  checked,     \* checked[k]: the fingerprint compared before the call
  answered,    \* answered[k]: what the provider answered
  result,      \* result[k]: the status the command of k returned
  fault,       \* fault[k]: failures of the command that reserved k
  started      \* commands run so far

files == <<freeze, reservation, ledger, raw, curated, reports>>
history == <<holder, calls, checked, answered, result, fault, started>>
vars == <<run, instrument, files, history>>

Idle == [pc |-> "IDLE", command |-> "NONE", compared |-> NoVersion, listed |-> {},
         answer |-> "NONE", verdict |-> "NONE", pending |-> {}, drift |-> "NONE"]

\* No experiment has been started and no report written.
Fresh ==
  /\ reservation = [k \in Kind |-> "ABSENT"]
  /\ ledger = [state |-> "ABSENT", kinds |-> {}]
  /\ raw = [k \in Kind |-> [f \in RawFile |-> "ABSENT"]]
  /\ curated = [k \in Kind |-> "ABSENT"]
  /\ reports = [state |-> "ABSENT", g2 |-> "NONE"]
  /\ holder = [k \in Kind |-> NoTerminal]
  /\ calls = [k \in Kind |-> 0]
  /\ checked = [k \in Kind |-> NoVersion]
  /\ answered = [k \in Kind |-> "NONE"]
  /\ result = [k \in Kind |-> "NONE"]
  /\ fault = [k \in Kind |-> {}]

Init ==
  /\ Fresh /\ freeze = "ABSENT"
  /\ run = [t \in Terminal |-> Idle]
  /\ instrument \in Version
  /\ started = 0

-----------------------------------------------------------------------------
(* Commands. *)

kind(t) == run[t].command

At(t, pc) == run[t].pc = pc
MoveTo(t, pc) == run' = [run EXCEPT ![t].pc = pc]
Stop(t) == run' = [run EXCEPT ![t] = Idle]

\* Notes that the command that reserved k failed somewhere, or persisted its
\* error over a write still under way (LATE).
Blame(k, what) == fault' = [fault EXCEPT ![k] = @ \cup {what}]

First(command) ==
  CASE command = "freeze" -> "FINGERPRINT"
    [] command = "report" -> "READ"
    [] command \in Kind -> "LOAD"

\* The command line is well formed and, but for "report", the worktree is
\* clean; for an experiment the Codex home is writable and no forbidden
\* credential is set.  A terminal takes the next command when the event loop
\* of the last one is empty.
Start(t, command) ==
  /\ At(t, "IDLE") /\ run[t].pending = {}
  /\ started < MaxCommands
  /\ started' = started + 1
  /\ run' = [run EXCEPT ![t] = [@ EXCEPT !.pc = First(command), !.command = command]]
  /\ UNCHANGED <<instrument, files, holder, calls, checked, answered, result, fault>>

\* A check or a read fails before the command has changed anything.
Abort(t) ==
  /\ run[t].pc \in {"FINGERPRINT", "CREATE", "LOAD", "COMPARE", "GATE", "READ",
                    "READ_TRACES", "WRITE_REPORTS"}
  /\ Stop(t)
  /\ UNCHANGED <<instrument, files, history>>

\* Where a command has compared the instrument and not yet called the provider.
Compared == {"GATE", "RESERVE", "RECORD", "LIST", "LEDGER", "WRITE_LEDGER", "ISOLATE"}

\* The lockfile, the manifest, the commit or the Codex home changes.
Drift ==
  /\ instrument' \in Version \ {instrument}
  /\ run' = [t \in Terminal |->
       IF run[t].pc \in Compared THEN [run[t] EXCEPT !.drift = "SEEN"] ELSE run[t]]
  /\ UNCHANGED <<files, history>>

\* writeFile(path, ..., { flag: 'wx' })
ExclusiveCreates(file) == file = "ABSENT"

-----------------------------------------------------------------------------
(* freeze: createInstrumentFreeze. *)

Fingerprint(t) ==
  /\ At(t, "FINGERPRINT")
  /\ run' = [run EXCEPT ![t] = [@ EXCEPT !.pc = "CREATE", !.compared = instrument]]
  /\ UNCHANGED <<instrument, files, history>>

CreateFreeze(t) ==
  /\ At(t, "CREATE") /\ ExclusiveCreates(freeze)
  /\ MoveTo(t, "WRITE_FREEZE")
  /\ freeze' = "PARTIAL"
  /\ UNCHANGED <<instrument, reservation, ledger, raw, curated, reports, history>>

WriteFreeze(t) ==
  /\ At(t, "WRITE_FREEZE")
  /\ Stop(t)
  /\ freeze' = run[t].compared
  /\ UNCHANGED <<instrument, reservation, ledger, raw, curated, reports, history>>

\* A torn file stays: it can be neither loaded nor created again.  A close that
\* fails leaves a whole one.
FailFreeze(t) ==
  /\ At(t, "WRITE_FREEZE")
  /\ Stop(t)
  /\ freeze' \in {freeze, run[t].compared}
  /\ UNCHANGED <<instrument, reservation, ledger, raw, curated, reports, history>>

-----------------------------------------------------------------------------
(* An experiment: runLiveExperiment, up to the reservation. *)

\* loadFreeze: without a whole freeze there is nothing to parse (Abort).
LoadFreeze(t) ==
  /\ At(t, "LOAD") /\ freeze \in Version
  /\ MoveTo(t, "COMPARE")
  /\ UNCHANGED <<instrument, files, history>>

IgnoresDrift(t) ==
  /\ At(t, "COMPARE")
  /\ run' = [run EXCEPT ![t] = [@ EXCEPT !.pc = "GATE", !.compared = freeze]]
  /\ UNCHANGED <<instrument, files, history>>

\* assertFreezeCurrent fingerprints the instrument of now.
AssertFreezeCurrent(t) ==
  /\ At(t, "COMPARE") /\ instrument = freeze
  /\ run' = [run EXCEPT ![t] = [@ EXCEPT !.pc = "GATE", !.compared = instrument]]
  /\ UNCHANGED <<instrument, files, history>>

NeedsOnlyAReport(k) == k = "e2-deep" => curated["e2-baseline"] # "ABSENT"

\* The condition of assertBaselineCanaryPassed
BaselineCanaryPassed(k) == k = "e2-deep" => curated["e2-baseline"] = "PASS"

\* The gate, and the workspace; the try block begins.
PassGate(t) ==
  /\ At(t, "GATE") /\ BaselineCanaryPassed(kind(t))
  /\ MoveTo(t, "RESERVE")
  /\ UNCHANGED <<instrument, files, history>>

\* reserveProviderInvocation
Reserve(t) ==
  /\ At(t, "RESERVE") /\ ExclusiveCreates(reservation[kind(t)])
  /\ MoveTo(t, "RECORD")
  /\ reservation' = [reservation EXCEPT ![kind(t)] = "EMPTY"]
  /\ holder' = [holder EXCEPT ![kind(t)] = t]
  /\ UNCHANGED <<instrument, freeze, ledger, raw, curated, reports, calls, checked, answered,
                 result, fault, started>>

WaitsForReservation(t) ==
  /\ At(t, "RESERVE")
  /\ MoveTo(t, "RESERVE")
  /\ UNCHANGED <<instrument, files, history>>

\* Already started, or a directory or file that cannot be made.
RefuseReservation(t) ==
  /\ At(t, "RESERVE")
  /\ MoveTo(t, "DISPOSE")
  /\ UNCHANGED <<instrument, files, history>>

Record(t) ==
  /\ At(t, "RECORD")
  /\ MoveTo(t, "LIST")
  /\ reservation' = [reservation EXCEPT ![kind(t)] = "WRITTEN"]
  /\ UNCHANGED <<instrument, freeze, ledger, raw, curated, reports, history>>

\* writeLedger reads the directory...
ListReservations(t) ==
  /\ At(t, "LIST")
  /\ run' = [run EXCEPT ![t] =
       [@ EXCEPT !.pc = "LEDGER", !.listed = {k \in Kind : reservation[k] # "ABSENT"}]]
  /\ UNCHANGED <<instrument, files, history>>

\* ...and replaces the ledger, which no command reads: the file is cut to
\* nothing...
OpenLedger(t) ==
  /\ At(t, "LEDGER")
  /\ MoveTo(t, "WRITE_LEDGER")
  /\ ledger' = [state |-> "TORN", kinds |-> {}]
  /\ UNCHANGED <<instrument, freeze, reservation, raw, curated, reports, history>>

\* ...and written.  A mixture may be left when another command writes its own
\* list in the meantime.
LedgersLeft(t) ==
  {[state |-> "WHOLE", kinds |-> run[t].listed]} \cup
    IF ledger.state = "WHOLE" \/ \E u \in Terminal \ {t} : At(u, "WRITE_LEDGER")
    THEN {[state |-> "TORN", kinds |-> {}]} ELSE {}

WriteLedger(t) ==
  /\ At(t, "WRITE_LEDGER")
  /\ MoveTo(t, IF Cardinality(run[t].listed) > Budget THEN "DISPOSE" ELSE "ISOLATE")
  /\ ledger' \in LedgersLeft(t)
  /\ UNCHANGED <<instrument, freeze, reservation, raw, curated, reports, history>>

\* The reservation, the ledger or the raw directory fails: the kind stays
\* reserved, and the provider is not called.  The file that was being written
\* stays as it is, or is whole when only its close failed.
FailReservation(t) ==
  /\ run[t].pc \in {"RECORD", "LIST", "LEDGER", "WRITE_LEDGER", "ISOLATE"}
  /\ MoveTo(t, "DISPOSE")
  /\ Blame(kind(t), "FAILED")
  /\ reservation' = reservation \/
       (At(t, "RECORD") /\ reservation' = [reservation EXCEPT ![kind(t)] = "WRITTEN"])
  /\ ledger' = ledger \/ (At(t, "WRITE_LEDGER") /\ ledger' \in LedgersLeft(t))
  /\ UNCHANGED <<instrument, freeze, raw, curated, reports, holder, calls, checked,
                 answered, result, started>>

-----------------------------------------------------------------------------
(* The provider, inside withPromptfooIsolation. *)

Invoke(t) ==
  /\ At(t, "ISOLATE")
  /\ run' = [run EXCEPT ![t] = [@ EXCEPT !.pc = "AWAIT", !.drift = "NONE"]]
  /\ calls' = [calls EXCEPT ![kind(t)] = @ + 1]
  /\ checked' = [checked EXCEPT ![kind(t)] = run[t].compared]
  /\ UNCHANGED <<instrument, files, holder, answered, result, fault, started>>

\* The isolated storage or the Promptfoo module cannot be had.
FailIsolation(t) ==
  /\ At(t, "ISOLATE")
  /\ MoveTo(t, "CATCH")
  /\ Blame(kind(t), "FAILED")
  /\ UNCHANGED <<instrument, files, holder, calls, checked, answered, result, started>>

Write(f, content, batch) == [file |-> f, content |-> content, batch |-> batch]

\* Promise.all over persistArtifact of the summary and of the traces.
Batch(content, batch) ==
  {Write(f, content, batch) : f \in RawFile}

RetriesProviderError(t) ==
  /\ At(t, "AWAIT")
  /\ \/ MoveTo(t, "CATCH") /\ calls[kind(t)] = 2
     \/ MoveTo(t, "ISOLATE") /\ calls[kind(t)] < 2
  /\ answered' = [answered EXCEPT ![kind(t)] = "ERROR"]
  /\ UNCHANGED <<instrument, files, holder, calls, checked, result, fault, started>>

\* evaluate or the collection of its summary and traces throws.
ProviderThrows(t) ==
  /\ At(t, "AWAIT")
  /\ MoveTo(t, "CATCH")
  /\ answered' = [answered EXCEPT ![kind(t)] = "ERROR"]
  /\ UNCHANGED <<instrument, files, holder, calls, checked, result, fault, started>>

\* An answer is what assessE1 or assessCanary makes of the summary and of the
\* workspace the provider leaves.
ProviderAnswers(t) ==
  /\ At(t, "AWAIT")
  /\ \E a \in Status :
       /\ run' = [run EXCEPT ![t] =
            [@ EXCEPT !.pc = "PERSIST", !.answer = a, !.pending = Batch(a, 1)]]
       /\ answered' = [answered EXCEPT ![kind(t)] = a]
  /\ UNCHANGED <<instrument, files, holder, calls, checked, result, fault, started>>

Current(t) == {w \in run[t].pending : w.batch = IF At(t, "PERSIST_ERROR") THEN 2 ELSE 1}

\* One write ends.  Where the writes of two batches to a file overlap a mixture
\* of both may be left.
WriteRaw(t) ==
  \E w \in run[t].pending :
    /\ run' = [run EXCEPT ![t].pending = @ \ {w}]
    /\ \E content \in {w.content, "TORN"} :
         /\ content = "TORN" =>
              w \notin Current(t) \/ (w.batch = 2 /\ "LATE" \in fault[kind(t)])
         /\ raw' = [raw EXCEPT ![kind(t)][w.file] = content]
    /\ UNCHANGED <<instrument, freeze, reservation, ledger, curated, reports, history>>

\* The first write to fail rejects Promise.all; the other one goes on.  The file
\* is left without readable content, or whole when only its close failed.
GiveUp(t, w, pc) ==
  run' = [run EXCEPT ![t] = [@ EXCEPT !.pending = run[t].pending \ {w}, !.pc = pc]]

FailRaw(t) ==
  \E w \in Current(t) :
    /\ \/ At(t, "PERSIST") /\ GiveUp(t, w, "CATCH")
       \/ At(t, "PERSIST_ERROR") /\ GiveUp(t, w, "DISPOSE")
    /\ \E content \in {"TORN", w.content} :
         raw' = [raw EXCEPT ![kind(t)][w.file] = content]
    /\ Blame(kind(t), "FAILED")
    /\ UNCHANGED <<instrument, freeze, reservation, ledger, curated, reports, holder, calls,
                   checked, answered, result, started>>

\* A write nobody waits for any more fails unnoticed.
LoseRaw(t) ==
  \E w \in run[t].pending :
    /\ w \notin Current(t) \/ run[t].pc \notin {"PERSIST", "PERSIST_ERROR"}
    /\ run' = [run EXCEPT ![t].pending = @ \ {w}]
    /\ raw' = [raw EXCEPT ![kind(t)][w.file] = "TORN"]
    /\ UNCHANGED <<instrument, freeze, reservation, ledger, curated, reports, history>>

\* Both writes are done and, for the first batch, the finally block of
\* withPromptfooIsolation too; the raw files are read back.
Persisted(t) ==
  /\ run[t].pc \in {"PERSIST", "PERSIST_ERROR"} /\ Current(t) = {}
  /\ MoveTo(t, "CURATE")
  /\ UNCHANGED <<instrument, files, history>>

\* The isolated storage cannot be removed: the catch block takes over, with
\* the evidence already on disk.
FailRelease(t) ==
  /\ At(t, "PERSIST") /\ Current(t) = {}
  /\ MoveTo(t, "CATCH")
  /\ Blame(kind(t), "FAILED")
  /\ UNCHANGED <<instrument, files, holder, calls, checked, answered, result, started>>

KeepsAnswer(t) ==
  /\ At(t, "CATCH")
  /\ run' = [run EXCEPT ![t] =
       [@ EXCEPT !.pc = "PERSIST_ERROR", !.pending = run[t].pending \cup Batch("ERROR", 2)]]
  /\ IF run[t].pending = {} THEN UNCHANGED fault ELSE Blame(kind(t), "LATE")
  /\ UNCHANGED <<instrument, files, holder, calls, checked, answered, result, started>>

\* The catch block replaces the artifacts by the error and persists them,
\* over a write of the first batch that may still be under way (LATE).
Catch(t) ==
  /\ At(t, "CATCH")
  /\ run' = [run EXCEPT ![t] =
       [@ EXCEPT !.pc = "PERSIST_ERROR", !.answer = "ERROR",
                 !.pending = run[t].pending \cup Batch("ERROR", 2)]]
  /\ IF run[t].pending = {} THEN UNCHANGED fault ELSE Blame(kind(t), "LATE")
  /\ UNCHANGED <<instrument, files, holder, calls, checked, answered, result, started>>

-----------------------------------------------------------------------------
(* After the provider. *)

\* The workspace is looked at and the report opened.
OpenCurated(t) ==
  /\ At(t, "CURATE")
  /\ MoveTo(t, "WRITE_CURATED")
  /\ curated' = [curated EXCEPT ![kind(t)] = "PARTIAL"]
  /\ UNCHANGED <<instrument, freeze, reservation, ledger, raw, reports, history>>

WriteCurated(t) ==
  /\ At(t, "WRITE_CURATED")
  /\ run' = [run EXCEPT ![t] = [@ EXCEPT !.pc = "DISPOSE", !.verdict = run[t].answer]]
  /\ curated' = [curated EXCEPT ![kind(t)] = run[t].answer]
  /\ UNCHANGED <<instrument, freeze, reservation, ledger, raw, reports, history>>

\* A close that fails leaves a whole report, though the command returns none.
FailCuration(t) ==
  /\ run[t].pc \in {"CURATE", "WRITE_CURATED"}
  /\ MoveTo(t, "DISPOSE")
  /\ Blame(kind(t), "FAILED")
  /\ curated' = curated \/
       (At(t, "WRITE_CURATED") /\ curated' = [curated EXCEPT ![kind(t)] = run[t].answer])
  /\ UNCHANGED <<instrument, freeze, reservation, ledger, raw, reports, holder, calls,
                 checked, answered, result, started>>

\* The finally block of runLiveExperiment; a write nobody waits for may be
\* left to the event loop.
Leave(t) ==
  run' = [run EXCEPT ![t] =
    [Idle EXCEPT !.pending = run[t].pending,
                 !.command = IF run[t].pending = {} THEN "NONE" ELSE run[t].command]]

Dispose(t) ==
  /\ At(t, "DISPOSE")
  /\ Leave(t)
  /\ result' = IF run[t].verdict = "NONE" THEN result
               ELSE [result EXCEPT ![kind(t)] = run[t].verdict]
  /\ UNCHANGED <<instrument, files, holder, calls, checked, answered, fault, started>>

\* Its error takes the place of the status.
FailDispose(t) ==
  /\ At(t, "DISPOSE")
  /\ Leave(t)
  /\ UNCHANGED <<instrument, files, history>>

-----------------------------------------------------------------------------
(* report: createCuratedReports. *)

\* A torn report does not parse.
Readable(k) == curated[k] \in Status

ReadEvidence(t) ==
  /\ At(t, "READ")
  /\ freeze \in Version
  /\ \A k \in Kind : Readable(k)
  /\ \A k \in Kind \ {"e1"} : raw[k]["summary"] \in Status
  /\ run' = [run EXCEPT ![t] =
       [@ EXCEPT !.pc = "READ_TRACES",
                 !.answer = IF curated["e2-deep"] = "PASS" /\ raw["e2-deep"]["summary"] = "PASS"
                            THEN "CONTINUE" ELSE "STOP"]]
  /\ UNCHANGED <<instrument, files, history>>

ReadTraces(t) ==
  /\ At(t, "READ_TRACES") /\ raw["e2-deep"]["traces"] \in Status
  /\ MoveTo(t, "WRITE_REPORTS")
  /\ UNCHANGED <<instrument, files, history>>

\* Promise.all over the four files, which replaces those of an earlier report.
OpenReports(t) ==
  /\ At(t, "WRITE_REPORTS")
  /\ MoveTo(t, "FINISH_REPORTS")
  /\ reports' = [state |-> "PARTIAL", g2 |-> "NONE"]
  /\ UNCHANGED <<instrument, freeze, reservation, ledger, raw, curated, history>>

FinishReports(t) ==
  /\ At(t, "FINISH_REPORTS")
  /\ Stop(t)
  /\ reports' = [state |-> "WRITTEN", g2 |-> run[t].answer]
  /\ UNCHANGED <<instrument, freeze, reservation, ledger, raw, curated, history>>

\* The files that are written may all be whole by then.
FailReports(t) ==
  /\ At(t, "FINISH_REPORTS")
  /\ Stop(t)
  /\ reports' \in {reports, [state |-> "WRITTEN", g2 |-> run[t].answer]}
  /\ UNCHANGED <<instrument, freeze, reservation, ledger, raw, curated, history>>

-----------------------------------------------------------------------------

\* The command at t is past the reservation of its kind.
Spending(t) ==
  kind(t) \in Kind /\ run[t].pc \notin {"LOAD", "COMPARE", "GATE", "RESERVE"}

\* The command is killed, and the writes it has under way with it.  (Elsewhere
\* a command that is killed leaves what one that fails there leaves.)
Kill(t) ==
  /\ Spending(t)
  /\ Stop(t)
  /\ Blame(kind(t), "FAILED")
  /\ UNCHANGED <<instrument, files, holder, calls, checked, answered, result, started>>

Freezing(t) == Fingerprint(t) \/ CreateFreeze(t) \/ WriteFreeze(t) \/ FailFreeze(t)

Reserving(t) ==
  \/ LoadFreeze(t) \/ AssertFreezeCurrent(t) \/ PassGate(t) \/ Reserve(t)
  \/ RefuseReservation(t) \/ Record(t) \/ ListReservations(t) \/ OpenLedger(t)
  \/ WriteLedger(t) \/ FailReservation(t)

Invoking(t) ==
  \/ Invoke(t) \/ FailIsolation(t) \/ ProviderThrows(t) \/ ProviderAnswers(t)
  \/ WriteRaw(t) \/ FailRaw(t) \/ LoseRaw(t) \/ Persisted(t) \/ FailRelease(t)
  \/ Catch(t)

Curating(t) ==
  \/ OpenCurated(t) \/ WriteCurated(t) \/ FailCuration(t) \/ Dispose(t)
  \/ FailDispose(t)

Reporting(t) ==
  ReadEvidence(t) \/ ReadTraces(t) \/ OpenReports(t) \/ FinishReports(t) \/ FailReports(t)

Experimenting(t) == Reserving(t) \/ Invoking(t) \/ Curating(t)

Step(t) ==
  \/ Abort(t)
  \/ kind(t) = "freeze" /\ Freezing(t)
  \/ kind(t) = "report" /\ Reporting(t)
  \/ kind(t) \in Kind /\ Experimenting(t)

Next ==
  \/ Drift
  \/ \E t \in Terminal :
       Step(t) \/ Kill(t) \/ \E command \in Kind \cup {"freeze", "report"} : Start(t, command)

Spec == Init /\ [][Next]_vars

\* A command that is not killed goes on to its end: every await settles, and
\* the provider call is bounded by maxEvalTimeMs.
FairSpec == Spec /\ \A t \in Terminal : WF_vars(Step(t))
-----------------------------------------------------------------------------
(* What a campaign promises. *)

Command == Kind \cup {"freeze", "report", "NONE"}

Steps == {"IDLE", "FINGERPRINT", "CREATE", "WRITE_FREEZE", "LOAD", "COMPARE", "GATE",
          "RESERVE", "RECORD", "LIST", "LEDGER", "WRITE_LEDGER", "ISOLATE", "AWAIT", "CATCH",
          "PERSIST", "PERSIST_ERROR", "CURATE", "WRITE_CURATED", "DISPOSE", "READ",
          "READ_TRACES", "WRITE_REPORTS", "FINISH_REPORTS"}

Writes == SUBSET [file : RawFile, content : Status, batch : {1, 2}]
Kinds == SUBSET Kind

RunOf == [pc : Steps, command : Command, compared : Version \cup {NoVersion}, listed : Kinds,
          answer : Status \cup {"NONE", "CONTINUE", "STOP"}, verdict : Status \cup {"NONE"},
          pending : Writes, drift : {"NONE", "SEEN"}]

TypeOK ==
  /\ run \in [Terminal -> RunOf]
  /\ instrument \in Version /\ freeze \in Version \cup {"ABSENT", "PARTIAL"}
  /\ reservation \in [Kind -> {"ABSENT", "EMPTY", "WRITTEN"}]
  /\ ledger \in [state : {"ABSENT", "TORN", "WHOLE"}, kinds : Kinds]
  /\ raw \in [Kind -> [RawFile -> Status \cup {"ABSENT", "TORN"}]]
  /\ curated \in [Kind -> Status \cup {"ABSENT", "PARTIAL"}]
  /\ reports.state \in {"ABSENT", "PARTIAL", "WRITTEN"}
  /\ holder \in [Kind -> Terminal \cup {NoTerminal}]
  /\ calls \in [Kind -> 0 .. 1]
  /\ checked \in [Kind -> Version \cup {NoVersion}]
  /\ answered \in [Kind -> Status \cup {"NONE"}] /\ result \in [Kind -> Status \cup {"NONE"}]
  /\ fault \in [Kind -> SUBSET {"FAILED", "LATE"}]

\* The experiments implement the invocation budget, counted by kind: one call
\* each, by the command that created the reservation, through kills, retries
\* at other terminals and failures of any file.
KindBudget == INSTANCE InvocationBudget WITH
  Key <- Kind, Actor <- Terminal, Nobody <- NoTerminal, holder <- holder, spent <- calls

ImplementsBudget == KindBudget!Spec

\* No call escapes the freeze: each was preceded by a comparison of the
\* instrument with the freeze that stands there now, however often it changed
\* and the freeze was attempted again.  Nothing looks at the instrument again
\* before the call, which is made on another one where it changed in between,
\* and only there.
CallsAreCompared ==
  /\ \A k \in Kind : calls[k] > 0 => checked[k] = freeze /\ freeze \in Version
  /\ \A t \in Terminal : At(t, "ISOLATE") => instrument = freeze \/ run[t].drift = "SEEN"

\* The deep experiment is called only after a baseline whose canary passed,
\* and that report and its evidence stand ever after.
DeepFollowsBaseline ==
  calls["e2-deep"] > 0 => curated["e2-baseline"] = "PASS" /\ calls["e2-baseline"] = 1

\* Before the call the whole reservation is on disk, and some ledger counted
\* it; the ledger never counts what is not reserved.
CallsAreRecorded ==
  /\ \A k \in Kind : calls[k] > 0 => reservation[k] = "WRITTEN"
  /\ \A k \in ledger.kinds : reservation[k] # "ABSENT"

\* The curated report of an experiment agrees with the raw evidence beside it,
\* unless a write of the first batch was still under way when the error was
\* persisted over it; and a command that ends with PASS has left a PASS that
\* was answered in both, whatever was under way.
CuratedMatchesRaw ==
  \A k \in Kind :
    /\ curated[k] \in Status /\ "LATE" \notin fault[k] =>
         \A f \in RawFile : raw[k][f] = curated[k]
    /\ result[k] = "PASS" =>
         /\ answered[k] = "PASS" /\ checked[k] = freeze
         /\ curated[k] = "PASS" /\ \A f \in RawFile : raw[k][f] = "PASS"

Over(k) == holder[k] # NoTerminal /\ At(holder[k], "IDLE")

\* What was paid for is reported: when the command that called the provider is
\* over and nothing failed on its way, raw evidence, curated report and exit
\* status all say what the provider answered.
AnswerIsCurated ==
  \A k \in Kind :
    Over(k) /\ fault[k] = {} =>
      /\ calls[k] = 1
      /\ curated[k] = answered[k] /\ \A f \in RawFile : raw[k][f] = answered[k]
      /\ result[k] \in {answered[k], "NONE"}

\* Reports come only after all three experiments were reserved and curated, and
\* they recommend to continue only on a deep canary that passed.
ReportsFollowExperiments ==
  /\ reports.state # "ABSENT" =>
       \A k \in Kind : reservation[k] = "WRITTEN" /\ curated[k] \in Status
  /\ reports.g2 = "CONTINUE" =>
       /\ calls["e2-deep"] = 1 /\ curated["e2-deep"] = "PASS"
       /\ answered["e2-deep"] = "PASS" /\ answered["e2-baseline"] = "PASS"

\* What makes these inductive.  One command writes the freeze, and nobody
\* after it; from the comparison to the call a command knows what it holds.
FreezeHeld ==
  \A t \in Terminal :
    /\ At(t, "CREATE") => run[t].compared \in Version
    /\ At(t, "WRITE_FREEZE") =>
         /\ freeze = "PARTIAL" /\ run[t].compared \in Version
         /\ \A u \in Terminal \ {t} : ~At(u, "WRITE_FREEZE")
    /\ At(t, "COMPARE") => freeze \in Version
    /\ run[t].pc \in Compared =>
         /\ run[t].compared = freeze /\ freeze \in Version
         /\ instrument = freeze \/ run[t].drift = "SEEN"

\* A command owns its kind from the reservation to the curated report, and
\* only its owner has writes under way, which may outlive the command.
Owning == {"RECORD", "LIST", "LEDGER", "WRITE_LEDGER", "ISOLATE", "AWAIT", "CATCH",
           "PERSIST", "PERSIST_ERROR", "CURATE", "WRITE_CURATED"}
Owns(t, k) == kind(t) = k /\ run[t].pc \in Owning
Writing(t, k) == kind(t) = k /\ run[t].pending # {}

OwnerOf(k) ==
  /\ reservation[k] = "ABSENT" <=> holder[k] = NoTerminal
  /\ holder[k] = NoTerminal => calls[k] = 0 /\ answered[k] = "NONE"
  /\ reservation[k] # "WRITTEN" => calls[k] = 0 /\ curated[k] = "ABSENT"
  /\ \A t \in Terminal :
       /\ Owns(t, k) \/ Writing(t, k) => holder[k] = t
       /\ Owns(t, k) => reservation[k] = IF At(t, "RECORD") THEN "EMPTY" ELSE "WRITTEN"
       /\ Owns(t, k) /\ run[t].pc \in Compared => calls[k] = 0
       /\ k \in run[t].listed => reservation[k] # "ABSENT"

OwnersHeld ==
  /\ \A k \in Kind : OwnerOf(k)
  /\ \A t \in Terminal : run[t].pending # {} =>
       /\ kind(t) \in Kind
       /\ run[t].pc \in {"IDLE", "CATCH", "PERSIST", "PERSIST_ERROR", "CURATE",
                        "WRITE_CURATED", "DISPOSE"}

\* Nothing is under way for k and its raw files say s; so does the answer,
\* unless s is the error of a command that failed.  Or the error was persisted
\* over a late write.
Supported(k, s) ==
  \/ /\ \A t \in Terminal : ~Writing(t, k)
     /\ \A f \in RawFile : raw[k][f] = s
     /\ \/ s = "ERROR" /\ fault[k] # {}
        \/ answered[k] = s /\ calls[k] = 1
  \/ s = "ERROR" /\ "LATE" \in fault[k]

\* Each raw file says s, or will.
Persisting(t, k, s, batch) ==
  /\ run[t].pending \subseteq Batch(s, batch)
  /\ \A f \in RawFile : Write(f, s, batch) \in run[t].pending \/ raw[k][f] = s

\* The evidence of k at each step of its owner t, and after its last one.
StageOf(t, k) ==
  /\ curated[k] = IF At(t, "WRITE_CURATED") THEN "PARTIAL" ELSE "ABSENT"
  /\ At(t, "AWAIT") => calls[k] = 1
  /\ At(t, "PERSIST") =>
       /\ calls[k] = 1 /\ answered[k] = run[t].answer /\ run[t].answer \in Status
       /\ Persisting(t, k, run[t].answer, 1)
  /\ At(t, "CATCH") =>
       fault[k] # {} \/ (run[t].pending = {} /\ calls[k] = 1 /\ answered[k] = "ERROR")
  /\ At(t, "PERSIST_ERROR") =>
       /\ run[t].answer = "ERROR"
       /\ fault[k] # {} \/ (calls[k] = 1 /\ answered[k] = "ERROR")
       /\ "LATE" \in fault[k] \/ Persisting(t, k, "ERROR", 2)
  /\ run[t].pc \in {"CURATE", "WRITE_CURATED"} =>
       run[t].answer \in Status /\ Supported(k, run[t].answer)

EvidenceOf(k) ==
  /\ \A t \in Terminal : Owns(t, k) => StageOf(t, k)
  /\ curated[k] \in Status => Supported(k, curated[k])
  /\ holder[k] # NoTerminal /\ ~Owns(holder[k], k) /\ fault[k] = {} => curated[k] \in Status
  /\ result[k] \in {"NONE", curated[k]}

EvidenceHeld ==
  /\ \A k \in Kind : EvidenceOf(k)
  /\ \A t \in Terminal : run[t].verdict # "NONE" =>
       At(t, "DISPOSE") /\ kind(t) \in Kind /\ curated[kind(t)] = run[t].verdict

\* What a command found at its gate still stands when it acts on it.
GatesPassed ==
  \A t \in Terminal :
    /\ kind(t) = "e2-deep" /\ run[t].pc \in Owning \cup {"RESERVE"} =>
         curated["e2-baseline"] = "PASS"
    /\ run[t].pc \in {"READ_TRACES", "WRITE_REPORTS", "FINISH_REPORTS"} =>
         /\ \A k \in Kind : Readable(k)
         /\ run[t].answer = "CONTINUE" => curated["e2-deep"] = "PASS"

\* Every variable has its type, and a call is made once, after its instrument
\* was compared with the freeze and its reservation recorded.
CallsAreInOrder ==
  TypeOK /\ CallsAreCompared /\ CallsAreRecorded /\ FreezeHeld /\ OwnersHeld

\* Raw evidence, curated report and exit status agree, and with the answer.
EvidenceAgrees == CuratedMatchesRaw /\ AnswerIsCurated /\ EvidenceHeld

\* What has to come before the deep experiment and before the reports is
\* there, and stays.
GatesHold == DeepFollowsBaseline /\ ReportsFollowExperiments /\ GatesPassed

\* Every command ends, if need be by being killed: a terminal is free again
\* and again.
EveryCommandEnds == \A t \in Terminal : []<>At(t, "IDLE")
=============================================================================
