--------------------------- MODULE BenchmarkRunner ---------------------------
(***************************************************************************)
(* The paid benchmark collection: src/qualification/                        *)
(* author-benchmark-runner.ts, and the gate by which                        *)
(* prepare-author-benchmark-review.ts takes what it collected.              *)
(*                                                                          *)
(* A runner is an operating-system process.  All runners here were given    *)
(* the same frozen campaign, so they share its reservation, its terminal    *)
(* receipt and its output directory; every file is created with 'wx'.  The  *)
(* winner walks the schedule: per sample it verifies the frozen input,      *)
(* makes a workspace, reserves the sample, calls the provider once, writes  *)
(* the evidence and removes the workspace.  Whatever stops the walk, it     *)
(* then records the rest as NOT_RUN and writes the collection and the       *)
(* terminal receipt.                                                        *)
(***************************************************************************)
EXTENDS Naturals, Sequences, FiniteSets

CONSTANTS Runner,       \* processes started on the campaign
          SampleCount,  \* length of the schedule: 16 in the code
          NoRunner      \* the mark of a file no runner created

ASSUME SampleCountAssumption == SampleCount \in Nat \ {0}
ASSUME NoRunnerAssumption == NoRunner \notin Runner

Sample == 1 .. SampleCount   \* a sample is its order in the schedule

VARIABLES
  pc,                  \* pc[r]: the await at which r stands
  position,            \* position[r]: the entry of the schedule r is at
  samples,             \* samples[r]: the records it holds in memory
  consumed,            \* consumed[r]: consumedSampleIds
  persisted,           \* persisted[r]: persistedSampleIds
  invocations,         \* invocations[r]: providerInvocations
  status, stopReason,  \* what r would report now
  answer,              \* answer[r]: what the provider answered for the sample at hand
  collectionPersisted, \* collectionPersisted[r]
  workspace,           \* workspace[r]: a temporary directory is there
  \* Files:
  reservation, terminal, sampleReservation, evidence, collection,
  \* History, which no guard reads:
  holder,              \* the runner that created the campaign's reservation
  sampleHolder,        \* sampleHolder[s]: the runner that reserved s
  calls,               \* calls[s]: provider invocations started for s
  fault                \* fault[r]: failures that excuse what r leaves behind

progress == <<position, samples, consumed, persisted, invocations>>
verdict == <<status, stopReason>>
campaignFiles == <<reservation, holder, terminal>>
sampleFiles == <<sampleReservation, sampleHolder, evidence>>
vars == <<pc, progress, verdict, answer, collectionPersisted, workspace,
          campaignFiles, sampleFiles, collection, calls, fault>>

Steps == {"START", "TERMINAL", "RESERVE", "RECORD", "OUTPUT", "LOOP",
          "RESERVE_SAMPLE", "INVOKE", "AWAIT", "PERSIST", "CLEANUP", "UNWIND",
          "REMAINDER", "COLLECT", "COLLECT_WRITE", "RECEIPT", "RECEIPT_WRITE",
          "DONE", "REFUSED", "THROWN", "KILLED"}

\* DRIFT stands for the five ways in which the frozen input no longer matches
\* (schedule, snapshot missing or changed, condition, packet blindness), and
\* GLOBAL for the five provider failure categories that stop the schedule.
Reasons == {"NONE", "DRIFT", "COLLISION", "OUTPUT", "WORKSPACE", "UNEXPECTED",
            "EVIDENCE", "GLOBAL", "CLEANUP", "NOT_RUN", "COLLECTION"}
Statuses == {"COMPLETE", "INSUFFICIENT", "INVALIDATED"}
Answers == {"COMPLETED", "LOCAL_ERROR", "GLOBAL_ERROR"}
Faults == {"RESERVATION", "RETHROWN", "CLEANUP", "RECEIPT"}   \* see fault
\* LOCAL_ERROR and GLOBAL_ERROR are what the provider or its answer led to;
\* UNADAPTED: no invoker; UNPERSISTED: EVIDENCE_NOT_PERSISTED.
Outcomes == {"COMPLETED", "LOCAL_ERROR", "GLOBAL_ERROR", "UNADAPTED", "UNPERSISTED", "NOT_RUN"}

Entry(s, outcome) == [id |-> s, outcome |-> outcome]
NotRunIds(seq) == {seq[k].id : k \in {j \in DOMAIN seq : seq[j].outcome = "NOT_RUN"}}

Absent == [state |-> "ABSENT"]
Partial == [state |-> "PARTIAL"]

Init ==
  /\ pc = [r \in Runner |-> "START"]
  /\ position = [r \in Runner |-> 1]
  /\ samples = [r \in Runner |-> <<>>]
  /\ consumed = [r \in Runner |-> {}]
  /\ persisted = [r \in Runner |-> {}]
  /\ invocations = [r \in Runner |-> 0]
  /\ status = [r \in Runner |-> "COMPLETE"]
  /\ stopReason = [r \in Runner |-> "NONE"]
  /\ answer = [r \in Runner |-> "NONE"]
  /\ collectionPersisted = [r \in Runner |-> FALSE]
  /\ workspace = [r \in Runner |-> FALSE]
  /\ reservation = "ABSENT" /\ holder = NoRunner
  /\ terminal = Absent
  /\ sampleReservation = [s \in Sample |-> "ABSENT"]
  /\ sampleHolder = [s \in Sample |-> NoRunner]
  /\ evidence = [s \in Sample |-> "ABSENT"]
  /\ collection = Absent
  /\ calls = [s \in Sample |-> 0]
  /\ fault = [r \in Runner |-> {}]

-----------------------------------------------------------------------------
(* Moving a runner on. *)

Goto(r, from, to) == pc[r] = from /\ pc' = [pc EXCEPT ![r] = to]

\* Stops the walk with a status and the reason for it.
Report(r, newStatus, reason) ==
  /\ status' = [status EXCEPT ![r] = newStatus]
  /\ stopReason' = [stopReason EXCEPT ![r] = reason]

Excuse(r, what) == fault' = [fault EXCEPT ![r] = @ \cup {what}]

-----------------------------------------------------------------------------
(* Up to the reservation of the campaign. *)

\* Approval of 16, the exact ready preflight, the clean expected commit and
\* the bundle fingerprint: all of it reads only.
PassChecks(r) ==
  /\ Goto(r, "START", "TERMINAL")
  /\ UNCHANGED <<progress, verdict, answer, collectionPersisted, workspace,
                 campaignFiles, sampleFiles, collection, calls, fault>>

Refuse(r, from) ==
  /\ Goto(r, from, "REFUSED")
  /\ UNCHANGED <<progress, verdict, answer, collectionPersisted, workspace,
                 campaignFiles, sampleFiles, collection, calls, fault>>

FailChecks(r) == Refuse(r, "START")

\* pathExists(terminalReceiptPath)
FindNoReceipt(r) ==
  /\ terminal.state = "ABSENT"
  /\ Goto(r, "TERMINAL", "RESERVE")
  /\ UNCHANGED <<progress, verdict, answer, collectionPersisted, workspace,
                 campaignFiles, sampleFiles, collection, calls, fault>>

FindReceipt(r) == terminal.state # "ABSENT" /\ Refuse(r, "TERMINAL")

AlwaysCreates(state) == TRUE

\* open(path, 'wx') in writeExclusive
ExclusiveCreates(state) == state = "ABSENT"

OpenReservation(r) ==
  /\ ExclusiveCreates(reservation)
  /\ Goto(r, "RESERVE", "RECORD")
  /\ reservation' = "EMPTY"
  /\ holder' = r
  /\ UNCHANGED <<progress, verdict, answer, collectionPersisted, workspace,
                 terminal, sampleFiles, collection, calls, fault>>

\* BENCHMARK_ALREADY_RESERVED, or mkdir or open failing.
RefuseReservation(r) == Refuse(r, "RESERVE")

WriteReservation(r) ==
  /\ Goto(r, "RECORD", "OUTPUT")
  /\ reservation' = "WRITTEN"
  /\ UNCHANGED <<progress, verdict, answer, collectionPersisted, workspace,
                 holder, terminal, sampleFiles, collection, calls, fault>>

\* The file stays, whole when only close() failed; the command ends with the
\* error.
FailReservation(r) ==
  /\ Goto(r, "RECORD", "THROWN")
  /\ reservation' \in {"EMPTY", "WRITTEN"}
  /\ Excuse(r, "RESERVATION")
  /\ UNCHANGED <<progress, verdict, answer, collectionPersisted, workspace,
                 holder, terminal, sampleFiles, collection, calls>>

MakeOutput(r) ==
  /\ Goto(r, "OUTPUT", "LOOP")
  /\ UNCHANGED <<progress, verdict, answer, collectionPersisted, workspace,
                 campaignFiles, sampleFiles, collection, calls, fault>>

\* Without an output directory every sample is NOT_RUN and only the receipt
\* is written.
FailOutput(r) ==
  /\ Goto(r, "OUTPUT", "RECEIPT")
  /\ samples' = [samples EXCEPT ![r] = [s \in Sample |-> Entry(s, "NOT_RUN")]]
  /\ Report(r, "INSUFFICIENT", "OUTPUT")
  /\ UNCHANGED <<position, consumed, persisted, invocations, answer, collectionPersisted,
                 workspace, campaignFiles, sampleFiles, collection, calls, fault>>

-----------------------------------------------------------------------------
(* One pass of the loop over the schedule. *)

Drift(r) ==
  /\ position[r] <= SampleCount
  /\ Goto(r, "LOOP", "REMAINDER")
  /\ Report(r, "INVALIDATED", "DRIFT")
  /\ UNCHANGED <<progress, answer, collectionPersisted, workspace, campaignFiles,
                 sampleFiles, collection, calls, fault>>

CreateWorkspace(r) ==
  /\ position[r] <= SampleCount
  /\ Goto(r, "LOOP", "RESERVE_SAMPLE")
  /\ workspace' = [workspace EXCEPT ![r] = TRUE]
  /\ UNCHANGED <<progress, verdict, answer, collectionPersisted, campaignFiles,
                 sampleFiles, collection, calls, fault>>

FailWorkspace(r) ==
  /\ position[r] <= SampleCount
  /\ Goto(r, "LOOP", "REMAINDER")
  /\ Report(r, "INSUFFICIENT", "WORKSPACE")
  /\ UNCHANGED <<progress, answer, collectionPersisted, workspace, campaignFiles,
                 sampleFiles, collection, calls, fault>>

ReserveSample(r) ==
  /\ Goto(r, "RESERVE_SAMPLE", "INVOKE")
  /\ ExclusiveCreates(sampleReservation[position[r]])
  /\ sampleReservation' = [sampleReservation EXCEPT ![position[r]] = "RESERVED"]
  /\ sampleHolder' = [sampleHolder EXCEPT ![position[r]] = r]
  /\ consumed' = [consumed EXCEPT ![r] = @ \cup {position[r]}]
  /\ UNCHANGED <<position, samples, persisted, invocations, verdict, answer,
                 collectionPersisted, workspace, campaignFiles, evidence, collection,
                 calls, fault>>

CollideSample(r) ==
  /\ Goto(r, "RESERVE_SAMPLE", "CLEANUP")
  /\ ~ExclusiveCreates(sampleReservation[position[r]])
  /\ Report(r, "INVALIDATED", "COLLISION")
  /\ UNCHANGED <<progress, answer, collectionPersisted, workspace, campaignFiles,
                 sampleFiles, collection, calls, fault>>

SkipsFinally(r) ==
  /\ Goto(r, "RESERVE_SAMPLE", "THROWN")
  /\ Excuse(r, "RETHROWN")
  /\ UNCHANGED <<progress, verdict, answer, collectionPersisted, workspace, campaignFiles,
                 sampleFiles, collection, calls>>

\* Any other failure of the sample's reservation, before or after the file is
\* created, is thrown on.
FailSampleReservation(r) ==
  /\ Goto(r, "RESERVE_SAMPLE", "UNWIND")
  /\ \/ UNCHANGED sampleReservation
     \/ /\ ExclusiveCreates(sampleReservation[position[r]])
        /\ sampleReservation' = [sampleReservation EXCEPT ![position[r]] = "TORN"]
  /\ Excuse(r, "RETHROWN")
  /\ UNCHANGED <<progress, verdict, answer, collectionPersisted, workspace, campaignFiles,
                 sampleHolder, evidence, collection, calls>>

\* samples.push for the sample at hand
Push(r, outcome) ==
  samples' = [samples EXCEPT ![r] = Append(@, Entry(position[r], outcome))]

WriteEvidence(r, s) ==
  /\ ExclusiveCreates(evidence[s])
  /\ evidence' = [evidence EXCEPT ![s] = "WRITTEN"]

\* A failing writeExclusive leaves nothing or a TORN file: a part of it or,
\* when only close() failed, all of it.  The runner cannot tell, and nothing
\* counts it as written.
TearEvidence(r, s) ==
  \/ UNCHANGED evidence
  \/ ExclusiveCreates(evidence[s]) /\ evidence' = [evidence EXCEPT ![s] = "TORN"]

\* createInvoker throws: the sample is consumed without a call.
FailInvoker(r) ==
  /\ Goto(r, "INVOKE", "CLEANUP")
  /\ \/ /\ WriteEvidence(r, position[r])
        /\ persisted' = [persisted EXCEPT ![r] = @ \cup {position[r]}]
        /\ Push(r, "UNADAPTED")
        /\ Report(r, "INSUFFICIENT", "UNEXPECTED")
     \/ /\ TearEvidence(r, position[r])
        /\ Push(r, "UNPERSISTED")
        /\ Report(r, "INSUFFICIENT", "EVIDENCE")
        /\ UNCHANGED persisted
  /\ UNCHANGED <<position, consumed, invocations, answer, collectionPersisted, workspace,
                 campaignFiles, sampleReservation, sampleHolder, collection, calls, fault>>

\* authorEvaluationBlueprint up to its one call of the provider.
Invoke(r) ==
  /\ Goto(r, "INVOKE", "AWAIT")
  /\ invocations' = [invocations EXCEPT ![r] = @ + 1]
  /\ calls' = [calls EXCEPT ![position[r]] = @ + 1]
  /\ UNCHANGED <<position, samples, consumed, persisted, verdict, answer,
                 collectionPersisted, workspace, campaignFiles, sampleFiles, collection,
                 fault>>

RetriesLocalError(r) ==
  /\ \/ Goto(r, "AWAIT", "PERSIST") /\ answer' = [answer EXCEPT ![r] = "COMPLETED"]
     \/ Goto(r, "AWAIT", "INVOKE") /\ calls[position[r]] < 2 /\ UNCHANGED answer
  /\ UNCHANGED <<progress, verdict, collectionPersisted, workspace, campaignFiles,
                 sampleFiles, collection, calls, fault>>

Receive(r) ==
  /\ Goto(r, "AWAIT", "PERSIST")
  /\ \E a \in Answers : answer' = [answer EXCEPT ![r] = a]
  /\ UNCHANGED <<progress, verdict, collectionPersisted, workspace, campaignFiles,
                 sampleFiles, collection, calls, fault>>

NeverStops(a) == FALSE

\* globalStopReason(category) !== null
IsGlobalStop(a) == a = "GLOBAL_ERROR"

StopGlobally(r) ==
  /\ IsGlobalStop(answer[r])
  /\ Report(r, "INSUFFICIENT", "GLOBAL")

PersistSample(r) ==
  /\ Goto(r, "PERSIST", "CLEANUP")
  /\ WriteEvidence(r, position[r])
  /\ persisted' = [persisted EXCEPT ![r] = @ \cup {position[r]}]
  /\ Push(r, answer[r])
  /\ \/ StopGlobally(r)
     \/ ~IsGlobalStop(answer[r]) /\ UNCHANGED verdict
  /\ answer' = [answer EXCEPT ![r] = "NONE"]
  /\ UNCHANGED <<position, consumed, invocations, collectionPersisted, workspace,
                 campaignFiles, sampleReservation, sampleHolder, collection, calls, fault>>

FailPersist(r) ==
  /\ Goto(r, "PERSIST", "CLEANUP")
  /\ TearEvidence(r, position[r])
  /\ Push(r, "UNPERSISTED")
  /\ Report(r, "INSUFFICIENT", "EVIDENCE")
  /\ answer' = [answer EXCEPT ![r] = "NONE"]
  /\ UNCHANGED <<position, consumed, persisted, invocations, collectionPersisted,
                 workspace, campaignFiles, sampleReservation, sampleHolder, collection,
                 calls, fault>>

\* A break of the try block has set a reason by now; otherwise the loop goes on.
LeavePass(r, reason) ==
  IF reason = "NONE"
  THEN Goto(r, "CLEANUP", "LOOP") /\ position' = [position EXCEPT ![r] = @ + 1]
  ELSE Goto(r, "CLEANUP", "REMAINDER") /\ UNCHANGED position

Cleanup(r) ==
  /\ LeavePass(r, stopReason[r])
  /\ workspace' = [workspace EXCEPT ![r] = FALSE]
  /\ UNCHANGED <<samples, consumed, persisted, invocations, verdict, answer,
                 collectionPersisted, campaignFiles, sampleFiles, collection, calls, fault>>

StatusAfterCleanupFailure(s) == IF s = "INVALIDATED" THEN "INVALIDATED" ELSE "INSUFFICIENT"

FailCleanup(r) ==
  LET newStatus == StatusAfterCleanupFailure(status[r])
      reason == IF newStatus = "INSUFFICIENT" THEN "CLEANUP" ELSE stopReason[r]
  IN /\ LeavePass(r, reason)
     /\ Report(r, newStatus, reason)
     /\ Excuse(r, "CLEANUP")
     /\ UNCHANGED <<samples, consumed, persisted, invocations, answer, collectionPersisted,
                    workspace, campaignFiles, sampleFiles, collection, calls>>

\* The finally block of a pass that throws; the error then leaves the runner.
Unwind(r) ==
  /\ Goto(r, "UNWIND", "THROWN")
  /\ \/ workspace' = [workspace EXCEPT ![r] = FALSE] /\ UNCHANGED fault
     \/ Excuse(r, "CLEANUP") /\ UNCHANGED workspace
  /\ UNCHANGED <<progress, verdict, answer, collectionPersisted, campaignFiles, sampleFiles,
                 collection, calls>>

EndSchedule(r) ==
  /\ position[r] > SampleCount
  /\ Goto(r, "LOOP", "REMAINDER")
  /\ UNCHANGED <<progress, verdict, answer, collectionPersisted, workspace, campaignFiles,
                 sampleFiles, collection, calls, fault>>

-----------------------------------------------------------------------------
(* After the loop. *)

AfterPosition(r) == position[r] + 1

\* schedule.slice(samples.length)
NextNotRun(r) == Len(samples[r]) + 1

PushNotRun(r) ==
  /\ pc[r] = "REMAINDER" /\ Len(samples[r]) < SampleCount
  /\ samples' = [samples EXCEPT ![r] = Append(@, Entry(NextNotRun(r), "NOT_RUN"))]

RecordNotRun(r) ==
  /\ PushNotRun(r)
  /\ WriteEvidence(r, NextNotRun(r))
  /\ UNCHANGED <<pc, position, consumed, persisted, invocations, verdict, answer,
                 collectionPersisted, workspace, campaignFiles, sampleReservation,
                 sampleHolder, collection, calls, fault>>

FailNotRun(r) ==
  /\ PushNotRun(r)
  /\ TearEvidence(r, NextNotRun(r))
  /\ IF status[r] = "INVALIDATED" THEN UNCHANGED verdict
     ELSE Report(r, "INSUFFICIENT", "NOT_RUN")
  /\ UNCHANGED <<pc, position, consumed, persisted, invocations, answer,
                 collectionPersisted, workspace, campaignFiles, sampleReservation,
                 sampleHolder, collection, calls, fault>>

OpenCollection(r) ==
  /\ Len(samples[r]) = SampleCount
  /\ collection.state = "ABSENT"
  /\ Goto(r, "REMAINDER", "COLLECT_WRITE")
  /\ collection' = Partial
  /\ collectionPersisted' = [collectionPersisted EXCEPT ![r] = TRUE]
  /\ UNCHANGED <<progress, verdict, answer, workspace, campaignFiles, sampleFiles, calls, fault>>

\* The collection file of r: its records and what it would report now.
Collected(r) ==
  [state |-> "WRITTEN", samples |-> samples[r], status |-> status[r],
   stopReason |-> stopReason[r], invocations |-> invocations[r]]

WriteCollection(r) ==
  /\ Goto(r, "COLLECT_WRITE", "RECEIPT")
  /\ collection' = Collected(r)
  /\ UNCHANGED <<progress, verdict, answer, collectionPersisted, workspace, campaignFiles,
                 sampleFiles, calls, fault>>

\* open() fails and leaves what is there; a failing write leaves a part of the
\* file, a failing close() all of it, with the verdict of before the failure.
FailCollection(r) ==
  /\ Len(samples[r]) = SampleCount
  /\ \/ Goto(r, "REMAINDER", "RECEIPT") /\ UNCHANGED collection
     \/ Goto(r, "COLLECT_WRITE", "RECEIPT") /\ collection' \in {Partial, Collected(r)}
  /\ collectionPersisted' = [collectionPersisted EXCEPT ![r] = FALSE]
  /\ Report(r, "INSUFFICIENT", "COLLECTION")
  /\ UNCHANGED <<progress, answer, workspace, campaignFiles, sampleFiles, calls, fault>>

OpenReceipt(r) ==
  /\ terminal.state = "ABSENT"
  /\ Goto(r, "RECEIPT", "RECEIPT_WRITE")
  /\ terminal' = Partial
  /\ UNCHANGED <<progress, verdict, answer, collectionPersisted, workspace, reservation,
                 holder, sampleFiles, collection, calls, fault>>

\* terminalReceipt
Receipt(r) ==
  [state |-> "WRITTEN", collectionPersisted |-> collectionPersisted[r],
   consumed |-> consumed[r], notRun |-> NotRunIds(samples[r]), persisted |-> persisted[r],
   invocations |-> invocations[r], status |-> status[r], stopReason |-> stopReason[r]]

WriteReceipt(r) ==
  /\ Goto(r, "RECEIPT_WRITE", "DONE")
  /\ terminal' = Receipt(r)
  /\ UNCHANGED <<progress, verdict, answer, collectionPersisted, workspace, reservation,
                 holder, sampleFiles, collection, calls, fault>>

RetriesReceipt(r) ==
  /\ Goto(r, "RECEIPT", "RECEIPT") \/ Goto(r, "RECEIPT_WRITE", "RECEIPT")
  /\ Excuse(r, "RECEIPT")
  /\ UNCHANGED <<progress, verdict, answer, collectionPersisted, workspace, campaignFiles,
                 sampleFiles, collection, calls>>

\* As FailCollection; the run throws, even when the receipt is whole.
FailReceipt(r) ==
  /\ \/ Goto(r, "RECEIPT", "THROWN") /\ UNCHANGED terminal
     \/ Goto(r, "RECEIPT_WRITE", "THROWN") /\ terminal' \in {Partial, Receipt(r)}
  /\ Excuse(r, "RECEIPT")
  /\ UNCHANGED <<progress, verdict, answer, collectionPersisted, workspace, reservation,
                 holder, sampleFiles, collection, calls>>

-----------------------------------------------------------------------------

Ended(r) == pc[r] \in {"DONE", "REFUSED", "THROWN", "KILLED"}

Kill(r) ==
  /\ ~Ended(r)
  /\ pc' = [pc EXCEPT ![r] = "KILLED"]
  /\ UNCHANGED <<progress, verdict, answer, collectionPersisted, workspace, campaignFiles,
                 sampleFiles, collection, calls, fault>>

\* A program other than the runner puts a file where the reservation of a
\* sample is to go, once there is a directory for it.  One such file at most.
Intrude(s) ==
  /\ \E r \in Runner : pc[r] = "LOOP"
  /\ \A t \in Sample : sampleReservation[t] # "FOREIGN"
  /\ sampleReservation[s] = "ABSENT"
  /\ sampleReservation' = [sampleReservation EXCEPT ![s] = "FOREIGN"]
  /\ UNCHANGED <<pc, progress, verdict, answer, collectionPersisted, workspace,
                 campaignFiles, sampleHolder, evidence, collection, calls, fault>>

Begin(r) ==
  \/ PassChecks(r) \/ FailChecks(r) \/ FindNoReceipt(r) \/ FindReceipt(r)
  \/ OpenReservation(r) \/ RefuseReservation(r) \/ WriteReservation(r)
  \/ FailReservation(r) \/ MakeOutput(r) \/ FailOutput(r)

Pass(r) ==
  \/ Drift(r) \/ CreateWorkspace(r) \/ FailWorkspace(r) \/ ReserveSample(r)
  \/ CollideSample(r) \/ FailSampleReservation(r) \/ FailInvoker(r) \/ Invoke(r)
  \/ Receive(r) \/ PersistSample(r) \/ FailPersist(r) \/ Cleanup(r) \/ FailCleanup(r)
  \/ Unwind(r) \/ EndSchedule(r)

Finish(r) ==
  \/ RecordNotRun(r) \/ FailNotRun(r) \/ OpenCollection(r) \/ WriteCollection(r)
  \/ FailCollection(r) \/ OpenReceipt(r) \/ WriteReceipt(r) \/ FailReceipt(r)

Run(r) == Begin(r) \/ Pass(r) \/ Finish(r)

Next == (\E r \in Runner : Run(r) \/ Kill(r)) \/ (\E s \in Sample : Intrude(s))

Spec == Init /\ [][Next]_vars

\* A runner that is not killed is scheduled to its end; the provider call is
\* bounded by timeoutMs and maxEvalTimeMs.
FairSpec == Spec /\ \A r \in Runner : WF_vars(Run(r))
-----------------------------------------------------------------------------
(* What the collection promises. *)

Record == [id : Sample, outcome : Outcomes]

TypeOK ==
  /\ pc \in [Runner -> Steps]
  /\ position \in [Runner -> 1 .. SampleCount + 1]
  /\ samples \in [Runner -> Seq(Record)]
  /\ consumed \in [Runner -> SUBSET Sample] /\ persisted \in [Runner -> SUBSET Sample]
  /\ invocations \in [Runner -> 0 .. SampleCount]
  /\ status \in [Runner -> Statuses] /\ stopReason \in [Runner -> Reasons]
  /\ answer \in [Runner -> Answers \cup {"NONE"}]
  /\ collectionPersisted \in [Runner -> BOOLEAN] /\ workspace \in [Runner -> BOOLEAN]
  /\ reservation \in {"ABSENT", "EMPTY", "WRITTEN"} /\ holder \in Runner \cup {NoRunner}
  /\ sampleReservation \in [Sample -> {"ABSENT", "RESERVED", "TORN", "FOREIGN"}]
  /\ sampleHolder \in [Sample -> Runner \cup {NoRunner}]
  /\ evidence \in [Sample -> {"ABSENT", "TORN", "WRITTEN"}]
  /\ collection.state \in {"ABSENT", "PARTIAL", "WRITTEN"}
  /\ terminal.state \in {"ABSENT", "PARTIAL", "WRITTEN"}
  /\ calls \in [Sample -> Nat]
  /\ fault \in [Runner -> SUBSET Faults]

\* The runner implements the invocation budget, counted by sample: whoever
\* reserved a sample may call the provider for it once, and no later runner,
\* retry or error path may call it again.
Budget == INSTANCE InvocationBudget WITH
  Key <- Sample, Actor <- Runner, Nobody <- NoRunner,
  holder <- sampleHolder, spent <- calls

ImplementsBudget == Budget!Spec

\* One runner collects: whatever was reserved, called or written below the
\* output directory is the work of the runner that created the campaign's
\* reservation, even when that runner died and others were started.
SingleCollector ==
  /\ \A r \in Runner :
       pc[r] \notin {"START", "TERMINAL", "RESERVE", "REFUSED", "KILLED"} => holder = r
  /\ \A r \in Runner : consumed[r] # {} \/ samples[r] # <<>> => holder = r
  /\ \A s \in Sample : sampleHolder[s] \in {NoRunner, holder}

\* A collection holds every sample of the schedule exactly once and in its
\* order, wherever the walk stopped (the slice that adds the NOT_RUN records
\* counts records, while the walk stops by position).  A receipt and a whole
\* collection agree in the calls and in what was not run, and in the verdict
\* unless the receipt denies the collection: a collection that is whole
\* although its write failed keeps the verdict of before the failure.
CollectionIsWhole ==
  /\ collection.state = "WRITTEN" =>
       /\ Len(collection.samples) = SampleCount
       /\ \A k \in Sample : collection.samples[k].id = k
  /\ terminal.state = "WRITTEN" /\ terminal.collectionPersisted =>
       collection.state = "WRITTEN"
  /\ terminal.state = "WRITTEN" /\ collection.state = "WRITTEN" =>
       /\ collection.invocations = terminal.invocations
       /\ terminal.notRun = NotRunIds(collection.samples)
       /\ \/ /\ collection.status = terminal.status
             /\ collection.stopReason = terminal.stopReason
          \/ /\ ~terminal.collectionPersisted
             /\ terminal.status = "INSUFFICIENT" /\ terminal.stopReason = "COLLECTION"

\* The terminal receipt accounts for every provider call: a sample that was
\* called is consumed and is not among the NOT_RUN samples, the number of
\* calls is right, and what it says is persisted is on disk.
ReceiptAccountsForSpending ==
  terminal.state = "WRITTEN" =>
    /\ \A s \in Sample : calls[s] > 0 => s \in terminal.consumed \ terminal.notRun
    /\ terminal.invocations = Cardinality({s \in Sample : calls[s] > 0})
    /\ \A s \in terminal.persisted : evidence[s] = "WRITTEN" /\ s \in terminal.consumed

\* prepare-author-benchmark-review.ts takes the collection for review.
Reviewable ==
  /\ collection.state = "WRITTEN" /\ terminal.state = "WRITTEN"
  /\ collection.status = "COMPLETE" /\ terminal.status = "COMPLETE"
  /\ terminal.collectionPersisted
  /\ terminal.invocations = collection.invocations

\* Only a full benchmark is reviewed: every sample was called once, its
\* evidence is on disk, and none ended in an error that should have stopped
\* the schedule.
ReviewableMeansCollected ==
  Reviewable =>
    \A s \in Sample :
      /\ calls[s] = 1 /\ evidence[s] = "WRITTEN"
      /\ collection.samples[s].outcome \in {"COMPLETED", "LOCAL_ERROR"}

\* No budget is spent after a stop: behind a sample that ended in a global
\* provider error, without an invoker or without evidence, none was called.
StopIsFinal ==
  \A r \in Runner : \A k \in DOMAIN samples[r] :
    samples[r][k].outcome \in {"GLOBAL_ERROR", "UNADAPTED", "UNPERSISTED"} =>
      \A s \in Sample : s > k => calls[s] = 0

\* No sample leaves its temporary workspace behind unless its removal failed
\* or the runner was killed: the finally block covers every way out.
WorkspacesAreRemoved ==
  \A r \in Runner :
    Ended(r) /\ pc[r] # "KILLED" /\ workspace[r] => "CLEANUP" \in fault[r]

\* A campaign whose reservation is whole and whose runner ended on its own
\* has a terminal receipt, unless that reservation or the receipt itself
\* failed, or the reservation of a sample failed for another reason than a
\* collision.
MissingReceiptHasACause ==
  \A r \in Runner :
    holder = r /\ reservation = "WRITTEN" /\ pc[r] \in {"DONE", "THROWN"} =>
      terminal.state = "WRITTEN" \/ fault[r] \cap {"RESERVATION", "RETHROWN", "RECEIPT"} # {}

\* Every runner ends unless it is killed, whatever fails.
EveryRunEnds == \A r \in Runner : <>Ended(r)

\* What makes the promises above inductive.  A runner walks the schedule and
\* then finishes; before that it has nothing of its own.
Walking == {"LOOP", "RESERVE_SAMPLE", "INVOKE", "AWAIT", "PERSIST"}
Reporting == {"COLLECT_WRITE", "RECEIPT", "RECEIPT_WRITE", "DONE"}

\* Nothing is there before the campaign is reserved, its reservation is whole
\* once its runner is past it, and a sample has a holder only by its own
\* reservation.
ReservationHeld ==
  /\ reservation = "ABSENT" <=> holder = NoRunner
  /\ holder = NoRunner => collection = Absent /\ terminal = Absent
  /\ \A r \in Runner : pc[r] = "RECORD" => reservation = "EMPTY"
  /\ \A s \in Sample : sampleHolder[s] # NoRunner => sampleReservation[s] = "RESERVED"

\* A runner that has not come to its output directory has done nothing.
RunnerFresh ==
  \A r \in Runner :
    pc[r] \in {"START", "TERMINAL", "RESERVE", "RECORD", "OUTPUT", "REFUSED"} =>
      /\ position[r] = 1 /\ samples[r] = <<>> /\ consumed[r] = {} /\ persisted[r] = {}
      /\ invocations[r] = 0 /\ status[r] = "COMPLETE" /\ stopReason[r] = "NONE"
      /\ ~collectionPersisted[r] /\ ~workspace[r] /\ fault[r] = {}

\* The calls are those of an initial segment of the schedule, whose length is
\* the holder's count of its invocations; all of them are consumed.
CallsAreCounted ==
  /\ \A s \in Sample :
       /\ holder = NoRunner => calls[s] = 0
       /\ holder # NoRunner => calls[s] = IF s <= invocations[holder] THEN 1 ELSE 0
  /\ \A r \in Runner : 1 .. invocations[r] \subseteq consumed[r]

\* Where the walk stands in the schedule, in calls.
PassHeld ==
  \A r \in Runner :
    /\ pc[r] \in {"LOOP", "RESERVE_SAMPLE", "INVOKE"} => invocations[r] = position[r] - 1
    /\ pc[r] \in {"AWAIT", "PERSIST"} => invocations[r] = position[r]
    /\ pc[r] = "CLEANUP" =>
         /\ invocations[r] \in {position[r] - 1, position[r]}
         /\ stopReason[r] = "NONE" => invocations[r] = position[r]
    /\ pc[r] \in (Walking \ {"LOOP"}) \cup {"CLEANUP"} => position[r] <= SampleCount
    /\ pc[r] \in {"INVOKE", "AWAIT", "PERSIST"} =>
         sampleHolder[position[r]] = r /\ position[r] \in consumed[r]
    /\ pc[r] = "PERSIST" => answer[r] \in Answers

\* Where it stands in records: one per sample and in their order, as many as
\* the position says while it walks and all of them when it reports.
RecordsOf(r) ==
  /\ Len(samples[r]) <= SampleCount
  /\ \A k \in DOMAIN samples[r] : samples[r][k].id = k
  /\ pc[r] \in Walking =>
       /\ Len(samples[r]) = position[r] - 1
       /\ status[r] = "COMPLETE" /\ stopReason[r] = "NONE"
  /\ pc[r] = "CLEANUP" =>
       /\ Len(samples[r]) \in {position[r] - 1, position[r]}
       /\ stopReason[r] = "NONE" => Len(samples[r]) = position[r]
       /\ stopReason[r] = "NONE" <=> status[r] = "COMPLETE"
  /\ pc[r] \in Reporting => Len(samples[r]) = SampleCount
  /\ pc[r] = "REMAINDER" /\ status[r] = "COMPLETE" => Len(samples[r]) = SampleCount

RecordsHeld == \A r \in Runner : RecordsOf(r)

\* What a record says was done: a called sample has one that is not NOT_RUN,
\* a stop is not followed by a call, and a runner that would report COMPLETE
\* called every sample it recorded and has its evidence.
OutcomesOf(r) ==
  /\ pc[r] \in {"CLEANUP", "REMAINDER"} \cup Reporting => invocations[r] <= Len(samples[r])
  /\ \A k \in DOMAIN samples[r] :
       /\ samples[r][k].outcome = "NOT_RUN" => invocations[r] < k
       /\ samples[r][k].outcome \in {"GLOBAL_ERROR", "UNADAPTED", "UNPERSISTED"} =>
            invocations[r] <= k
       /\ status[r] = "COMPLETE" =>
            /\ samples[r][k].outcome \in {"COMPLETED", "LOCAL_ERROR"}
            /\ evidence[k] = "WRITTEN" /\ k <= invocations[r]
  /\ \A s \in persisted[r] : s \in consumed[r] /\ evidence[s] = "WRITTEN"

OutcomesHeld == \A r \in Runner : OutcomesOf(r)

\* The collection holds the records of the runner that wrote it, and its
\* verdict unless that runner took the write for failed.
CollectionOf(r) ==
  /\ collection.state = "WRITTEN" /\ collection.samples = samples[r]
  /\ collection.invocations = invocations[r]
  /\ \/ collection.status = status[r] /\ collection.stopReason = stopReason[r]
     \/ ~collectionPersisted[r] /\ status[r] = "INSUFFICIENT" /\ stopReason[r] = "COLLECTION"

\* The two files the runner ends with hold what it holds in memory, and it
\* ends well only with a whole receipt; a receipt that is whole although the
\* run threw was taken for failed.
FilesHeld ==
  /\ \/ collection \in {Absent, Partial}
     \/ /\ holder # NoRunner /\ CollectionOf(holder)
        /\ pc[holder] \in {"RECEIPT", "RECEIPT_WRITE", "DONE", "THROWN", "KILLED"}
        /\ Len(samples[holder]) = SampleCount
  /\ \/ terminal \in {Absent, Partial}
     \/ /\ holder # NoRunner /\ terminal = Receipt(holder)
        /\ terminal.collectionPersisted => collection.state = "WRITTEN"
        /\ \/ pc[holder] = "DONE"
           \/ pc[holder] = "THROWN" /\ "RECEIPT" \in fault[holder]
  /\ \A r \in Runner :
       /\ pc[r] \in {"RECEIPT", "RECEIPT_WRITE", "DONE"} /\ collectionPersisted[r] =>
            collection.state = "WRITTEN"
       /\ pc[r] = "DONE" => terminal.state = "WRITTEN"

\* A workspace lives through one pass, and a throw has one of three causes.
CausesHeld ==
  \A r \in Runner :
    /\ workspace[r] /\ "CLEANUP" \notin fault[r] =>
         pc[r] \in (Walking \ {"LOOP"}) \cup {"CLEANUP", "UNWIND", "KILLED"}
    /\ pc[r] = "UNWIND" => "RETHROWN" \in fault[r]
    /\ pc[r] = "THROWN" =>
         "RESERVATION" \in fault[r] \/ "RETHROWN" \in fault[r] \/ "RECEIPT" \in fault[r]

\* Every variable has its type, one runner collects, and everything holds
\* that the promises below are proved from.
RunnerInvariant ==
  /\ TypeOK /\ SingleCollector /\ ReservationHeld /\ RunnerFresh
  /\ CallsAreCounted /\ PassHeld /\ RecordsHeld /\ OutcomesHeld
  /\ FilesHeld /\ CausesHeld

\* A collection is whole, and what is taken for review is a full benchmark.
CollectionCanBeReviewed == CollectionIsWhole /\ ReviewableMeansCollected

\* Every provider call is in the receipt, and none follows a stop.
SpendingIsAccountedFor == ReceiptAccountsForSpending /\ StopIsFinal

\* A runner that ends leaves no workspace and no campaign without a receipt,
\* but for the causes that are named.
RunsEndTidily == WorkspacesAreRemoved /\ MissingReceiptHasACause

-----------------------------------------------------------------------------
(* What the plan of the benchmark says and the code does not do. *)

\* "A blindness, freeze, reservation, or schedule violation yields
\* INVALIDATED": what the runner found stays in its receipt.
InvalidationSticks ==
  [][\A r \in Runner : status[r] = "INVALIDATED" => status'[r] = "INVALIDATED"]_vars
=============================================================================
