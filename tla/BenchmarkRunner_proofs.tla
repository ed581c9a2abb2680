----------------------- MODULE BenchmarkRunner_proofs -----------------------
(***************************************************************************)
(* Proofs about the benchmark collection for any number of runners and any  *)
(* length of the schedule.  RunnerInvariant is inductive.  A runner owns    *)
(* the campaign from its reservation on (SingleCollector), so no step of    *)
(* another one disturbs what is known of it; the calls, the records and the *)
(* files are then followed along one walk of the schedule.  Each part is    *)
(* proved from the parts it names, and the promises and the refinement of   *)
(* the invocation budget follow.                                            *)
(*                                                                          *)
(* The second half is about what is done with the collection afterwards,    *)
(* Adjudication, which the benchmark's review, resolution and score are.    *)
(***************************************************************************)
EXTENDS BenchmarkRunner, Adjudication, SequenceTheorems, FiniteSetTheorems, TLAPS

\* Steps that move a runner and change no file, and nothing it would report.
Idles(r) ==
  /\ \/ Goto(r, "START", "TERMINAL") \/ Goto(r, "TERMINAL", "RESERVE")
     \/ \E from \in {"START", "TERMINAL", "RESERVE"} : Goto(r, from, "REFUSED")
     \/ Goto(r, "OUTPUT", "LOOP")
     \/ Goto(r, "LOOP", "REMAINDER") /\ position[r] > SampleCount
     \/ Goto(r, pc[r], "KILLED") /\ ~Ended(r)
  /\ UNCHANGED answer
  /\ UNCHANGED <<progress, verdict, collectionPersisted, workspace, campaignFiles,
                 sampleFiles, collection, calls, fault>>

\* Steps about the reservation of the campaign.
Reserves(r) == OpenReservation(r) \/ WriteReservation(r) \/ FailReservation(r)

\* Steps that end the walk, or the pass, before the sample is reserved.
Stops(r) ==
  /\ Goto(r, "LOOP", "REMAINDER") \/ Goto(r, "RESERVE_SAMPLE", "CLEANUP")
  /\ \E newStatus \in {"INSUFFICIENT", "INVALIDATED"}, reason \in Reasons \ {"NONE"} :
       Report(r, newStatus, reason)
  /\ UNCHANGED <<progress, answer, collectionPersisted, workspace, campaignFiles,
                 sampleFiles, collection, calls, fault>>

\* Steps about the temporary workspace and the file of a sample.
Enters(r) == CreateWorkspace(r) \/ FailSampleReservation(r) \/ Unwind(r)

\* Steps that record the sample at hand, and those that leave its pass.
Records(r) == FailInvoker(r) \/ PersistSample(r) \/ FailPersist(r)
Leaves(r) == Cleanup(r) \/ FailCleanup(r)

\* Steps after the loop.
Fills(r) == RecordNotRun(r) \/ FailNotRun(r)
Collects(r) == OpenCollection(r) \/ WriteCollection(r) \/ FailCollection(r)
Receipts(r) == OpenReceipt(r) \/ WriteReceipt(r) \/ FailReceipt(r)

Acts(r) ==
  \/ Idles(r) \/ Receive(r) \/ Reserves(r) \/ FailOutput(r) \/ Stops(r)
  \/ Enters(r) \/ ReserveSample(r) \/ Invoke(r) \/ Records(r) \/ Leaves(r)
  \/ Fills(r) \/ Collects(r) \/ Receipts(r)

\* A step of the specification is one of these, an intrusion, or no change.
LEMMA StepKinds ==
  ASSUME [Next]_vars
  PROVE  \/ \E r \in Runner : Acts(r)
         \/ \E s \in Sample : Intrude(s)
         \/ UNCHANGED vars
<1>1. ASSUME NEW r \in Runner, Begin(r) PROVE Acts(r)
  BY <1>1 DEF Begin, PassChecks, FailChecks, FindNoReceipt, FindReceipt, RefuseReservation,
              Reserves, MakeOutput, Refuse, Goto, verdict, Idles, Acts
<1>2. ASSUME NEW r \in Runner, Pass(r) PROVE Acts(r)
  BY <1>2 DEF Pass, Drift, FailWorkspace, CollideSample, EndSchedule, Goto, Report,
              Reasons, Idles, Stops, Enters, Records, Leaves, Acts
<1>3. ASSUME NEW r \in Runner, Finish(r) PROVE Acts(r)
  BY <1>3 DEF Finish, Fills, Collects, Receipts, Acts
<1>4. ASSUME NEW r \in Runner, Kill(r) PROVE Acts(r)
  BY <1>4 DEF Kill, Goto, Idles, Acts
<1> QED
  BY <1>1, <1>2, <1>3, <1>4 DEF Next, Run

\* Recording one more sample.
LEMMA AppendRecord ==
  ASSUME NEW seq \in Seq(Record), NEW e \in Record
  PROVE  /\ Append(seq, e) \in Seq(Record)
         /\ Len(seq) \in Nat /\ DOMAIN seq = 1 .. Len(seq)
         /\ Len(Append(seq, e)) = Len(seq) + 1
         /\ DOMAIN Append(seq, e) = 1 .. Len(seq) + 1
         /\ \A k \in DOMAIN seq : Append(seq, e)[k] = seq[k]
         /\ Append(seq, e)[Len(seq) + 1] = e
BY AppendProperties, LenProperties

\* The records of a runner without an output directory.
LEMMA AllNotRun ==
  LET seq == [s \in Sample |-> Entry(s, "NOT_RUN")]
  IN  seq \in Seq(Record) /\ Len(seq) = SampleCount /\ DOMAIN seq = 1 .. SampleCount
<1> DEFINE seq == [s \in Sample |-> Entry(s, "NOT_RUN")]
<1>1. \A s \in Sample : Entry(s, "NOT_RUN") \in Record
  BY DEF Entry, Record, Outcomes
<1>2. seq \in [1 .. SampleCount -> Record]
  BY <1>1 DEF Sample
<1>3. SampleCount \in Nat
  BY SampleCountAssumption
<1>4. seq \in Seq(Record)
  BY <1>2, <1>3, SeqDef
<1>5. DOMAIN seq = 1 .. SampleCount
  BY DEF Sample
<1> HIDE DEF seq
<1>6. Len(seq) = SampleCount
  BY <1>3, <1>4, <1>5, LenProperties
<1> QED
  BY <1>4, <1>5, <1>6 DEF seq

\* Within a pass, the runner is at a sample.
LEMMA AtSample ==
  ASSUME TypeOK, PassHeld, NEW r \in Runner,
         pc[r] \in {"RESERVE_SAMPLE", "INVOKE", "AWAIT", "PERSIST", "CLEANUP"}
  PROVE  position[r] \in Sample
BY SampleCountAssumption DEF TypeOK, PassHeld, Walking, Sample

\* Pushing a record adds it behind those a runner has, and changes no other's.
LEMMA PushEffect ==
  ASSUME TypeOK, PassHeld, NEW r \in Runner, pc[r] \in {"INVOKE", "PERSIST"},
         NEW outcome \in Outcomes, Push(r, outcome)
  PROVE  /\ position[r] \in Sample
         /\ samples' \in [Runner -> Seq(Record)]
         /\ \A q \in Runner \ {r} : samples'[q] = samples[q]
         /\ Len(samples[r]) \in Nat /\ DOMAIN samples[r] = 1 .. Len(samples[r])
         /\ Len(samples'[r]) = Len(samples[r]) + 1
         /\ DOMAIN samples'[r] = 1 .. Len(samples[r]) + 1
         /\ \A k \in DOMAIN samples[r] : samples'[r][k] = samples[r][k]
         /\ samples'[r][Len(samples[r]) + 1] = Entry(position[r], outcome)
<1>1. position[r] \in Sample
  BY AtSample
<1>2. Entry(position[r], outcome) \in Record
  BY <1>1 DEF Entry, Record
<1>3. samples \in [Runner -> Seq(Record)]
  BY DEF TypeOK
<1>4. samples' = [samples EXCEPT ![r] = Append(samples[r], Entry(position[r], outcome))]
  BY DEF Push
<1>5. /\ samples'[r] = Append(samples[r], Entry(position[r], outcome))
      /\ \A q \in Runner \ {r} : samples'[q] = samples[q]
  BY <1>3, <1>4
<1>6. samples[r] \in Seq(Record)
  BY <1>3
<1>7. Append(samples[r], Entry(position[r], outcome)) \in Seq(Record)
  BY <1>2, <1>6, AppendRecord
<1>8. samples' \in [Runner -> Seq(Record)]
  BY <1>3, <1>4, <1>7
<1> QED
  BY <1>1, <1>2, <1>5, <1>6, <1>8, AppendRecord

\* So does filling in one that was not run.
LEMMA FillEffect ==
  ASSUME TypeOK, NEW r \in Runner, PushNotRun(r)
  PROVE  /\ NextNotRun(r) \in Sample /\ NextNotRun(r) = Len(samples[r]) + 1
         /\ samples' \in [Runner -> Seq(Record)]
         /\ \A q \in Runner \ {r} : samples'[q] = samples[q]
         /\ Len(samples[r]) \in Nat /\ DOMAIN samples[r] = 1 .. Len(samples[r])
         /\ Len(samples'[r]) = Len(samples[r]) + 1
         /\ DOMAIN samples'[r] = 1 .. Len(samples[r]) + 1
         /\ \A k \in DOMAIN samples[r] : samples'[r][k] = samples[r][k]
         /\ samples'[r][Len(samples[r]) + 1] = Entry(Len(samples[r]) + 1, "NOT_RUN")
<1> DEFINE e == Entry(NextNotRun(r), "NOT_RUN")
<1>1. samples \in [Runner -> Seq(Record)] /\ samples[r] \in Seq(Record)
  BY DEF TypeOK
<1>2. Len(samples[r]) \in Nat /\ Len(samples[r]) < SampleCount
  BY <1>1, LenProperties DEF PushNotRun
<1>3. NextNotRun(r) \in Sample /\ NextNotRun(r) = Len(samples[r]) + 1
  BY <1>2, SampleCountAssumption DEF NextNotRun, Sample
<1>4. e \in Record
  BY <1>3 DEF Entry, Record, Outcomes
<1>5. samples' = [samples EXCEPT ![r] = Append(samples[r], e)]
  BY DEF PushNotRun
<1> HIDE DEF e
<1>6. samples'[r] = Append(samples[r], e) /\ \A q \in Runner \ {r} : samples'[q] = samples[q]
  BY <1>1, <1>5
<1>7. Append(samples[r], e) \in Seq(Record)
  BY <1>1, <1>4, AppendRecord
<1>8. samples' \in [Runner -> Seq(Record)]
  BY <1>1, <1>5, <1>7
<1>9. e = Entry(Len(samples[r]) + 1, "NOT_RUN")
  BY <1>3 DEF e
<1> QED
  BY <1>1, <1>3, <1>4, <1>6, <1>8, <1>9, AppendRecord

\* What the three ways to record the sample at hand have in common.
Recorded(r, outcome) ==
  /\ pc[r] \in {"INVOKE", "PERSIST"} /\ pc' = [pc EXCEPT ![r] = "CLEANUP"]
  /\ Push(r, outcome)
  /\ \/ UNCHANGED evidence
     \/ /\ evidence[position[r]] = "ABSENT"
        /\ \E e \in {"TORN", "WRITTEN"} : evidence' = [evidence EXCEPT ![position[r]] = e]
  /\ \/ UNCHANGED persisted
     \/ /\ persisted' = [persisted EXCEPT ![r] = @ \cup {position[r]}]
        /\ evidence' = [evidence EXCEPT ![position[r]] = "WRITTEN"]
  /\ \/ /\ pc[r] = "PERSIST" /\ outcome \in {"COMPLETED", "LOCAL_ERROR"}
        /\ evidence' = [evidence EXCEPT ![position[r]] = "WRITTEN"]
        /\ UNCHANGED verdict
     \/ /\ outcome \in {"GLOBAL_ERROR", "UNADAPTED", "UNPERSISTED"}
        /\ \E reason \in Reasons \ {"NONE"} : Report(r, "INSUFFICIENT", reason)
  /\ answer' \in {answer, [answer EXCEPT ![r] = "NONE"]}
  /\ UNCHANGED <<position, consumed, invocations, collectionPersisted, workspace,
                 campaignFiles, sampleReservation, sampleHolder, collection, calls, fault>>

LEMMA RecordEffect ==
  ASSUME TypeOK, PassHeld, NEW r \in Runner, Records(r)
  PROVE  \E outcome \in Outcomes \ {"NOT_RUN"} : Recorded(r, outcome)
<1>1. CASE FailInvoker(r)
  <2>1. ASSUME Push(r, "UNADAPTED"), WriteEvidence(r, position[r]),
               persisted' = [persisted EXCEPT ![r] = @ \cup {position[r]}],
               Report(r, "INSUFFICIENT", "UNEXPECTED")
        PROVE  Recorded(r, "UNADAPTED")
    BY <1>1, <2>1 DEF FailInvoker, Goto, WriteEvidence, ExclusiveCreates, Recorded, Reasons
  <2>2. ASSUME Push(r, "UNPERSISTED"), TearEvidence(r, position[r]),
               Report(r, "INSUFFICIENT", "EVIDENCE"), UNCHANGED persisted
        PROVE  Recorded(r, "UNPERSISTED")
    BY <1>1, <2>2 DEF FailInvoker, Goto, TearEvidence, ExclusiveCreates, Recorded, Reasons
  <2> QED
    BY <1>1, <2>1, <2>2 DEF FailInvoker, Outcomes
<1>2. CASE PersistSample(r)
  <2>1. answer[r] \in Answers
    BY <1>2 DEF PersistSample, Goto, PassHeld
  <2>2. Recorded(r, answer[r])
    BY <1>2, <2>1 DEF PersistSample, Goto, WriteEvidence, ExclusiveCreates, StopGlobally,
                      IsGlobalStop, Recorded, Reasons, Answers
  <2> QED
    BY <2>1, <2>2 DEF Answers, Outcomes
<1>3. CASE FailPersist(r)
  <2>1. Recorded(r, "UNPERSISTED")
    BY <1>3 DEF FailPersist, Goto, TearEvidence, ExclusiveCreates, Recorded, Reasons
  <2> QED
    BY <2>1 DEF Outcomes
<1> QED
  BY <1>1, <1>2, <1>3 DEF Records

\* Faults are named.
LEMMA ExcuseType ==
  ASSUME TypeOK, NEW r \in Runner, NEW what \in {"RESERVATION", "RETHROWN", "CLEANUP", "RECEIPT"},
         Excuse(r, what)
  PROVE  fault' \in [Runner -> SUBSET Faults]
<1>1. what \in Faults
  BY DEF Faults
<1> QED
  BY <1>1 DEF TypeOK, Excuse

\* No step leaves the types of the variables.
LEMMA TypeStep == ASSUME TypeOK, PassHeld, [Next]_vars PROVE TypeOK'
<1> USE DEF Goto, progress, verdict, campaignFiles, sampleFiles, Steps
<1>1. ASSUME NEW r \in Runner, Idles(r) PROVE TypeOK'
  BY <1>1 DEF Idles, TypeOK
<1>2. ASSUME NEW r \in Runner, Receive(r) PROVE TypeOK'
  BY <1>2 DEF Receive, TypeOK
<1>3. ASSUME NEW r \in Runner, Reserves(r) PROVE TypeOK'
  <2>1. CASE OpenReservation(r)
    BY <2>1 DEF OpenReservation, TypeOK
  <2>2. CASE WriteReservation(r)
    BY <2>2 DEF WriteReservation, TypeOK
  <2>3. CASE FailReservation(r)
    <3>1. fault' \in [Runner -> SUBSET Faults]
      BY <2>3, ExcuseType DEF FailReservation
    <3> QED
      BY <2>3, <3>1 DEF FailReservation, TypeOK
  <2> QED
    BY <1>3, <2>1, <2>2, <2>3 DEF Reserves
<1>4. ASSUME NEW r \in Runner, FailOutput(r) PROVE TypeOK'
  <2>1. samples' \in [Runner -> Seq(Record)]
    BY <1>4, AllNotRun DEF FailOutput, TypeOK
  <2> QED
    BY <1>4, <2>1 DEF FailOutput, Report, TypeOK, Statuses, Reasons
<1>5. ASSUME NEW r \in Runner, Stops(r) PROVE TypeOK'
  <2>1. PICK to \in Steps : pc' = [pc EXCEPT ![r] = to]
    BY <1>5 DEF Stops
  <2>2. PICK newStatus \in Statuses, reason \in Reasons : Report(r, newStatus, reason)
    BY <1>5 DEF Stops, Statuses
  <2> QED
    BY <1>5, <2>1, <2>2 DEF Stops, Report, TypeOK
<1>6. ASSUME NEW r \in Runner, Enters(r) PROVE TypeOK'
  <2>1. fault' \in [Runner -> SUBSET Faults]
    BY <1>6, ExcuseType DEF Enters, CreateWorkspace, FailSampleReservation, Unwind, TypeOK
  <2>2. CASE CreateWorkspace(r)
    BY <2>1, <2>2 DEF CreateWorkspace, TypeOK
  <2>3. CASE FailSampleReservation(r)
    <3>1. sampleReservation' \in [Sample -> {"ABSENT", "RESERVED", "TORN", "FOREIGN"}]
      BY <2>3 DEF FailSampleReservation, TypeOK
    <3> QED
      BY <2>1, <2>3, <3>1 DEF FailSampleReservation, TypeOK
  <2>4. CASE Unwind(r)
    BY <2>1, <2>4 DEF Unwind, TypeOK
  <2> QED
    BY <1>6, <2>2, <2>3, <2>4 DEF Enters
<1>7. ASSUME NEW r \in Runner, ReserveSample(r) PROVE TypeOK'
  <2>1. position[r] \in Sample
    BY <1>7, AtSample DEF ReserveSample
  <2>2. consumed' \in [Runner -> SUBSET Sample]
    BY <1>7, <2>1 DEF ReserveSample, TypeOK
  <2> QED
    BY <1>7, <2>1, <2>2 DEF ReserveSample, TypeOK
<1>8. ASSUME NEW r \in Runner, Invoke(r) PROVE TypeOK'
  <2>1. position[r] \in Sample /\ invocations[r] + 1 = position[r]
    BY <1>8, SampleCountAssumption DEF Invoke, PassHeld, Walking, Sample, TypeOK
  <2>2. invocations' \in [Runner -> 0 .. SampleCount]
    BY <1>8, <2>1, SampleCountAssumption DEF Invoke, TypeOK, Sample
  <2>3. calls' \in [Sample -> Nat]
    BY <1>8, <2>1 DEF Invoke, TypeOK
  <2> QED
    BY <1>8, <2>2, <2>3 DEF Invoke, TypeOK
<1>9. ASSUME NEW r \in Runner, Records(r) PROVE TypeOK'
  <2>1. PICK outcome \in Outcomes \ {"NOT_RUN"} : Recorded(r, outcome)
    BY <1>9, RecordEffect
  <2>2. position[r] \in Sample /\ samples' \in [Runner -> Seq(Record)]
    BY <2>1, PushEffect DEF Recorded
  <2>3. persisted' \in [Runner -> SUBSET Sample]
    <3> DEFINE more == persisted[r] \cup {position[r]}
    <3>1. more \in SUBSET Sample
      BY <2>2 DEF TypeOK
    <3>2. UNCHANGED persisted \/ persisted' = [persisted EXCEPT ![r] = more]
      BY <2>1 DEF Recorded
    <3> HIDE DEF more
    <3> QED
      BY <3>1, <3>2 DEF TypeOK
  <2>4. evidence' \in [Sample -> {"ABSENT", "TORN", "WRITTEN"}]
    BY <2>1, <2>2 DEF Recorded, TypeOK
  <2>5. status' \in [Runner -> Statuses] /\ stopReason' \in [Runner -> Reasons]
    <3>1. CASE UNCHANGED verdict
      BY <3>1 DEF TypeOK
    <3>2. ASSUME NEW reason \in Reasons, Report(r, "INSUFFICIENT", reason)
          PROVE  status' \in [Runner -> Statuses] /\ stopReason' \in [Runner -> Reasons]
      BY <3>2 DEF Report, Statuses, TypeOK
    <3> QED
      BY <2>1, <3>1, <3>2 DEF Recorded
  <2> QED
    BY <2>1, <2>2, <2>3, <2>4, <2>5 DEF Recorded, TypeOK
<1>10. ASSUME NEW r \in Runner, Leaves(r) PROVE TypeOK'
  <2>1. position' \in [Runner -> 1 .. SampleCount + 1]
    <3>1. pc[r] = "CLEANUP" => position[r] + 1 \in 1 .. SampleCount + 1
      BY SampleCountAssumption DEF PassHeld, TypeOK
    <3>2. \/ UNCHANGED position
          \/ pc[r] = "CLEANUP" /\ position' = [position EXCEPT ![r] = @ + 1]
      BY <1>10 DEF Leaves, Cleanup, FailCleanup, LeavePass
    <3> QED
      BY <3>1, <3>2 DEF TypeOK
  <2>2. pc' \in [Runner -> Steps]
    <3>1. PICK to \in Steps : pc' = [pc EXCEPT ![r] = to]
      BY <1>10 DEF Leaves, Cleanup, FailCleanup, LeavePass
    <3> QED
      BY <3>1 DEF TypeOK
  <2>3. CASE Cleanup(r)
    BY <2>1, <2>2, <2>3 DEF Cleanup, TypeOK
  <2>4. CASE FailCleanup(r)
    <3>1. fault' \in [Runner -> SUBSET Faults]
      BY <2>4, ExcuseType DEF FailCleanup
    <3>2. status' \in [Runner -> Statuses] /\ stopReason' \in [Runner -> Reasons]
      BY <2>4 DEF FailCleanup, StatusAfterCleanupFailure, Report, TypeOK, Statuses, Reasons
    <3> QED
      BY <2>1, <2>2, <2>4, <3>1, <3>2 DEF FailCleanup, TypeOK
  <2> QED
    BY <1>10, <2>3, <2>4 DEF Leaves
<1>11. ASSUME NEW r \in Runner, Fills(r) PROVE TypeOK'
  <2>1. NextNotRun(r) \in Sample /\ samples' \in [Runner -> Seq(Record)]
    BY <1>11, FillEffect DEF Fills, RecordNotRun, FailNotRun
  <2>2. evidence' \in [Sample -> {"ABSENT", "TORN", "WRITTEN"}]
    BY <1>11, <2>1 DEF Fills, RecordNotRun, FailNotRun, WriteEvidence, TearEvidence, TypeOK
  <2>3. status' \in [Runner -> Statuses] /\ stopReason' \in [Runner -> Reasons]
    BY <1>11 DEF Fills, RecordNotRun, FailNotRun, Report, Statuses, Reasons, TypeOK
  <2> QED
    BY <1>11, <2>1, <2>2, <2>3 DEF Fills, RecordNotRun, FailNotRun, TypeOK
<1>12. ASSUME NEW r \in Runner, Collects(r) PROVE TypeOK'
  <2>1. CASE OpenCollection(r)
    BY <2>1 DEF OpenCollection, Partial, TypeOK
  <2>2. CASE WriteCollection(r)
    BY <2>2 DEF WriteCollection, Collected, TypeOK
  <2>3. CASE FailCollection(r)
    <3>1. collection'.state \in {"ABSENT", "PARTIAL", "WRITTEN"}
      BY <2>3 DEF FailCollection, Partial, Collected, TypeOK
    <3>2. pc' = [pc EXCEPT ![r] = "RECEIPT"]
      BY <2>3 DEF FailCollection
    <3> QED
      BY <2>3, <3>1, <3>2 DEF FailCollection, Report, Statuses, Reasons, TypeOK
  <2> QED
    BY <1>12, <2>1, <2>2, <2>3 DEF Collects
<1>13. ASSUME NEW r \in Runner, Receipts(r) PROVE TypeOK'
  <2>1. CASE OpenReceipt(r)
    BY <2>1 DEF OpenReceipt, Partial, TypeOK
  <2>2. CASE WriteReceipt(r)
    BY <2>2 DEF WriteReceipt, Receipt, TypeOK
  <2>3. CASE FailReceipt(r)
    <3>1. fault' \in [Runner -> SUBSET Faults]
      BY <2>3, ExcuseType DEF FailReceipt
    <3>2. pc' \in [Runner -> Steps]
      <4>1. PICK to \in Steps : pc' = [pc EXCEPT ![r] = to]
        BY <2>3 DEF FailReceipt
      <4> QED
        BY <4>1 DEF TypeOK
    <3> QED
      BY <2>3, <3>1, <3>2 DEF FailReceipt, Partial, Receipt, TypeOK
  <2> QED
    BY <1>13, <2>1, <2>2, <2>3 DEF Receipts
<1>14. ASSUME NEW s \in Sample, Intrude(s) PROVE TypeOK'
  BY <1>14 DEF Intrude, TypeOK
<1>15. CASE UNCHANGED vars
  BY <1>15 DEF vars, TypeOK
<1> QED
  BY StepKinds, <1>1, <1>2, <1>3, <1>4, <1>5, <1>6, <1>7, <1>8, <1>9, <1>10, <1>11,
     <1>12, <1>13, <1>14, <1>15 DEF Acts

-----------------------------------------------------------------------------
(* Who owns what. *)

\* Only the runner that creates the reservation of the campaign goes beyond it.
LEMMA CollectorStep ==
  ASSUME TypeOK, SingleCollector, ReservationHeld, RunnerFresh, PassHeld, [Next]_vars
  PROVE  SingleCollector'
<1> USE NoRunnerAssumption DEF Goto, progress, verdict, campaignFiles, sampleFiles
<1>1. ASSUME NEW r \in Runner, Idles(r) PROVE SingleCollector'
  BY <1>1 DEF Idles, Ended, SingleCollector, TypeOK
<1>2. ASSUME NEW r \in Runner, OpenReservation(r) PROVE SingleCollector'
  BY <1>2 DEF OpenReservation, ExclusiveCreates, SingleCollector, ReservationHeld,
              RunnerFresh, TypeOK
<1>3. ASSUME NEW r \in Runner, ReserveSample(r) PROVE SingleCollector'
  <2>1. pc[r] = "RESERVE_SAMPLE" /\ holder = r
    BY <1>3 DEF ReserveSample, SingleCollector
  <2>2. pc' = [pc EXCEPT ![r] = "INVOKE"] /\ UNCHANGED <<holder, samples>>
    BY <1>3 DEF ReserveSample
  <2>3. \A q \in Runner \ {r} : consumed'[q] = consumed[q]
    BY <1>3 DEF ReserveSample, TypeOK
  <2>4. \A s \in Sample : sampleHolder'[s] \in {sampleHolder[s], r}
    BY <1>3 DEF ReserveSample, TypeOK
  <2> QED
    BY <2>1, <2>2, <2>3, <2>4 DEF SingleCollector, TypeOK
<1>4. ASSUME NEW r \in Runner, Records(r) \/ Fills(r) \/ FailOutput(r) PROVE SingleCollector'
  <2>1. pc[r] \in {"INVOKE", "PERSIST", "REMAINDER", "OUTPUT"} /\ holder = r
    BY <1>4 DEF Records, FailInvoker, PersistSample, FailPersist, Fills, RecordNotRun,
                FailNotRun, PushNotRun, FailOutput, SingleCollector
  <2>2. \E to \in {"CLEANUP", "REMAINDER", "RECEIPT"} : pc' = [pc EXCEPT ![r] = to]
    <3>1. CASE Fills(r)
      <4>1. pc' = [pc EXCEPT ![r] = "REMAINDER"]
        BY <3>1 DEF Fills, RecordNotRun, FailNotRun, PushNotRun, TypeOK
      <4> QED
        BY <4>1
    <3> QED
      BY <1>4, <3>1 DEF Records, FailInvoker, PersistSample, FailPersist, FailOutput
  <2>3. \A q \in Runner \ {r} : samples'[q] = samples[q]
    BY <1>4 DEF Records, FailInvoker, PersistSample, FailPersist, Push, Fills, RecordNotRun,
                FailNotRun, PushNotRun, FailOutput, TypeOK
  <2>4. UNCHANGED <<holder, consumed, sampleHolder>>
    BY <1>4 DEF Records, FailInvoker, PersistSample, FailPersist, Fills, RecordNotRun,
                FailNotRun, FailOutput
  <2> QED
    BY <2>1, <2>2, <2>3, <2>4 DEF SingleCollector, TypeOK
<1>5. ASSUME NEW r \in Runner,
             \/ WriteReservation(r) \/ FailReservation(r) \/ Stops(r) \/ Enters(r) \/ Receive(r) \/ Invoke(r)
             \/ Leaves(r) \/ Collects(r) \/ Receipts(r)
      PROVE  SingleCollector'
  <2>1. UNCHANGED <<holder, consumed, samples, sampleHolder>>
    BY <1>5 DEF WriteReservation, FailReservation, Stops, Enters, CreateWorkspace, FailSampleReservation,
                Unwind, Receive, Invoke, Leaves, Cleanup, FailCleanup, Collects,
                OpenCollection, WriteCollection, FailCollection, Receipts, OpenReceipt,
                WriteReceipt, FailReceipt
  <2>2. pc[r] \notin {"START", "TERMINAL", "RESERVE", "REFUSED", "KILLED"}
    BY <1>5 DEF WriteReservation, FailReservation, Stops, Enters, CreateWorkspace, FailSampleReservation,
                Unwind, Receive, Invoke, Leaves, Cleanup, FailCleanup, LeavePass, Collects,
                OpenCollection, WriteCollection, FailCollection, Receipts, OpenReceipt,
                WriteReceipt, FailReceipt
  <2>3. \E to \in Steps : pc' = [pc EXCEPT ![r] = to]
    BY <1>5 DEF WriteReservation, FailReservation, Stops, Enters, CreateWorkspace, FailSampleReservation,
                Unwind, Receive, Invoke, Leaves, Cleanup, FailCleanup, LeavePass, Collects,
                OpenCollection, WriteCollection, FailCollection, Receipts, OpenReceipt,
                WriteReceipt, FailReceipt, Steps
  <2> QED
    BY <2>1, <2>2, <2>3 DEF SingleCollector, TypeOK
<1>6. ASSUME NEW s \in Sample, Intrude(s) PROVE SingleCollector'
  BY <1>6 DEF Intrude, SingleCollector
<1>7. CASE UNCHANGED vars
  BY <1>7 DEF vars, SingleCollector
<1> QED
  BY StepKinds, <1>1, <1>2, <1>3, <1>4, <1>5, <1>6, <1>7 DEF Acts, Reserves

\* The reservation and its holder appear together, and before any other file.
LEMMA ReservationStep ==
  ASSUME TypeOK, SingleCollector, ReservationHeld, [Next]_vars
  PROVE  ReservationHeld'
<1> USE NoRunnerAssumption
        DEF TypeOK, SingleCollector, ReservationHeld, Goto, progress, verdict,
            campaignFiles, sampleFiles
<1>1. ASSUME NEW r \in Runner, Idles(r) PROVE ReservationHeld'
  BY <1>1 DEF Idles, Ended
<1>2. ASSUME NEW r \in Runner, Reserves(r)
      PROVE  ReservationHeld'
  BY <1>2 DEF Reserves, OpenReservation, WriteReservation, FailReservation, ExclusiveCreates
<1>3. ASSUME NEW r \in Runner, FailOutput(r) \/ Stops(r) \/ Enters(r)
      PROVE  ReservationHeld'
  BY <1>3 DEF FailOutput, Stops, Enters, CreateWorkspace, FailSampleReservation, Unwind,
              ExclusiveCreates
<1>4. ASSUME NEW r \in Runner, ReserveSample(r) \/ Receive(r) \/ Invoke(r)
      PROVE  ReservationHeld'
  BY <1>4 DEF ReserveSample, Receive, Invoke, ExclusiveCreates
<1>5. ASSUME NEW r \in Runner, Records(r) PROVE ReservationHeld'
  BY <1>5 DEF Records, FailInvoker, PersistSample, FailPersist
<1>6. ASSUME NEW r \in Runner, Leaves(r) \/ Fills(r) PROVE ReservationHeld'
  BY <1>6 DEF Leaves, Cleanup, FailCleanup, LeavePass, Fills, RecordNotRun, FailNotRun
<1>7. ASSUME NEW r \in Runner, Collects(r) \/ Receipts(r) PROVE ReservationHeld'
  BY <1>7 DEF Collects, OpenCollection, WriteCollection, FailCollection,
              Receipts, OpenReceipt, WriteReceipt, FailReceipt
<1>8. ASSUME NEW s \in Sample, Intrude(s) PROVE ReservationHeld'
  BY <1>8 DEF Intrude
<1>9. CASE UNCHANGED vars
  BY <1>9 DEF vars
<1> QED
  BY StepKinds, <1>1, <1>2, <1>3, <1>4, <1>5, <1>6, <1>7, <1>8, <1>9 DEF Acts

\* A runner does nothing of its own before its output directory is made.
LEMMA FreshStep == ASSUME TypeOK, RunnerFresh, [Next]_vars PROVE RunnerFresh'
<1> USE DEF TypeOK, RunnerFresh, Goto, progress, verdict, campaignFiles, sampleFiles
<1>1. ASSUME NEW r \in Runner, Idles(r) PROVE RunnerFresh'
  BY <1>1 DEF Idles, Ended
<1>2. ASSUME NEW r \in Runner, Reserves(r) PROVE RunnerFresh'
  <2>1. CASE OpenReservation(r) \/ WriteReservation(r)
    BY <2>1 DEF OpenReservation, WriteReservation
  <2>2. CASE FailReservation(r)
    <3>1. \A q \in Runner \ {r} : fault'[q] = fault[q]
      BY <2>2 DEF FailReservation, Excuse
    <3> QED
      BY <2>2, <3>1 DEF FailReservation
  <2> QED
    BY <1>2, <2>1, <2>2 DEF Reserves
<1>3. ASSUME NEW r \in Runner, FailOutput(r) \/ Stops(r) \/ Enters(r) PROVE RunnerFresh'
  BY <1>3 DEF FailOutput, Report, Stops, Enters, CreateWorkspace, FailSampleReservation,
              Unwind, Excuse
<1>4. ASSUME NEW r \in Runner, ReserveSample(r) \/ Receive(r) \/ Invoke(r) PROVE RunnerFresh'
  BY <1>4 DEF ReserveSample, Receive, Invoke
<1>5. ASSUME NEW r \in Runner, Records(r) PROVE RunnerFresh'
  BY <1>5 DEF Records, FailInvoker, PersistSample, FailPersist, Push, Report, StopGlobally
<1>6. ASSUME NEW r \in Runner, Leaves(r) PROVE RunnerFresh'
  BY <1>6 DEF Leaves, Cleanup, FailCleanup, LeavePass, Report, Excuse
<1>7. ASSUME NEW r \in Runner, Fills(r) PROVE RunnerFresh'
  BY <1>7 DEF Fills, RecordNotRun, FailNotRun, PushNotRun, Report
<1>8. ASSUME NEW r \in Runner, Collects(r) \/ Receipts(r) PROVE RunnerFresh'
  BY <1>8 DEF Collects, OpenCollection, WriteCollection, FailCollection, Report,
              Receipts, OpenReceipt, WriteReceipt, FailReceipt, Excuse
<1>9. ASSUME NEW s \in Sample, Intrude(s) PROVE RunnerFresh'
  BY <1>9 DEF Intrude
<1>10. CASE UNCHANGED vars
  BY <1>10 DEF vars
<1> QED
  BY StepKinds, <1>1, <1>2, <1>3, <1>4, <1>5, <1>6, <1>7, <1>8, <1>9, <1>10 DEF Acts

-----------------------------------------------------------------------------
(* What was called, recorded and written. *)

\* The calls stay an initial segment of the schedule: only the holder of the
\* campaign calls, and it calls the sample behind those it has called.
LEMMA CallsStep ==
  ASSUME TypeOK, SingleCollector, ReservationHeld, RunnerFresh, CallsAreCounted, PassHeld,
         [Next]_vars
  PROVE  CallsAreCounted'
<1> USE NoRunnerAssumption DEF Goto, progress, verdict, campaignFiles, sampleFiles
<1>1. ASSUME NEW r \in Runner, OpenReservation(r) PROVE CallsAreCounted'
  BY <1>1, SampleCountAssumption
     DEF OpenReservation, ExclusiveCreates, ReservationHeld, RunnerFresh, CallsAreCounted,
         Sample, TypeOK
<1>2. ASSUME NEW r \in Runner, ReserveSample(r) PROVE CallsAreCounted'
  BY <1>2 DEF ReserveSample, CallsAreCounted, TypeOK
<1>3. ASSUME NEW r \in Runner, Invoke(r) PROVE CallsAreCounted'
  <2>1. /\ position[r] \in Sample /\ invocations[r] = position[r] - 1
        /\ position[r] \in consumed[r] /\ holder = r /\ r # NoRunner
    BY <1>3, SampleCountAssumption
       DEF Invoke, PassHeld, Walking, SingleCollector, TypeOK, Sample
  <2>2. calls[position[r]] = 0
    BY <2>1, SampleCountAssumption DEF CallsAreCounted, Sample
  <2>3. /\ calls' = [calls EXCEPT ![position[r]] = 1]
        /\ invocations' = [invocations EXCEPT ![r] = position[r]]
        /\ UNCHANGED <<holder, consumed>>
    <3>1. calls[position[r]] + 1 = 1 /\ invocations[r] + 1 = position[r]
      BY <2>1, <2>2, SampleCountAssumption DEF Sample
    <3> QED
      BY <1>3, <3>1 DEF Invoke
  <2>4. \A s \in Sample : calls'[s] = IF s <= invocations'[r] THEN 1 ELSE 0
    BY <2>1, <2>3, SampleCountAssumption DEF CallsAreCounted, TypeOK, Sample
  <2>5. \A q \in Runner : 1 .. invocations'[q] \subseteq consumed'[q]
    <3>1. 1 .. position[r] \subseteq consumed[r]
      BY <2>1, SampleCountAssumption DEF CallsAreCounted, Sample
    <3> QED
      BY <2>3, <3>1 DEF CallsAreCounted, TypeOK
  <2> QED
    BY <2>1, <2>3, <2>4, <2>5 DEF CallsAreCounted
<1>4. ASSUME NEW r \in Runner,
             \/ Idles(r) \/ WriteReservation(r) \/ FailReservation(r) \/ FailOutput(r) \/ Stops(r) \/ Enters(r)
             \/ Receive(r) \/ Records(r) \/ Leaves(r) \/ Fills(r) \/ Collects(r) \/ Receipts(r)
      PROVE  UNCHANGED <<holder, calls, invocations, consumed>>
  BY <1>4 DEF Idles, WriteReservation, FailReservation, FailOutput, Stops, Enters, CreateWorkspace,
              FailSampleReservation, Unwind, Receive, Records, FailInvoker, PersistSample,
              FailPersist, Leaves, Cleanup, FailCleanup, Fills, RecordNotRun, FailNotRun,
              Collects, OpenCollection, WriteCollection, FailCollection, Receipts,
              OpenReceipt, WriteReceipt, FailReceipt
<1>5. ASSUME NEW s \in Sample, Intrude(s) PROVE UNCHANGED <<holder, calls, invocations, consumed>>
  BY <1>5 DEF Intrude
<1>6. CASE UNCHANGED <<holder, calls, invocations, consumed>>
  BY <1>6 DEF CallsAreCounted
<1>7. CASE UNCHANGED vars
  BY <1>6, <1>7 DEF vars
<1> QED
  BY StepKinds, <1>1, <1>2, <1>3, <1>4, <1>5, <1>6, <1>7 DEF Acts, Reserves

\* The walk goes through the schedule one call at a time.
LEMMA PassStep ==
  ASSUME TypeOK, SingleCollector, ReservationHeld, RunnerFresh, PassHeld, RecordsHeld,
         [Next]_vars
  PROVE  PassHeld'
<1> USE SampleCountAssumption, NoRunnerAssumption
        DEF TypeOK, PassHeld, Walking, Goto, progress, verdict, campaignFiles, sampleFiles
<1>1. ASSUME NEW r \in Runner, Idles(r) PROVE PassHeld'
  BY <1>1 DEF Idles, Ended, RunnerFresh
<1>2. ASSUME NEW r \in Runner, Reserves(r) PROVE PassHeld'
  BY <1>2 DEF Reserves, OpenReservation, WriteReservation, FailReservation
<1>3. ASSUME NEW r \in Runner, FailOutput(r) \/ Stops(r) PROVE PassHeld'
  BY <1>3 DEF FailOutput, Report, Stops
<1>4. ASSUME NEW r \in Runner, Enters(r) PROVE PassHeld'
  BY <1>4 DEF Enters, CreateWorkspace, FailSampleReservation, Unwind
<1>5. ASSUME NEW r \in Runner, ReserveSample(r) PROVE PassHeld'
  <2>1. position[r] \in Sample /\ pc[r] = "RESERVE_SAMPLE" /\ holder = r
    BY <1>5, AtSample DEF ReserveSample, SingleCollector
  <2>2. sampleHolder'[position[r]] = r /\ position[r] \in consumed'[r]
    BY <1>5, <2>1 DEF ReserveSample
  <2>3. \A q \in Runner \ {r} : pc[q] \notin {"INVOKE", "AWAIT", "PERSIST"}
    BY <2>1 DEF SingleCollector
  <2> QED
    BY <1>5, <2>2, <2>3 DEF ReserveSample
<1>6. ASSUME NEW r \in Runner, Receive(r) PROVE PassHeld'
  BY <1>6 DEF Receive
<1>7. ASSUME NEW r \in Runner, Invoke(r) PROVE PassHeld'
  BY <1>7 DEF Invoke
<1>8. ASSUME NEW r \in Runner, Records(r) PROVE PassHeld'
  <2>1. PICK outcome \in Outcomes \ {"NOT_RUN"} : Recorded(r, outcome)
    BY <1>8, RecordEffect
  <2>2. stopReason'[r] = "NONE" => pc[r] = "PERSIST"
    BY <2>1 DEF Recorded, Report
  <2>3. \A q \in Runner \ {r} : stopReason'[q] = stopReason[q]
    BY <2>1 DEF Recorded, Report
  <2> QED
    BY <2>1, <2>2, <2>3 DEF Recorded
<1>9. ASSUME NEW r \in Runner, Leaves(r) PROVE PassHeld'
  <2>1. CASE Cleanup(r)
    <3>1. CASE stopReason[r] = "NONE"
      BY <2>1, <3>1 DEF Cleanup, LeavePass
    <3>2. CASE stopReason[r] # "NONE"
      BY <2>1, <3>2 DEF Cleanup, LeavePass
    <3> QED
      BY <3>1, <3>2
  <2>2. CASE FailCleanup(r)
    <3>1. pc' = [pc EXCEPT ![r] = "REMAINDER"] /\ UNCHANGED position
      BY <2>2 DEF FailCleanup, LeavePass, StatusAfterCleanupFailure, RecordsHeld, RecordsOf
    <3>2. \A q \in Runner \ {r} : stopReason'[q] = stopReason[q]
      BY <2>2 DEF FailCleanup, Report
    <3> QED
      BY <2>2, <3>1, <3>2 DEF FailCleanup
  <2> QED
    BY <1>9, <2>1, <2>2 DEF Leaves
<1>10. ASSUME NEW r \in Runner, Fills(r) PROVE PassHeld'
  <2>1. pc' = pc /\ pc[r] = "REMAINDER"
    BY <1>10 DEF Fills, RecordNotRun, FailNotRun, PushNotRun
  <2>2. \A q \in Runner \ {r} : stopReason'[q] = stopReason[q]
    BY <1>10 DEF Fills, RecordNotRun, FailNotRun, Report
  <2> QED
    BY <1>10, <2>1, <2>2 DEF Fills, RecordNotRun, FailNotRun
<1>11. ASSUME NEW r \in Runner, Collects(r) \/ Receipts(r) PROVE PassHeld'
  BY <1>11 DEF Collects, OpenCollection, WriteCollection, FailCollection, Report,
               Receipts, OpenReceipt, WriteReceipt, FailReceipt
<1>12. ASSUME NEW s \in Sample, Intrude(s) PROVE PassHeld'
  BY <1>12 DEF Intrude
<1>13. CASE UNCHANGED vars
  BY <1>13 DEF vars
<1> QED
  BY StepKinds, <1>1, <1>2, <1>3, <1>4, <1>5, <1>6, <1>7, <1>8, <1>9, <1>10, <1>11,
     <1>12, <1>13 DEF Acts

\* Records and position advance together, and the rest is filled in at the end.
LEMMA RecordsStep ==
  ASSUME TypeOK, RunnerFresh, PassHeld, RecordsHeld, [Next]_vars
  PROVE  RecordsHeld'
<1> USE SampleCountAssumption
        DEF TypeOK, RecordsHeld, RecordsOf, Walking, Reporting, Goto, progress, verdict,
            campaignFiles, sampleFiles
<1>1. ASSUME NEW r \in Runner, Idles(r) PROVE RecordsHeld'
  BY <1>1 DEF Idles, Ended, RunnerFresh
<1>2. ASSUME NEW r \in Runner, OpenReservation(r) PROVE RecordsHeld'
  BY <1>2 DEF OpenReservation
<1>3. ASSUME NEW r \in Runner, WriteReservation(r) \/ FailReservation(r) PROVE RecordsHeld'
  BY <1>3 DEF WriteReservation, FailReservation
<1>4. ASSUME NEW r \in Runner, FailOutput(r) PROVE RecordsHeld'
  <2>1. /\ Len(samples'[r]) = SampleCount /\ DOMAIN samples'[r] = 1 .. SampleCount
        /\ \A k \in 1 .. SampleCount : samples'[r][k].id = k
    BY <1>4, AllNotRun DEF FailOutput, Entry, Sample
  <2>2. \A q \in Runner \ {r} : /\ samples'[q] = samples[q] /\ status'[q] = status[q]
                                /\ stopReason'[q] = stopReason[q]
    BY <1>4 DEF FailOutput, Report
  <2>3. pc' = [pc EXCEPT ![r] = "RECEIPT"] /\ UNCHANGED position
    BY <1>4 DEF FailOutput
  <2> QED
    <3> SUFFICES ASSUME NEW q \in Runner PROVE RecordsOf(q)'
      BY DEF RecordsHeld
    <3>1. CASE q = r
      BY <2>1, <2>3, <3>1
    <3>2. CASE q # r
      BY <2>2, <2>3, <3>2
    <3> QED
      BY <3>1, <3>2
<1>5. ASSUME NEW r \in Runner, Stops(r) PROVE RecordsHeld'
  BY <1>5 DEF Stops, Report
<1>6. ASSUME NEW r \in Runner, Enters(r) PROVE RecordsHeld'
  BY <1>6 DEF Enters, CreateWorkspace, FailSampleReservation, Unwind
<1>7. ASSUME NEW r \in Runner, ReserveSample(r) \/ Receive(r) PROVE RecordsHeld'
  BY <1>7 DEF ReserveSample, Receive
<1>8. ASSUME NEW r \in Runner, Invoke(r) PROVE RecordsHeld'
  BY <1>8 DEF Invoke
<1>9. ASSUME NEW r \in Runner, Records(r) PROVE RecordsHeld'
  <2>1. PICK outcome \in Outcomes \ {"NOT_RUN"} : Recorded(r, outcome)
    BY <1>9, RecordEffect
  <2>2. /\ position[r] \in Sample
        /\ \A q \in Runner \ {r} : samples'[q] = samples[q]
        /\ Len(samples'[r]) = Len(samples[r]) + 1
        /\ DOMAIN samples'[r] = 1 .. Len(samples[r]) + 1
        /\ DOMAIN samples[r] = 1 .. Len(samples[r])
        /\ \A k \in DOMAIN samples[r] : samples'[r][k] = samples[r][k]
        /\ samples'[r][Len(samples[r]) + 1] = Entry(position[r], outcome)
    BY <2>1, PushEffect DEF Recorded
  <2>3. /\ Len(samples[r]) = position[r] - 1
        /\ status[r] = "COMPLETE" /\ stopReason[r] = "NONE"
    BY <2>1 DEF Recorded
  <2>4. stopReason'[r] = "NONE" <=> status'[r] = "COMPLETE"
    BY <2>1, <2>3 DEF Recorded, Report
  <2>5. \A q \in Runner \ {r} : status'[q] = status[q] /\ stopReason'[q] = stopReason[q]
    BY <2>1 DEF Recorded, Report
  <2>6. Len(samples'[r]) = position[r] /\ position[r] <= SampleCount
    BY <2>2, <2>3 DEF Sample
  <2>7. \A k \in DOMAIN samples'[r] : samples'[r][k].id = k
    <3> SUFFICES ASSUME NEW k \in DOMAIN samples'[r] PROVE samples'[r][k].id = k
      OBVIOUS
    <3>1. CASE k \in DOMAIN samples[r]
      BY <2>2, <3>1
    <3>2. CASE k = Len(samples[r]) + 1
      BY <2>2, <2>3, <3>2 DEF Entry, Sample
    <3> QED
      BY <2>2, <2>3, <3>1, <3>2 DEF Sample
  <2>8. pc' = [pc EXCEPT ![r] = "CLEANUP"] /\ UNCHANGED position
    BY <2>1 DEF Recorded
  <2> QED
    <3> SUFFICES ASSUME NEW q \in Runner PROVE RecordsOf(q)'
      BY DEF RecordsHeld
    <3>1. CASE q = r
      BY <2>4, <2>6, <2>7, <2>8, <3>1
    <3>2. CASE q # r
      BY <2>2, <2>5, <2>8, <3>2
    <3> QED
      BY <3>1, <3>2
<1>10. ASSUME NEW r \in Runner, Leaves(r) PROVE RecordsHeld'
  <2>1. CASE Cleanup(r)
    BY <2>1 DEF Cleanup, LeavePass, PassHeld
  <2>2. CASE FailCleanup(r)
    <3>1. pc' = [pc EXCEPT ![r] = "REMAINDER"] /\ UNCHANGED <<position, samples>>
      BY <2>2 DEF FailCleanup, LeavePass, StatusAfterCleanupFailure
    <3>2. status'[r] # "COMPLETE"
      BY <2>2 DEF FailCleanup, StatusAfterCleanupFailure, Report
    <3>3. \A q \in Runner \ {r} : status'[q] = status[q] /\ stopReason'[q] = stopReason[q]
      BY <2>2 DEF FailCleanup, Report
    <3> QED
      BY <3>1, <3>2, <3>3
  <2> QED
    BY <1>10, <2>1, <2>2 DEF Leaves
<1>11. ASSUME NEW r \in Runner, Fills(r) PROVE RecordsHeld'
  <2>1. PushNotRun(r) /\ pc[r] = "REMAINDER" /\ Len(samples[r]) < SampleCount /\ UNCHANGED <<pc, position>>
    BY <1>11 DEF Fills, RecordNotRun, FailNotRun, PushNotRun
  <2>2. /\ \A q \in Runner \ {r} : samples'[q] = samples[q]
        /\ Len(samples[r]) \in Nat /\ Len(samples'[r]) = Len(samples[r]) + 1
        /\ DOMAIN samples'[r] = 1 .. Len(samples[r]) + 1
        /\ DOMAIN samples[r] = 1 .. Len(samples[r])
        /\ \A k \in DOMAIN samples[r] : samples'[r][k] = samples[r][k]
        /\ samples'[r][Len(samples[r]) + 1] = Entry(Len(samples[r]) + 1, "NOT_RUN")
    BY <2>1, FillEffect
  <2>3. \A k \in DOMAIN samples'[r] : samples'[r][k].id = k
    <3> SUFFICES ASSUME NEW k \in DOMAIN samples'[r] PROVE samples'[r][k].id = k
      OBVIOUS
    <3>1. CASE k \in DOMAIN samples[r]
      BY <2>2, <3>1
    <3>2. CASE k = Len(samples[r]) + 1
      BY <2>2, <3>2 DEF Entry
    <3> QED
      BY <2>2, <3>1, <3>2
  <2>4. status[r] # "COMPLETE" /\ status'[r] # "COMPLETE"
    <3>1. status[r] # "COMPLETE"
      BY <2>1
    <3> QED
      BY <1>11, <3>1 DEF Fills, RecordNotRun, FailNotRun, Report
  <2>5. \A q \in Runner \ {r} : status'[q] = status[q] /\ stopReason'[q] = stopReason[q]
    BY <1>11 DEF Fills, RecordNotRun, FailNotRun, Report
  <2>6. pc[r] = "REMAINDER" /\ pc' = pc /\ position' = position /\ Len(samples'[r]) <= SampleCount
    BY <2>1, <2>2
  <2> QED
    <3> SUFFICES ASSUME NEW q \in Runner PROVE RecordsOf(q)'
      BY DEF RecordsHeld
    <3>1. CASE q = r
      BY <2>3, <2>4, <2>6, <3>1
    <3>2. CASE q # r
      BY <2>2, <2>5, <2>6, <3>2
    <3> QED
      BY <3>1, <3>2
<1>12. ASSUME NEW r \in Runner, Collects(r) PROVE RecordsHeld'
  BY <1>12 DEF Collects, OpenCollection, WriteCollection, FailCollection, Report
<1>13. ASSUME NEW r \in Runner, Receipts(r) PROVE RecordsHeld'
  BY <1>13 DEF Receipts, OpenReceipt, WriteReceipt, FailReceipt
<1>14. ASSUME NEW s \in Sample, Intrude(s) PROVE RecordsHeld'
  BY <1>14 DEF Intrude
<1>15. CASE UNCHANGED vars
  BY <1>15 DEF vars
<1> QED
  BY StepKinds, <1>1, <1>2, <1>3, <1>4, <1>5, <1>6, <1>7, <1>8, <1>9, <1>10, <1>11,
     <1>12, <1>13, <1>14, <1>15 DEF Acts, Reserves

\* A record stays true: a file that is written stays written, no call follows
\* a stop, and what is filled in lies behind every call.
LEMMA OutcomesStep ==
  ASSUME TypeOK, RunnerFresh, PassHeld, RecordsHeld, OutcomesHeld, [Next]_vars
  PROVE  OutcomesHeld'
<1> USE SampleCountAssumption
        DEF TypeOK, PassHeld, RecordsHeld, RecordsOf, OutcomesHeld, OutcomesOf, Walking,
            Reporting, Goto, progress, verdict, campaignFiles, sampleFiles
<1>1. ASSUME NEW r \in Runner, Idles(r) PROVE OutcomesHeld'
  BY <1>1 DEF Idles, Ended, RunnerFresh
<1>2. ASSUME NEW r \in Runner, Reserves(r) PROVE OutcomesHeld'
  BY <1>2 DEF Reserves, OpenReservation, WriteReservation, FailReservation
<1>3. ASSUME NEW r \in Runner, FailOutput(r) PROVE OutcomesHeld'
  <2>1. /\ Len(samples'[r]) = SampleCount /\ DOMAIN samples'[r] = 1 .. SampleCount
        /\ \A k \in 1 .. SampleCount : samples'[r][k].outcome = "NOT_RUN"
    BY <1>3, AllNotRun DEF FailOutput, Entry, Sample
  <2>2. \A q \in Runner \ {r} : samples'[q] = samples[q] /\ status'[q] = status[q]
    BY <1>3 DEF FailOutput, Report
  <2>3. /\ pc' = [pc EXCEPT ![r] = "RECEIPT"] /\ status'[r] = "INSUFFICIENT"
        /\ UNCHANGED <<invocations, persisted, consumed, evidence>>
    BY <1>3 DEF FailOutput, Report
  <2>4. invocations[r] = 0 /\ persisted[r] = {}
    BY <1>3 DEF FailOutput, RunnerFresh
  <2> SUFFICES ASSUME NEW q \in Runner PROVE OutcomesOf(q)'
    BY DEF OutcomesHeld
  <2>5. CASE q = r
    BY <2>1, <2>3, <2>4, <2>5
  <2>6. CASE q # r
    BY <2>2, <2>3, <2>6
  <2> QED
    BY <2>5, <2>6
<1>4. ASSUME NEW r \in Runner, Stops(r) PROVE OutcomesHeld'
  BY <1>4 DEF Stops, Report
<1>5. ASSUME NEW r \in Runner, Enters(r) PROVE OutcomesHeld'
  <2>1. UNCHANGED <<samples, status, invocations, persisted, consumed, evidence>>
    BY <1>5 DEF Enters, CreateWorkspace, FailSampleReservation, Unwind
  <2>2. \E to \in {"RESERVE_SAMPLE", "UNWIND", "THROWN"} : pc' = [pc EXCEPT ![r] = to]
    BY <1>5 DEF Enters, CreateWorkspace, FailSampleReservation, Unwind
  <2> QED
    BY <2>1, <2>2
<1>6. ASSUME NEW r \in Runner, ReserveSample(r) \/ Receive(r) PROVE OutcomesHeld'
  <2>1. UNCHANGED <<samples, status, invocations, persisted, evidence>>
    BY <1>6 DEF ReserveSample, Receive
  <2>2. \A q \in Runner : consumed[q] \subseteq consumed'[q]
    <3>1. CASE Receive(r)
      BY <3>1 DEF Receive
    <3>2. CASE ReserveSample(r)
      <4>1. /\ consumed'[r] = consumed[r] \cup {position[r]}
            /\ \A q \in Runner \ {r} : consumed'[q] = consumed[q]
        BY <3>2 DEF ReserveSample
      <4> QED
        BY <4>1
    <3> QED
      BY <1>6, <3>1, <3>2
  <2>3. \E to \in {"INVOKE", "PERSIST"} : pc' = [pc EXCEPT ![r] = to]
    BY <1>6 DEF ReserveSample, Receive
  <2> QED
    BY <2>1, <2>2, <2>3
<1>7. ASSUME NEW r \in Runner, Invoke(r) PROVE OutcomesHeld'
  BY <1>7 DEF Invoke
<1>8. ASSUME NEW r \in Runner, Records(r) PROVE OutcomesHeld'
  <2>1. PICK outcome \in Outcomes \ {"NOT_RUN"} : Recorded(r, outcome)
    BY <1>8, RecordEffect
  <2>2. /\ position[r] \in Sample
        /\ \A q \in Runner \ {r} : samples'[q] = samples[q]
        /\ Len(samples'[r]) = Len(samples[r]) + 1
        /\ DOMAIN samples'[r] = 1 .. Len(samples[r]) + 1
        /\ DOMAIN samples[r] = 1 .. Len(samples[r])
        /\ \A k \in DOMAIN samples[r] : samples'[r][k] = samples[r][k]
        /\ samples'[r][Len(samples[r]) + 1] = Entry(position[r], outcome)
    BY <2>1, PushEffect DEF Recorded
  <2>3. /\ Len(samples[r]) = position[r] - 1 /\ status[r] = "COMPLETE"
        /\ invocations[r] \in {position[r] - 1, position[r]}
        /\ pc[r] = "PERSIST" => invocations[r] = position[r]
    BY <2>1 DEF Recorded
  <2>4. \A s \in Sample : evidence[s] = "WRITTEN" => evidence'[s] = "WRITTEN"
    BY <2>1 DEF Recorded
  <2>5. /\ pc' = [pc EXCEPT ![r] = "CLEANUP"]
        /\ UNCHANGED <<position, invocations, consumed>>
        /\ \A q \in Runner \ {r} : status'[q] = status[q] /\ persisted'[q] = persisted[q]
    BY <2>1 DEF Recorded, Report
  <2>6. \/ position[r] \in consumed[r] /\ evidence'[position[r]] = "WRITTEN"
        \/ persisted'[r] = persisted[r]
    BY <2>1, <2>2 DEF Recorded
  <2>7. \A s \in persisted'[r] : s \in consumed'[r] /\ evidence'[s] = "WRITTEN"
    <3>1. persisted'[r] \subseteq persisted[r] \cup {position[r]}
      BY <2>1 DEF Recorded
    <3>2. persisted[r] \subseteq Sample
      OBVIOUS
    <3> QED
      BY <2>4, <2>5, <2>6, <3>1, <3>2
  <2>8. \/ /\ pc[r] = "PERSIST" /\ outcome \in {"COMPLETED", "LOCAL_ERROR"}
           /\ evidence'[position[r]] = "WRITTEN"
        \/ /\ outcome \in {"GLOBAL_ERROR", "UNADAPTED", "UNPERSISTED"}
           /\ status'[r] = "INSUFFICIENT"
    BY <2>1, <2>2 DEF Recorded, Report
  <2>9. samples'[r][position[r]].outcome = outcome
    BY <2>2, <2>3 DEF Entry, Sample
  <2> SUFFICES ASSUME NEW q \in Runner PROVE OutcomesOf(q)'
    BY DEF OutcomesHeld
  <2>10. CASE q = r
    <3>1. invocations'[r] <= Len(samples'[r])
      BY <2>2, <2>3, <2>5 DEF Sample
    <3>2. ASSUME NEW k \in DOMAIN samples[r]
          PROVE  /\ samples'[r][k].outcome = "NOT_RUN" => invocations'[r] < k
                 /\ samples'[r][k].outcome \in {"COMPLETED", "LOCAL_ERROR"}
                 /\ evidence'[k] = "WRITTEN" /\ k <= invocations'[r]
      <4>1. k \in Sample /\ samples'[r][k] = samples[r][k]
        BY <2>2, <2>3, <3>2 DEF Sample
      <4>2. /\ samples[r][k].outcome \in {"COMPLETED", "LOCAL_ERROR"}
            /\ evidence[k] = "WRITTEN" /\ k <= invocations[r]
        BY <2>3, <3>2
      <4> QED
        BY <2>4, <2>5, <4>1, <4>2
    <3>3. \A k \in DOMAIN samples'[r] : k \in DOMAIN samples[r] \/ k = position[r]
      BY <2>2, <2>3 DEF Sample
    <3>4. /\ outcome # "NOT_RUN" /\ invocations'[r] <= position[r]
          /\ status'[r] = "COMPLETE" =>
               /\ outcome \in {"COMPLETED", "LOCAL_ERROR"}
               /\ evidence'[position[r]] = "WRITTEN" /\ position[r] <= invocations'[r]
      BY <2>2, <2>3, <2>5, <2>8 DEF Sample
    <3> QED
      BY <2>7, <2>9, <2>10, <3>1, <3>2, <3>3, <3>4
  <2>11. CASE q # r
    <3>1. /\ samples'[q] = samples[q] /\ status'[q] = status[q] /\ persisted'[q] = persisted[q]
          /\ pc'[q] = pc[q] /\ invocations'[q] = invocations[q] /\ consumed'[q] = consumed[q]
      BY <2>2, <2>5, <2>11
    <3>2. DOMAIN samples[q] \subseteq Sample /\ persisted[q] \subseteq Sample
      BY LenProperties DEF Sample
    <3> QED
      BY <2>4, <3>1, <3>2
  <2> QED
    BY <2>10, <2>11
<1>9. ASSUME NEW r \in Runner, Leaves(r) PROVE OutcomesHeld'
  <2>1. CASE Cleanup(r)
    BY <2>1 DEF Cleanup, LeavePass
  <2>2. CASE FailCleanup(r)
    BY <2>2 DEF FailCleanup, LeavePass, StatusAfterCleanupFailure, Report
  <2> QED
    BY <1>9, <2>1, <2>2 DEF Leaves
<1>10. ASSUME NEW r \in Runner, Fills(r) PROVE OutcomesHeld'
  <2>1. PushNotRun(r) /\ pc[r] = "REMAINDER" /\ Len(samples[r]) < SampleCount
    BY <1>10 DEF Fills, RecordNotRun, FailNotRun, PushNotRun
  <2>2. /\ NextNotRun(r) \in Sample
        /\ \A q \in Runner \ {r} : samples'[q] = samples[q]
        /\ Len(samples[r]) \in Nat /\ Len(samples'[r]) = Len(samples[r]) + 1
        /\ DOMAIN samples'[r] = 1 .. Len(samples[r]) + 1
        /\ DOMAIN samples[r] = 1 .. Len(samples[r])
        /\ \A k \in DOMAIN samples[r] : samples'[r][k] = samples[r][k]
        /\ samples'[r][Len(samples[r]) + 1] = Entry(Len(samples[r]) + 1, "NOT_RUN")
    BY <2>1, FillEffect
  <2>3. \A s \in Sample : evidence[s] = "WRITTEN" => evidence'[s] = "WRITTEN"
    BY <1>10, <2>2 DEF Fills, RecordNotRun, FailNotRun, WriteEvidence, TearEvidence, ExclusiveCreates
  <2>4. /\ UNCHANGED <<pc, invocations, consumed, persisted>>
        /\ \A q \in Runner \ {r} : status'[q] = status[q]
    BY <1>10 DEF Fills, RecordNotRun, FailNotRun, Report
  <2>5. status'[r] # "COMPLETE"
    BY <1>10, <2>1 DEF Fills, RecordNotRun, FailNotRun, Report
  <2> SUFFICES ASSUME NEW q \in Runner PROVE OutcomesOf(q)'
    BY DEF OutcomesHeld
  <2>6. CASE q = r
    <3>1. invocations[r] <= Len(samples[r])
      BY <2>1
    <3>2. persisted[r] \subseteq Sample
      OBVIOUS
    <3>3. samples'[r][Len(samples[r]) + 1].outcome = "NOT_RUN"
      BY <2>2 DEF Entry
    <3>4. \A k \in DOMAIN samples'[r] : k \in DOMAIN samples[r] \/ k = Len(samples[r]) + 1
      BY <2>2
    <3>5. \A k \in DOMAIN samples'[r] :
            /\ samples'[r][k].outcome = "NOT_RUN" => invocations'[r] < k
            /\ samples'[r][k].outcome \in {"GLOBAL_ERROR", "UNADAPTED", "UNPERSISTED"} =>
                 invocations'[r] <= k
      <4> SUFFICES ASSUME NEW k \in DOMAIN samples'[r]
                   PROVE  /\ samples'[r][k].outcome = "NOT_RUN" => invocations'[r] < k
                          /\ samples'[r][k].outcome \in {"GLOBAL_ERROR", "UNADAPTED", "UNPERSISTED"} =>
                               invocations'[r] <= k
        OBVIOUS
      <4>1. CASE k \in DOMAIN samples[r]
        <5>1. samples'[r][k] = samples[r][k]
          BY <2>2, <4>1
        <5> QED
          BY <2>4, <4>1, <5>1
      <4>2. CASE k = Len(samples[r]) + 1
        <5>1. invocations'[r] < k
          BY <2>2, <2>4, <3>1, <4>2
        <5> QED
          BY <3>3, <4>2, <5>1
      <4> QED
        BY <3>4, <4>1, <4>2
    <3>6. \A s \in persisted'[r] : s \in consumed'[r] /\ evidence'[s] = "WRITTEN"
      BY <2>3, <2>4, <3>2
    <3>7. invocations'[r] <= Len(samples'[r])
      BY <2>2, <2>4, <3>1
    <3> QED
      BY <2>5, <2>6, <3>5, <3>6, <3>7
  <2>7. CASE q # r
    <3>1. samples'[q] = samples[q] /\ status'[q] = status[q]
      BY <2>2, <2>4, <2>7
    <3>2. DOMAIN samples[q] \subseteq Sample /\ persisted[q] \subseteq Sample
      BY LenProperties DEF Sample
    <3> QED
      BY <2>3, <2>4, <3>1, <3>2
  <2> QED
    BY <2>6, <2>7
<1>11. ASSUME NEW r \in Runner, Collects(r) PROVE OutcomesHeld'
  BY <1>11 DEF Collects, OpenCollection, WriteCollection, FailCollection, Report
<1>12. ASSUME NEW r \in Runner, Receipts(r) PROVE OutcomesHeld'
  BY <1>12 DEF Receipts, OpenReceipt, WriteReceipt, FailReceipt
<1>13. ASSUME NEW s \in Sample, Intrude(s) PROVE OutcomesHeld'
  BY <1>13 DEF Intrude
<1>14. CASE UNCHANGED vars
  BY <1>14 DEF vars
<1> QED
  BY StepKinds, <1>1, <1>2, <1>3, <1>4, <1>5, <1>6, <1>7, <1>8, <1>9, <1>10, <1>11,
     <1>12, <1>13, <1>14 DEF Acts

\* The collection and the receipt are written from what their runner holds,
\* and it does not change that afterwards.
LEMMA FilesStep ==
  ASSUME TypeOK, SingleCollector, ReservationHeld, RunnerFresh, RecordsHeld, FilesHeld,
         [Next]_vars
  PROVE  FilesHeld'
<1> USE NoRunnerAssumption
        DEF TypeOK, SingleCollector, ReservationHeld, FilesHeld, Goto, progress, verdict,
            campaignFiles, sampleFiles, Absent, Partial, CollectionOf, Receipt
<1>1. ASSUME NEW r \in Runner, Idles(r) PROVE FilesHeld'
  BY <1>1 DEF Idles, Ended, RunnerFresh
<1>2. ASSUME NEW r \in Runner, Reserves(r) PROVE FilesHeld'
  <2>1. CASE OpenReservation(r)
    BY <2>1 DEF OpenReservation, ExclusiveCreates
  <2>2. CASE WriteReservation(r) \/ FailReservation(r)
    <3>1. /\ holder = r /\ pc[r] = "RECORD" /\ \E to \in {"OUTPUT", "THROWN"} : pc' = [pc EXCEPT ![r] = to]
          /\ UNCHANGED <<collection, terminal, holder, collectionPersisted>>
      BY <2>2 DEF WriteReservation, FailReservation
    <3>2. collection \in {Absent, Partial} /\ terminal \in {Absent, Partial}
      BY <3>1
    <3> QED
      BY <3>1, <3>2
  <2> QED
    BY <1>2, <2>1, <2>2 DEF Reserves
<1>3. ASSUME NEW r \in Runner, FailOutput(r) PROVE FilesHeld'
  <2>1. /\ holder = r /\ pc[r] = "OUTPUT" /\ pc' = [pc EXCEPT ![r] = "RECEIPT"]
        /\ UNCHANGED <<collection, terminal, holder, collectionPersisted>>
    BY <1>3 DEF FailOutput
  <2>2. collection \in {Absent, Partial} /\ terminal \in {Absent, Partial}
    BY <2>1
  <2>3. ~collectionPersisted[r]
    BY <2>1 DEF RunnerFresh
  <2> QED
    BY <2>1, <2>2, <2>3
<1>4. ASSUME NEW r \in Runner, Stops(r) PROVE FilesHeld'
  BY <1>4 DEF Stops, Report
<1>5. ASSUME NEW r \in Runner, Enters(r) PROVE FilesHeld'
  <2>1. CASE CreateWorkspace(r) \/ Unwind(r)
    BY <2>1 DEF CreateWorkspace, Unwind, Excuse
  <2>2. CASE FailSampleReservation(r)
    <3>1. /\ holder = r /\ pc[r] = "RESERVE_SAMPLE" /\ pc' = [pc EXCEPT ![r] = "UNWIND"]
          /\ UNCHANGED <<collection, terminal, holder, collectionPersisted>>
      BY <2>2 DEF FailSampleReservation
    <3>2. collection \in {Absent, Partial} /\ terminal \in {Absent, Partial}
      BY <3>1
    <3> QED
      BY <3>1, <3>2
  <2> QED
    BY <1>5, <2>1, <2>2 DEF Enters
<1>6. ASSUME NEW r \in Runner, ReserveSample(r) PROVE FilesHeld'
  BY <1>6 DEF ReserveSample
<1>7. ASSUME NEW r \in Runner, Receive(r) \/ Invoke(r) PROVE FilesHeld'
  BY <1>7 DEF Receive, Invoke
<1>8. ASSUME NEW r \in Runner, Records(r) PROVE FilesHeld'
  <2>1. CASE FailInvoker(r)
    BY <2>1 DEF FailInvoker, Push, Report
  <2>2. CASE PersistSample(r)
    BY <2>2 DEF PersistSample, Push, StopGlobally, Report
  <2>3. CASE FailPersist(r)
    BY <2>3 DEF FailPersist, Push, Report
  <2> QED
    BY <1>8, <2>1, <2>2, <2>3 DEF Records
<1>9. ASSUME NEW r \in Runner, Leaves(r) PROVE FilesHeld'
  BY <1>9 DEF Leaves, Cleanup, FailCleanup, LeavePass, Report, Excuse
<1>10. ASSUME NEW r \in Runner, Fills(r) PROVE FilesHeld'
  BY <1>10 DEF Fills, RecordNotRun, FailNotRun, PushNotRun, Report
<1>11. ASSUME NEW r \in Runner, OpenCollection(r) PROVE FilesHeld'
  BY <1>11 DEF OpenCollection
<1>12. ASSUME NEW r \in Runner, WriteCollection(r) PROVE FilesHeld'
  <2>1. pc[r] = "COLLECT_WRITE" /\ holder = r /\ holder # NoRunner /\ Len(samples[r]) = SampleCount
    BY <1>12 DEF WriteCollection, RecordsHeld, RecordsOf, Reporting
  <2>2. CollectionOf(r)'
    BY <1>12 DEF WriteCollection, Collected
  <2>3. /\ pc' = [pc EXCEPT ![r] = "RECEIPT"]
        /\ UNCHANGED <<terminal, holder, samples, collectionPersisted>>
    BY <1>12 DEF WriteCollection
  <2>4. terminal \in {Absent, Partial}
    BY <2>1
  <2>5. pc'[holder'] = "RECEIPT" /\ collection'.state = "WRITTEN"
    BY <2>1, <2>2, <2>3
  <2> QED
    BY <2>1, <2>2, <2>3, <2>4, <2>5
<1>13. ASSUME NEW r \in Runner, FailCollection(r) PROVE FilesHeld'
  <2>1. pc[r] \in {"REMAINDER", "COLLECT_WRITE"} /\ holder = r
    BY <1>13 DEF FailCollection
  <2>2. collection \in {Absent, Partial} /\ terminal \in {Absent, Partial}
    BY <2>1
  <2>3. /\ pc' = [pc EXCEPT ![r] = "RECEIPT"]
        /\ collectionPersisted' = [collectionPersisted EXCEPT ![r] = FALSE]
        /\ UNCHANGED <<terminal, holder, samples>> /\ Len(samples[r]) = SampleCount
    BY <1>13 DEF FailCollection
  <2>4. collection' \in {Absent, Partial} \/ CollectionOf(r)'
    BY <1>13, <2>2 DEF FailCollection, Collected, Report
  <2> QED
    BY <2>1, <2>2, <2>3, <2>4
<1>14. ASSUME NEW r \in Runner, OpenReceipt(r) PROVE FilesHeld'
  BY <1>14 DEF OpenReceipt
<1>15. ASSUME NEW r \in Runner, WriteReceipt(r) PROVE FilesHeld'
  <2>1. pc[r] = "RECEIPT_WRITE" /\ holder = r /\ holder # NoRunner
    BY <1>15 DEF WriteReceipt
  <2>2. terminal' = Receipt(r) /\ terminal' = Receipt(r)' /\ terminal'.state = "WRITTEN"
    BY <1>15 DEF WriteReceipt, NotRunIds
  <2>3. /\ pc' = [pc EXCEPT ![r] = "DONE"]
        /\ UNCHANGED <<collection, holder, samples, status, stopReason, invocations,
                       collectionPersisted>>
    BY <1>15 DEF WriteReceipt
  <2> QED
    BY <2>1, <2>2, <2>3
<1>16. ASSUME NEW r \in Runner, FailReceipt(r) PROVE FilesHeld'
  <2>1. pc[r] \in {"RECEIPT", "RECEIPT_WRITE"} /\ holder = r
    BY <1>16 DEF FailReceipt
  <2>2. /\ pc' = [pc EXCEPT ![r] = "THROWN"]
        /\ fault'[r] = fault[r] \cup {"RECEIPT"}
    BY <1>16 DEF FailReceipt, Excuse
  <2>3. UNCHANGED <<collection, holder, samples, status, stopReason, invocations,
                    collectionPersisted>>
    BY <1>16 DEF FailReceipt
  <2>4. terminal' \in {Absent, Partial} \/ terminal' = Receipt(r)'
    BY <1>16, <2>1 DEF FailReceipt, NotRunIds
  <2> QED
    BY <2>1, <2>2, <2>3, <2>4
<1>17. ASSUME NEW s \in Sample, Intrude(s) PROVE FilesHeld'
  BY <1>17 DEF Intrude
<1>18. CASE UNCHANGED vars
  BY <1>18 DEF vars
<1> QED
  BY StepKinds, <1>1, <1>2, <1>3, <1>4, <1>5, <1>6, <1>7, <1>8, <1>9, <1>10, <1>11, <1>12,
     <1>13, <1>14, <1>15, <1>16, <1>17, <1>18 DEF Acts, Collects, Receipts

\* A workspace is removed at the end of its pass or its removal is excused, and
\* every way to throw leaves its excuse.
LEMMA CausesStep ==
  ASSUME TypeOK, SingleCollector, ReservationHeld, RunnerFresh, CausesHeld, [Next]_vars
  PROVE  CausesHeld'
<1> USE DEF TypeOK, SingleCollector, ReservationHeld, CausesHeld, Walking, Goto, progress,
            verdict, campaignFiles, sampleFiles
<1>1. ASSUME NEW r \in Runner, Idles(r) PROVE CausesHeld'
  BY <1>1 DEF Idles, Ended, RunnerFresh
<1>2. ASSUME NEW r \in Runner, OpenReservation(r) PROVE CausesHeld'
  <2>1. holder = NoRunner
    BY <1>2 DEF OpenReservation, ExclusiveCreates
  <2>2. \A q \in Runner : pc[q] # "THROWN"
    BY <2>1, NoRunnerAssumption
  <2>3. pc' = [pc EXCEPT ![r] = "RECORD"] /\ pc[r] = "RESERVE" /\ UNCHANGED <<workspace, fault>>
    BY <1>2 DEF OpenReservation
  <2> QED
    BY <2>2, <2>3
<1>3. ASSUME NEW r \in Runner, WriteReservation(r) \/ FailReservation(r) PROVE CausesHeld'
  <2>1. CASE WriteReservation(r)
    BY <2>1 DEF WriteReservation
  <2>2. CASE FailReservation(r)
    <3>1. /\ fault'[r] = fault[r] \cup {"RESERVATION"}
          /\ \A q \in Runner \ {r} : fault'[q] = fault[q]
      BY <2>2 DEF FailReservation, Excuse
    <3>2. pc' = [pc EXCEPT ![r] = "THROWN"] /\ pc[r] = "RECORD" /\ UNCHANGED workspace
      BY <2>2 DEF FailReservation
    <3> QED
      BY <3>1, <3>2
  <2> QED
    BY <1>3, <2>1, <2>2
<1>4. ASSUME NEW r \in Runner, FailOutput(r) \/ Stops(r) PROVE CausesHeld'
  <2>1. CASE FailOutput(r)
    BY <2>1 DEF FailOutput
  <2>2. CASE Stops(r)
    <3>1. \E to \in {"REMAINDER", "CLEANUP"} : pc' = [pc EXCEPT ![r] = to] /\ (to = "REMAINDER" => pc[r] = "LOOP")
      BY <2>2 DEF Stops
    <3>2. UNCHANGED <<workspace, fault>>
      BY <2>2 DEF Stops
    <3> QED
      BY <3>1, <3>2
  <2> QED
    BY <1>4, <2>1, <2>2
<1>5. ASSUME NEW r \in Runner, Enters(r) PROVE CausesHeld'
  <2>1. CASE CreateWorkspace(r)
    BY <2>1 DEF CreateWorkspace
  <2>2. CASE FailSampleReservation(r)
    <3>1. fault'[r] = fault[r] \cup {"RETHROWN"} /\ \A q \in Runner \ {r} : fault'[q] = fault[q]
      BY <2>2 DEF FailSampleReservation, Excuse
    <3>2. pc' = [pc EXCEPT ![r] = "UNWIND"] /\ UNCHANGED <<workspace, reservation>>
      BY <2>2 DEF FailSampleReservation
    <3> QED
      BY <3>1, <3>2
  <2>3. CASE Unwind(r)
    <3>1. /\ \A q \in Runner \ {r} : fault'[q] = fault[q] /\ workspace'[q] = workspace[q]
          /\ fault[r] \subseteq fault'[r]
          /\ ~workspace'[r] \/ "CLEANUP" \in fault'[r]
      BY <2>3 DEF Unwind, Excuse
    <3>2. pc[r] = "UNWIND" /\ pc' = [pc EXCEPT ![r] = "THROWN"] /\ UNCHANGED reservation
      BY <2>3 DEF Unwind
    <3> QED
      BY <3>1, <3>2
  <2> QED
    BY <1>5, <2>1, <2>2, <2>3 DEF Enters
<1>6. ASSUME NEW r \in Runner, ReserveSample(r) \/ Receive(r) \/ Invoke(r) PROVE CausesHeld'
  BY <1>6 DEF ReserveSample, Receive, Invoke
<1>7. ASSUME NEW r \in Runner, Records(r) PROVE CausesHeld'
  BY <1>7 DEF Records, FailInvoker, PersistSample, FailPersist
<1>8. ASSUME NEW r \in Runner, Cleanup(r) PROVE CausesHeld'
  BY <1>8 DEF Cleanup, LeavePass
<1>9. ASSUME NEW r \in Runner, FailCleanup(r) PROVE CausesHeld'
  BY <1>9 DEF FailCleanup, LeavePass, Excuse
<1>10. ASSUME NEW r \in Runner, Fills(r) PROVE CausesHeld'
  BY <1>10 DEF Fills, RecordNotRun, FailNotRun
<1>11. ASSUME NEW r \in Runner, Collects(r) PROVE CausesHeld'
  BY <1>11 DEF Collects, OpenCollection, WriteCollection, FailCollection
<1>12. ASSUME NEW r \in Runner, OpenReceipt(r) \/ WriteReceipt(r) PROVE CausesHeld'
  BY <1>12 DEF OpenReceipt, WriteReceipt
<1>13. ASSUME NEW r \in Runner, FailReceipt(r) PROVE CausesHeld'
  <2>1. pc' = [pc EXCEPT ![r] = "THROWN"] /\ pc[r] \in {"RECEIPT", "RECEIPT_WRITE"}
    BY <1>13 DEF FailReceipt
  <2>2. fault'[r] = fault[r] \cup {"RECEIPT"} /\ \A q \in Runner \ {r} : fault'[q] = fault[q]
    BY <1>13 DEF FailReceipt, Excuse
  <2>3. UNCHANGED <<workspace, reservation>>
    BY <1>13 DEF FailReceipt
  <2> QED
    BY <2>1, <2>2, <2>3
<1>14. ASSUME NEW s \in Sample, Intrude(s) PROVE CausesHeld'
  BY <1>14 DEF Intrude
<1>15. CASE UNCHANGED vars
  BY <1>15 DEF vars
<1> QED
  BY StepKinds, <1>1, <1>2, <1>3, <1>4, <1>5, <1>6, <1>7, <1>8, <1>9, <1>10, <1>11, <1>12,
     <1>13, <1>14, <1>15 DEF Acts, Reserves, Leaves, Receipts

-----------------------------------------------------------------------------

\* The inductive invariant holds in every reachable state: however many
\* runners are started on the campaign and wherever they fail or are killed,
\* one collects, and its calls, records and files are those of one walk.
THEOREM Invariance == Spec => []RunnerInvariant
<1>1. Init => RunnerInvariant
  <2> SUFFICES ASSUME Init PROVE RunnerInvariant
    OBVIOUS
  <2> USE SampleCountAssumption, NoRunnerAssumption
  <2>1. TypeOK
    <3>1. <<>> \in Seq(Record) /\ "NONE" \in Reasons /\ "COMPLETE" \in Statuses /\ "START" \in Steps
      BY DEF Reasons, Statuses, Steps
    <3>2. 1 \in 1 .. SampleCount + 1 /\ 0 \in 0 .. SampleCount
      OBVIOUS
    <3> QED
      BY <3>1, <3>2 DEF Init, Absent, TypeOK
  <2>2. SingleCollector /\ ReservationHeld /\ RunnerFresh
    BY DEF Init, SingleCollector, ReservationHeld, RunnerFresh
  <2>3. CallsAreCounted /\ PassHeld
    BY DEF Init, CallsAreCounted, PassHeld, Walking
  <2>4. RecordsHeld /\ OutcomesHeld
    BY DEF Init, RecordsHeld, RecordsOf, OutcomesHeld, OutcomesOf, Walking, Reporting
  <2>5. FilesHeld /\ CausesHeld
    BY DEF Init, FilesHeld, CausesHeld
  <2> QED
    BY <2>1, <2>2, <2>3, <2>4, <2>5 DEF RunnerInvariant
<1>2. RunnerInvariant /\ [Next]_vars => RunnerInvariant'
  BY TypeStep, CollectorStep, ReservationStep, FreshStep, CallsStep, PassStep, RecordsStep,
     OutcomesStep, FilesStep, CausesStep
     DEF RunnerInvariant
<1> QED
  BY <1>1, <1>2, PTL DEF Spec

\* A collection holds every sample once and in order, a receipt that names it
\* agrees with it, and what is taken for review was collected in full.
THEOREM Collection == Spec => []CollectionCanBeReviewed
<1>1. ASSUME RunnerInvariant PROVE CollectionCanBeReviewed
  <2> USE SampleCountAssumption, <1>1 DEF RunnerInvariant
  <2>1. collection.state = "WRITTEN" =>
          holder \in Runner /\ CollectionOf(holder) /\ Len(samples[holder]) = SampleCount
    BY DEF TypeOK, FilesHeld, Absent, Partial
  <2>2. terminal.state = "WRITTEN" =>
          /\ holder \in Runner /\ terminal = Receipt(holder)
          /\ pc[holder] \in {"DONE", "THROWN"}
          /\ terminal.collectionPersisted => collection.state = "WRITTEN"
    BY DEF TypeOK, FilesHeld, Absent, Partial
  <2>3. \A r \in Runner : Len(samples[r]) = SampleCount => DOMAIN samples[r] = Sample
    BY LenProperties DEF TypeOK, Sample
  <2>4. CollectionIsWhole
    <3>1. collection.state = "WRITTEN" =>
            Len(collection.samples) = SampleCount /\ \A k \in Sample : collection.samples[k].id = k
      BY <2>1, <2>3 DEF CollectionOf, RecordsHeld, RecordsOf
    <3>2. terminal.state = "WRITTEN" /\ terminal.collectionPersisted => collection.state = "WRITTEN"
      BY <2>2
    <3>3. ASSUME terminal.state = "WRITTEN", collection.state = "WRITTEN"
          PROVE  /\ collection.invocations = terminal.invocations
                 /\ terminal.notRun = NotRunIds(collection.samples)
                 /\ \/ /\ collection.status = terminal.status
                       /\ collection.stopReason = terminal.stopReason
                    \/ /\ ~terminal.collectionPersisted
                       /\ terminal.status = "INSUFFICIENT" /\ terminal.stopReason = "COLLECTION"
      BY <2>1, <2>2, <3>3 DEF Receipt, CollectionOf
    <3> QED
      BY <3>1, <3>2, <3>3 DEF CollectionIsWhole
  <2>5. ReviewableMeansCollected
    <3> SUFFICES ASSUME Reviewable, NEW s \in Sample
                 PROVE  /\ calls[s] = 1 /\ evidence[s] = "WRITTEN"
                        /\ collection.samples[s].outcome \in {"COMPLETED", "LOCAL_ERROR"}
      BY DEF ReviewableMeansCollected
    <3>1. /\ holder \in Runner /\ status[holder] = "COMPLETE"
          /\ collection.samples = samples[holder] /\ s \in DOMAIN samples[holder]
      BY <2>1, <2>2, <2>3 DEF Reviewable, CollectionOf, Receipt
    <3>2. /\ samples[holder][s].outcome \in {"COMPLETED", "LOCAL_ERROR"}
          /\ evidence[s] = "WRITTEN" /\ s <= invocations[holder]
      BY <3>1 DEF OutcomesHeld, OutcomesOf
    <3>3. calls[s] = 1
      BY <3>1, <3>2, NoRunnerAssumption DEF CallsAreCounted
    <3> QED
      BY <3>1, <3>2, <3>3
  <2> QED
    BY <2>4, <2>5 DEF CollectionCanBeReviewed
<1> QED
  BY Invariance, <1>1, PTL

\* The receipt accounts for every provider call, and no call follows a stop.
THEOREM Spending == Spec => []SpendingIsAccountedFor
<1>1. ASSUME RunnerInvariant PROVE SpendingIsAccountedFor
  <2> USE SampleCountAssumption, NoRunnerAssumption, <1>1 DEF RunnerInvariant
  <2>1. ReceiptAccountsForSpending
    <3> SUFFICES ASSUME terminal.state = "WRITTEN"
                 PROVE  /\ \A s \in Sample : calls[s] > 0 => s \in terminal.consumed \ terminal.notRun
                        /\ terminal.invocations = Cardinality({s \in Sample : calls[s] > 0})
                        /\ \A s \in terminal.persisted :
                             evidence[s] = "WRITTEN" /\ s \in terminal.consumed
      BY DEF ReceiptAccountsForSpending
    <3>1. holder \in Runner /\ terminal = Receipt(holder)
      BY DEF TypeOK, FilesHeld, Absent, Partial
    <3>2. /\ terminal.consumed = consumed[holder] /\ terminal.persisted = persisted[holder]
          /\ terminal.invocations = invocations[holder]
          /\ terminal.notRun = NotRunIds(samples[holder])
      BY <3>1 DEF Receipt
    <3>3. invocations[holder] \in 0 .. SampleCount
      BY <3>1 DEF TypeOK
    <3>4. \A s \in Sample : calls[s] > 0 <=> s <= invocations[holder]
      BY <3>1 DEF CallsAreCounted
    <3>5. \A s \in Sample : s <= invocations[holder] => s \in consumed[holder]
      BY <3>1, <3>3 DEF CallsAreCounted, Sample
    <3>6. \A s \in NotRunIds(samples[holder]) : s > invocations[holder]
      <4>1. \A k \in DOMAIN samples[holder] :
              /\ samples[holder][k].id = k /\ k \in Nat
              /\ samples[holder][k].outcome = "NOT_RUN" => invocations[holder] < k
        BY <3>1, LenProperties DEF RecordsHeld, RecordsOf, OutcomesHeld, OutcomesOf, TypeOK
      <4> QED
        BY <3>3, <4>1 DEF NotRunIds
    <3>7. {s \in Sample : calls[s] > 0} = 1 .. invocations[holder]
      BY <3>3, <3>4 DEF Sample
    <3>8. Cardinality(1 .. invocations[holder]) = invocations[holder]
      BY <3>3, FS_Interval
    <3>9. \A s \in persisted[holder] : s \in consumed[holder] /\ evidence[s] = "WRITTEN"
      BY <3>1 DEF OutcomesHeld, OutcomesOf
    <3>10. ASSUME NEW s \in Sample, calls[s] > 0
           PROVE  s \in terminal.consumed \ terminal.notRun
      <4>1. s <= invocations[holder]
        BY <3>4, <3>10
      <4> QED
        BY <3>2, <3>3, <3>5, <3>6, <4>1 DEF Sample
    <3>11. terminal.invocations = Cardinality({s \in Sample : calls[s] > 0})
      BY <3>2, <3>7, <3>8
    <3> QED
      BY <3>2, <3>9, <3>10, <3>11
  <2>2. StopIsFinal
    <3> SUFFICES ASSUME NEW r \in Runner, NEW k \in DOMAIN samples[r],
                        samples[r][k].outcome \in {"GLOBAL_ERROR", "UNADAPTED", "UNPERSISTED"},
                        NEW s \in Sample, s > k
                 PROVE  calls[s] = 0
      BY DEF StopIsFinal
    <3>1. k \in Nat /\ samples[r] # <<>>
      BY LenProperties DEF TypeOK
    <3>2. holder = r
      BY <3>1 DEF SingleCollector
    <3>3. invocations[r] <= k /\ invocations[r] \in 0 .. SampleCount
      BY DEF OutcomesHeld, OutcomesOf, TypeOK
    <3>4. ~(s <= invocations[r])
      BY <3>1, <3>3 DEF Sample
    <3> QED
      BY <3>2, <3>4 DEF CallsAreCounted
  <2> QED
    BY <2>1, <2>2 DEF SpendingIsAccountedFor
<1> QED
  BY Invariance, <1>1, PTL

\* A runner that ends leaves no workspace and no campaign without a receipt,
\* but for the causes that are named.
THEOREM Tidiness == Spec => []RunsEndTidily
<1>1. ASSUME RunnerInvariant PROVE RunsEndTidily
  <2>1. WorkspacesAreRemoved
    BY <1>1 DEF RunnerInvariant, CausesHeld, WorkspacesAreRemoved, Ended, Walking
  <2>2. MissingReceiptHasACause
    BY <1>1 DEF RunnerInvariant, CausesHeld, FilesHeld, MissingReceiptHasACause
  <2> QED
    BY <2>1, <2>2 DEF RunsEndTidily
<1> QED
  BY Invariance, <1>1, PTL

\* The collection implements the invocation budget, counted by sample:
\* reserving a sample is Take, calling the provider for it is Spend, everything
\* else is a stutter.
THEOREM Implementation == Spec => ImplementsBudget
<1>1. Init => Budget!Init
  BY DEF Init, Budget!Init
<1>2. ASSUME RunnerInvariant, [Next]_vars PROVE [Budget!Next]_<<sampleHolder, calls>>
  <2>1. ASSUME NEW r \in Runner, ReserveSample(r) PROVE Budget!Take(r, position[r])
    <3>1. position[r] \in Sample
      BY <1>2, <2>1, AtSample DEF ReserveSample, Goto, RunnerInvariant
    <3>2. sampleHolder[position[r]] = NoRunner
      BY <1>2, <2>1, <3>1 DEF ReserveSample, ExclusiveCreates, RunnerInvariant, ReservationHeld
    <3> QED
      BY <2>1, <3>2 DEF ReserveSample, Budget!Take
  <2>2. ASSUME NEW r \in Runner, Invoke(r) PROVE Budget!Spend(r, position[r])
    <3>1. /\ position[r] \in Sample /\ sampleHolder[position[r]] = r
          /\ invocations[r] = position[r] - 1 /\ holder = r
      BY <1>2, <2>2, AtSample
         DEF Invoke, Goto, RunnerInvariant, PassHeld, SingleCollector
    <3>2. calls[position[r]] = 0
      BY <1>2, <3>1, SampleCountAssumption, NoRunnerAssumption
         DEF RunnerInvariant, CallsAreCounted, Sample
    <3>3. calls' = [calls EXCEPT ![position[r]] = 1]
      BY <2>2, <3>2 DEF Invoke
    <3> QED
      BY <2>2, <3>1, <3>2, <3>3 DEF Invoke, sampleFiles, Budget!Spend
  <2>3. ASSUME NEW r \in Runner, Acts(r), ~ReserveSample(r), ~Invoke(r)
        PROVE  UNCHANGED <<sampleHolder, calls>>
    BY <2>3 DEF Acts, Idles, Reserves, OpenReservation, WriteReservation, FailReservation, FailOutput, Stops, Enters,
                CreateWorkspace, FailSampleReservation, Unwind, Receive, Records, FailInvoker,
                PersistSample, FailPersist, Leaves, Cleanup, FailCleanup, Fills, RecordNotRun,
                FailNotRun, Collects, OpenCollection, WriteCollection, FailCollection,
                Receipts, OpenReceipt, WriteReceipt, FailReceipt, sampleFiles
  <2>4. ASSUME NEW s \in Sample, Intrude(s) PROVE UNCHANGED <<sampleHolder, calls>>
    BY <2>4 DEF Intrude
  <2>5. CASE UNCHANGED vars
    BY <2>5 DEF vars, sampleFiles
  <2>6. \A r \in Runner : ReserveSample(r) \/ Invoke(r) => position[r] \in Sample
    BY <1>2, AtSample DEF ReserveSample, Invoke, Goto, RunnerInvariant
  <2> QED
    BY <1>2, StepKinds, <2>1, <2>2, <2>3, <2>4, <2>5, <2>6 DEF Budget!Next
<1> QED
  BY <1>1, <1>2, Invariance, PTL
     DEF Spec, ImplementsBudget, Budget!Spec, Budget!budget

-----------------------------------------------------------------------------
(***************************************************************************)
(* The adjudication of what was collected, for any terminals, samples,      *)
(* judgments and decisions.                                                 *)
(***************************************************************************)
\* What may be left in a file.
Fits(f, v) ==
  \/ v = Torn
  \/ f \in Scheduled
  \/ f \in {"reservation", "qualificationPacket", "manifest", "qualification"}
  \/ f \in {"a", "b"} /\ v \in Submissions
  \/ f = "resolutionPacket" /\ IsOpen(v)
  \/ /\ f = "resolution" /\ IsOpen(DOMAIN v)
     /\ \A k \in DOMAIN v : v[k] \in {"ACCEPT", "REJECT", "UNRESOLVED"}

Creates(f, v) ==
  /\ ~Exists(f) /\ Fits(f, v)
  /\ f = "reservation" \/ Exists("reservation")
  /\ f \in Scheduled => f \in Completed
  /\ disk' = [disk EXCEPT ![f] = v]

\* A reviewer who judges each target of the packets gives a submission.
LEMMA Submitted ==
  ASSUME DiskHeld, AdjudicationTypeOK,
         Readable("a"), Readable("b"),
         BothValid(disk["a"], disk["b"], Packets)
  PROVE  disk["a"].packets = Packets
BY DEF BothValid, SubmissionValid

LEMMA FileNames ==
  /\ Singles \subseteq File /\ Scheduled \subseteq File
  /\ File = Singles \cup Scheduled
  /\ \A f \in Scheduled : f \notin Singles
  /\ Singles = {"reservation", "qualificationPacket", "manifest", "qualification",
                  "a", "b", "resolutionPacket", "resolution"}
BY FileAssumption DEF File, Singles

\* The collection is what it was in the beginning.
LEMMA CollectionIsGiven == ASSUME [AdjudicationNext]_adjudicationVars PROVE UNCHANGED collected
BY DEF AdjudicationNext, adjudicationVars, Prepare, WriteManifest, Lock, LockResolutionPacket,
       Resolve,
       ReadPackets, Score, Copy, Archive, Publish, KillTerminal, WriteFile, Begins

\* Nothing else than a sample has a packet.
LEMMA PacketsAreSamples == Packets \subseteq Scheduled /\ Completed \subseteq Scheduled
BY DEF Packets, Completed

\* A step creates one file at most, which fits those that are there.
LEMMA CreationSteps ==
  ASSUME AdjudicationTypeOK, DiskHeld, \A t \in Terminal : ProcessHeld(t),
         [AdjudicationNext]_adjudicationVars
  PROVE  UNCHANGED disk \/ \E f \in File : \E v : Creates(f, v)
<1> DEFINE Goal == UNCHANGED disk \/ \E f \in File : \E v : Creates(f, v)
<1>f. /\ "reservation" \in File /\ "manifest" \in File
      /\ "resolutionPacket" \in File /\ "resolution" \in File
      /\ Scheduled \cap {"reservation", "manifest", "resolutionPacket", "resolution"} = {}
  BY FileNames
<1>g. \A f \in File : Exists(f) => Exists("reservation")
  BY DEF DiskHeld
<1>1. ASSUME NEW t \in Terminal, Prepare(t) PROVE Goal
  <2>1. \/ disk' = [disk EXCEPT !["reservation"] = "RESERVED"]
        \/ disk' = [disk EXCEPT !["reservation"] = Torn]
    BY <1>1 DEF Prepare, Create
  <2>2. ~Exists("reservation")
    BY <1>1 DEF Prepare, MayCreate
  <2>3. Fits("reservation", "RESERVED") /\ Fits("reservation", Torn)
    BY DEF Fits
  <2>4. Creates("reservation", "RESERVED") \/ Creates("reservation", Torn)
    BY <1>f, <2>1, <2>2, <2>3 DEF Creates
  <2> QED
    BY <1>f, <2>4
<1>2. ASSUME NEW t \in Terminal, WriteManifest(t) PROVE Goal
  <2>1. Exists("reservation")
    BY <1>2 DEF WriteManifest, ProcessHeld
  <2>2. \/ UNCHANGED disk
        \/ /\ ~Exists("manifest")
           /\ \E v \in {"WRITTEN", Torn} : disk' = [disk EXCEPT !["manifest"] = v]
    BY <1>2 DEF WriteManifest, CreateOrTear, Create, MayCreate
  <2>3. \A v : Fits("manifest", v)
    BY DEF Fits
  <2> QED
    BY <1>f, <2>1, <2>2, <2>3 DEF Creates
<1>3. ASSUME NEW t \in Terminal, LockResolutionPacket(t) PROVE Goal
  <2>1. /\ Readable("a") /\ Readable("b") /\ BothValid(disk["a"], disk["b"], Packets)
        /\ ~Exists("resolutionPacket")
        /\ \/ disk' = [disk EXCEPT !["resolutionPacket"] = Torn]
           \/ disk' = [disk EXCEPT !["resolutionPacket"]
                         = Disagreements(disk["a"], disk["b"], Packets)]
    BY <1>3 DEF LockResolutionPacket, CreateOrTear, Create, MayCreate
  <2>2. IsOpen(Disagreements(disk["a"], disk["b"], Packets))
    BY <2>1, Submitted DEF IsOpen
  <2>3. /\ Fits("resolutionPacket", Disagreements(disk["a"], disk["b"], Packets))
        /\ Fits("resolutionPacket", Torn)
    BY <2>2 DEF Fits
  <2>4. Exists("reservation")
    BY <2>1, <1>g, FileNames DEF Readable
  <2> QED
    BY <1>f, <2>1, <2>3, <2>4 DEF Creates
<1>4. ASSUME NEW t \in Terminal, Resolve(t) PROVE Goal
  <2>1. /\ Readable("a") /\ Readable("b") /\ BothValid(disk["a"], disk["b"], Packets)
        /\ ~Exists("resolution")
    BY <1>4 DEF Resolve, MayCreate
  <2>2. PICK keys \in Resolved(disk["a"], disk["b"]), d \in Decisions :
          /\ ResolutionValid(disk["a"], disk["b"], [k \in keys |-> d[k]], Packets)
          /\ CreateOrTear("resolution", [k \in keys |-> d[k]])
    BY <1>4 DEF Resolve
  <2> DEFINE r == [k \in keys |-> d[k]]
  <2>3. DOMAIN r = Disagreements(disk["a"], disk["b"], Packets)
    BY <2>2 DEF ResolutionValid, Covers
  <2>4. IsOpen(DOMAIN r)
    BY <2>1, <2>3, Submitted DEF IsOpen
  <2>5. \A k \in DOMAIN r : r[k] \in {"ACCEPT", "REJECT", "UNRESOLVED"}
    <3>1. keys \subseteq Target
      <4>1. Packets \subseteq Scheduled
        BY DEF Packets
      <4>2. Expected(Packets) \subseteq Target
        BY <4>1 DEF Expected, Target
      <4> QED
        BY <2>3, <4>2 DEF Disagreements
    <3>2. d \in [Target -> {"ACCEPT", "REJECT", "UNRESOLVED"}]
      BY DecisionsAssumption
    <3> QED
      BY <3>1, <3>2
  <2>6. Fits("resolution", r) /\ Fits("resolution", Torn)
    BY <2>4, <2>5 DEF Fits
  <2>7. disk' = [disk EXCEPT !["resolution"] = Torn] \/ disk' = [disk EXCEPT !["resolution"] = r]
    BY <2>2 DEF CreateOrTear, Create
  <2>8. Exists("reservation")
    BY <2>1, <1>g, FileNames DEF Readable
  <2>9. Creates("resolution", r) \/ Creates("resolution", Torn)
    BY <1>f, <2>1, <2>6, <2>7, <2>8 DEF Creates
  <2> QED
    BY <1>f, <2>9
<1>5. ASSUME NEW t \in Terminal, NEW f \in File, WriteFile(t, f) PROVE Goal
  <2>1. /\ at[t].doing \in {"preparing", "locking"} /\ f \in at[t].todo
        /\ \/ UNCHANGED disk
           \/ ~Exists(f) /\ disk' = [disk EXCEPT ![f] = at[t].text[f]]
           \/ ~Exists(f) /\ disk' = [disk EXCEPT ![f] = Torn]
    BY <1>5 DEF WriteFile, Writing, MayCreate, Create
  <2>2. IsWriting(at[t])
    BY <2>1 DEF AdjudicationTypeOK, Idle, IsScoring, IsOwning
  <2>3. f \in Scheduled \cup {"qualificationPacket", "qualification", "a", "b"}
    BY <2>1, <2>2 DEF IsWriting
  <2>4. /\ Exists("reservation") /\ (f \in {"a", "b"} => at[t].text[f] \in Submissions)
        /\ f \in Scheduled => f \in Completed
    BY <2>1 DEF ProcessHeld
  <2>5. Fits(f, at[t].text[f]) /\ Fits(f, Torn)
    BY <2>3, <2>4 DEF Fits
  <2> QED
    BY <2>1, <2>4, <2>5 DEF Creates
<1>6. ASSUME NEW t \in Terminal,
             Lock(t) \/ ReadPackets(t) \/ Score(t) \/ Copy(t) \/ Archive(t)
             \/ Publish(t) \/ KillTerminal(t)
      PROVE  UNCHANGED disk
  BY <1>6 DEF Lock, ReadPackets, Score, Copy, Archive, Publish, KillTerminal
<1>7. CASE UNCHANGED adjudicationVars
  BY <1>7 DEF adjudicationVars
<1> QED
  BY <1>1, <1>2, <1>3, <1>4, <1>5, <1>6, <1>7 DEF AdjudicationNext

\* What is there stays.
LEMMA FilesStay ==
  ASSUME AdjudicationTypeOK, UNCHANGED disk \/ \E f \in File : \E v : Creates(f, v)
  PROVE  /\ DOMAIN disk' = File
         /\ \A f \in File : Exists(f) => disk'[f] = disk[f]
         /\ \A f \in File : Exists(f) => Exists(f)'
         /\ \A f \in File : Readable(f) => Readable(f)'
<1>1. DOMAIN disk = File
  BY DEF AdjudicationTypeOK
<1>2. ASSUME NEW f \in File, NEW v, Creates(f, v)
      PROVE  DOMAIN disk' = File /\ \A g \in File : Exists(g) => disk'[g] = disk[g]
  BY <1>1, <1>2 DEF Creates
<1>3. DOMAIN disk' = File /\ \A f \in File : Exists(f) => disk'[f] = disk[f]
  BY <1>1, <1>2
<1> QED
  BY <1>3 DEF Exists, Readable

\* What a file holds is of use to those that come after it.
LEMMA DiskStep ==
  ASSUME AdjudicationTypeOK, DiskHeld, UNCHANGED collected,
         UNCHANGED disk \/ \E f \in File : \E v : Creates(f, v)
  PROVE  DiskHeld'
<1>0. /\ DOMAIN disk = File
      /\ {"reservation", "a", "b", "resolutionPacket", "resolution"} \subseteq File
  BY FileNames DEF AdjudicationTypeOK
<1>c. /\ Completed' = Completed
      /\ \A f \in Singles : f \notin Scheduled
  BY FileNames DEF Completed
<1>1. CASE UNCHANGED disk
  <2>1. Packets' = Packets
    BY <1>1 DEF Packets, Exists
  <2> QED
    BY <1>1, <1>c, <2>1 DEF DiskHeld, IsOpen, Exists, Readable
<1>2. ASSUME NEW f \in File, NEW v, Creates(f, v) PROVE DiskHeld'
  <2>1. /\ \A g \in File : g # f => disk'[g] = disk[g]
        /\ disk'[f] = v /\ disk[f] = None
    BY <1>0, <1>2 DEF Creates, Exists
  <2>2. \A g \in File : Readable(g) => g # f /\ disk'[g] = disk[g]
    BY <2>1 DEF Readable, Exists
  <2>3. \A keys : IsOpen(keys) => IsOpen(keys)'
    BY <1>0, <2>2 DEF IsOpen, Readable, Exists
  <2>4. (\A g \in File : Exists(g) => Exists("reservation"))'
    BY <1>0, <1>2, <2>1 DEF Creates, DiskHeld, Exists
  <2>5. (\A g \in {"a", "b"} : Readable(g) => disk[g] \in Submissions)'
    <3>1. ASSUME NEW g \in {"a", "b"}, Readable(g)' PROVE disk'[g] \in Submissions
      <4>1. CASE g = f
        BY <1>2, <1>c, <2>1, <3>1, <4>1, FileNames DEF Creates, Fits, Readable
      <4>2. CASE g # f
        BY <1>0, <2>1, <3>1, <4>2 DEF DiskHeld, Readable, Exists
      <4> QED
        BY <4>1, <4>2
    <3> QED
      BY <3>1
  <2>6. (Readable("resolutionPacket") => IsOpen(disk["resolutionPacket"]))'
    <3>1. CASE f = "resolutionPacket"
      <4>1. v = Torn \/ IsOpen(v)
        BY <1>2, <1>c, <3>1, FileNames DEF Creates, Fits
      <4>2. v = Torn \/ IsOpen(disk["resolutionPacket"])'
        BY <2>1, <2>3, <3>1, <4>1 DEF IsOpen
      <4> QED
        BY <2>1, <3>1, <4>2 DEF Readable
    <3>2. CASE f # "resolutionPacket"
      <4>1. disk'["resolutionPacket"] = disk["resolutionPacket"]
        BY <1>0, <2>1, <3>2
      <4> QED
        BY <4>1, <2>3 DEF DiskHeld, Readable, Exists, IsOpen
    <3> QED
      BY <3>1, <3>2
  <2>7. (Readable("resolution") =>
           /\ IsOpen(DOMAIN disk["resolution"])
           /\ \A k \in DOMAIN disk["resolution"] :
                disk["resolution"][k] \in {"ACCEPT", "REJECT", "UNRESOLVED"})'
    <3>1. CASE f = "resolution"
      <4>1. v = Torn \/ /\ IsOpen(DOMAIN v)
                        /\ \A k \in DOMAIN v : v[k] \in {"ACCEPT", "REJECT", "UNRESOLVED"}
        BY <1>2, <1>c, <3>1, FileNames DEF Creates, Fits
      <4>2. v = Torn \/ IsOpen(DOMAIN disk["resolution"])'
        BY <2>1, <2>3, <3>1, <4>1 DEF IsOpen
      <4> QED
        BY <2>1, <3>1, <4>1, <4>2 DEF Readable
    <3>2. CASE f # "resolution"
      <4>1. disk'["resolution"] = disk["resolution"]
        BY <1>0, <2>1, <3>2
      <4> QED
        BY <4>1, <2>3 DEF DiskHeld, Readable, Exists, IsOpen
    <3> QED
      BY <3>1, <3>2
  <2>8. Packets' \subseteq Completed
    <3>1. f \in Scheduled => f \in Completed
      BY <1>2 DEF Creates
    <3>2. Packets' \subseteq Packets \cup {f}
      BY <2>1, FileNames DEF Packets, Exists
    <3> QED
      BY <3>1, <3>2 DEF DiskHeld, Packets
  <2> QED
    BY <1>c, <2>4, <2>5, <2>6, <2>7, <2>8 DEF DiskHeld
<1> QED
  BY <1>1, <1>2

\* A process that a step leaves at a terminal.
Sound(p) ==
  \/ p = Idle
  \/ /\ IsWriting(p) /\ Exists("reservation")' /\ p.todo \cap Scheduled \subseteq Completed
     /\ \A f \in p.todo \cap {"a", "b"} : p.text[f] \in Submissions
  \/ IsScoring(p) /\ p.packets \subseteq Packets'
  \/ IsOwning(p)

\* A process that has tried a file.
LEMMA TriedIs ==
  ASSUME NEW process, IsWriting(process)
  PROVE  /\ \A todo : [process EXCEPT !.todo = todo]
                        = [doing |-> process.doing, failed |-> process.failed,
                           todo |-> todo, text |-> process.text]
         /\ \A failed : [process EXCEPT !.failed = failed]
                          = [doing |-> process.doing, failed |-> failed,
                             todo |-> process.todo, text |-> process.text]
BY DEF IsWriting

LEMMA ProcessSteps ==
  ASSUME AdjudicationTypeOK, DiskHeld, \A t \in Terminal : ProcessHeld(t),
         [AdjudicationNext]_adjudicationVars
  PROVE  UNCHANGED at \/ \E t \in Terminal : \E p : at' = [at EXCEPT ![t] = p] /\ Sound(p)
<1> DEFINE Goal == UNCHANGED at \/ \E t \in Terminal : \E p : at' = [at EXCEPT ![t] = p] /\ Sound(p)
<1>f. /\ {"reservation", "a", "b"} \subseteq File
      /\ Exists("reservation") => Exists("reservation")'
  BY CreationSteps, FilesStay, FileNames
<1>1. ASSUME NEW t \in Terminal, Prepare(t) PROVE Goal
  <2> DEFINE todo == Completed \cup {"qualificationPacket"}
             p == [doing |-> "preparing", failed |-> FALSE, todo |-> todo,
                   text |-> [f \in todo |-> "WRITTEN"]]
  <2>1. UNCHANGED at \/ /\ at' = [at EXCEPT ![t] = p]
                        /\ disk' = [disk EXCEPT !["reservation"] = "RESERVED"]
    BY <1>1 DEF Prepare, Becomes, Create
  <2>2. todo \subseteq Scheduled \cup {"qualificationPacket"}
    BY PacketsAreSamples
  <2>3. IsWriting(p)
    BY <2>2 DEF IsWriting
  <2>4. p.todo \cap {"a", "b"} = {} /\ p.todo \cap Scheduled \subseteq Completed
    BY <2>2, FileNames
  <2>5. disk' = [disk EXCEPT !["reservation"] = "RESERVED"] => Exists("reservation")'
    BY <1>f, NoneAssumption DEF AdjudicationTypeOK, Exists
  <2>6. disk' = [disk EXCEPT !["reservation"] = "RESERVED"] => Sound(p)
    BY <2>3, <2>4, <2>5 DEF Sound
  <2> QED
    BY <2>1, <2>6
<1>2. ASSUME NEW t \in Terminal, WriteManifest(t) PROVE Goal
  BY <1>2 DEF WriteManifest, Becomes, Sound
<1>3. ASSUME NEW t \in Terminal, Lock(t) PROVE Goal
  <2>1. PICK j \in Judgments, k \in Judgments :
          LET text == [qualification |-> "QUALIFIED",
                       a |-> Submission(Packets, j), b |-> Submission(Packets, k)]
              todo == {f \in DOMAIN text : MayCreate(f)}
          IN Goes(t, [doing |-> "locking", failed |-> FALSE,
                        todo |-> todo, text |-> [f \in todo |-> text[f]]])
    BY <1>3 DEF Lock
  <2> DEFINE text == [qualification |-> "QUALIFIED",
                      a |-> Submission(Packets, j), b |-> Submission(Packets, k)]
             todo == {f \in DOMAIN text : MayCreate(f)}
             p == [doing |-> "locking", failed |-> FALSE,
                   todo |-> todo, text |-> [f \in todo |-> text[f]]]
  <2>2. at' = [at EXCEPT ![t] = p] \/ at' = [at EXCEPT ![t] = Idle]
    BY <2>1 DEF Goes, Becomes
  <2>3. DOMAIN text = {"qualification", "a", "b"}
    OBVIOUS
  <2>4. IsWriting(p)
    BY <2>3 DEF IsWriting
  <2>5. \A f \in p.todo \cap {"a", "b"} : p.text[f] = text[f]
    OBVIOUS
  <2>6. text["a"] \in Submissions /\ text["b"] \in Submissions
    BY PacketsAreSamples DEF Submissions
  <2>7. Exists("reservation")'
    BY <1>3, <1>f DEF Lock
  <2>8. p.todo \cap Scheduled = {}
    BY <2>3, FileNames
  <2>9. Sound(p) /\ Sound(Idle)
    BY <2>4, <2>5, <2>6, <2>7, <2>8 DEF Sound
  <2> QED
    BY <2>2, <2>9
<1>4. ASSUME NEW t \in Terminal, NEW f \in File, WriteFile(t, f) PROVE Goal
  <2>1. IsWriting(at[t])
    BY <1>4 DEF WriteFile, Writing, AdjudicationTypeOK, Idle, IsScoring, IsOwning
  <2> DEFINE p == Tried(t, f)
             q == [p EXCEPT !.failed = at[t].doing = "preparing"]
  <2>2. at' = [at EXCEPT ![t] = Idle] \/ at' = [at EXCEPT ![t] = p] \/ at' = [at EXCEPT ![t] = q]
    BY <1>4 DEF WriteFile, Goes, Becomes
  <2>3. p = [doing |-> at[t].doing, failed |-> at[t].failed, todo |-> at[t].todo \ {f},
             text |-> at[t].text]
    BY <2>1, TriedIs DEF Tried
  <2>4. IsWriting(p)
    BY <2>1, <2>3 DEF IsWriting
  <2>5. q = [doing |-> p.doing, failed |-> at[t].doing = "preparing", todo |-> p.todo,
             text |-> p.text]
    BY <2>4, TriedIs
  <2>6. /\ Exists("reservation") /\ at[t].todo \cap Scheduled \subseteq Completed
        /\ \A g \in at[t].todo \cap {"a", "b"} : at[t].text[g] \in Submissions
    BY <2>1 DEF ProcessHeld, IsWriting
  <2>7. p.todo \subseteq at[t].todo /\ p.text = at[t].text
    BY <2>3
  <2>8. IsWriting(q) /\ q.todo = p.todo /\ q.text = p.text
    BY <2>4, <2>5 DEF IsWriting
  <2>9. Sound(p) /\ Sound(q) /\ Sound(Idle)
    BY <1>f, <2>4, <2>6, <2>7, <2>8 DEF Sound
  <2> QED
    BY <2>2, <2>9
<1>5. ASSUME NEW t \in Terminal, LockResolutionPacket(t) \/ Resolve(t) PROVE Goal
  BY <1>5 DEF LockResolutionPacket, Resolve
<1>6. ASSUME NEW t \in Terminal, ReadPackets(t) PROVE Goal
  <2> DEFINE p == [doing |-> "scoring", packets |-> Packets]
  <2>1. IsScoring(p)
    BY DEF IsScoring
  <2>2. at' = [at EXCEPT ![t] = p] /\ Packets = Packets'
    BY <1>6 DEF ReadPackets, Becomes, Packets, Exists
  <2>3. Sound(p)
    BY <2>1, <2>2 DEF Sound
  <2> QED
    BY <2>2, <2>3
<1>7. ASSUME NEW t \in Terminal, Score(t) PROVE Goal
  <2> DEFINE p == [doing |-> "copying", packets |-> at[t].packets,
                   report |-> QualificationReport(disk["a"], disk["b"], disk["resolution"],
                                                    at[t].packets)]
  <2>1. at' = [at EXCEPT ![t] = Idle] \/ at' = [at EXCEPT ![t] = p]
    BY <1>7 DEF Score, Becomes
  <2>2. Sound(Idle) /\ Sound(p)
    BY DEF Sound, IsOwning
  <2> QED
    BY <2>1, <2>2
<1>8. ASSUME NEW t \in Terminal, Copy(t) \/ Archive(t) PROVE Goal
  <2>1. IsOwning(at[t])
    BY <1>8 DEF Copy, Archive, AdjudicationTypeOK, Idle, IsScoring, IsWriting
  <2> DEFINE p(doing) == [at[t] EXCEPT !.doing = doing]
  <2>2. \/ UNCHANGED at \/ at' = [at EXCEPT ![t] = Idle]
        \/ at' = [at EXCEPT ![t] = p("archiving")] \/ at' = [at EXCEPT ![t] = p("publishing")]
    BY <1>8 DEF Copy, Archive, Becomes
  <2>3. /\ p("archiving") = [doing |-> "archiving", packets |-> at[t].packets,
                             report |-> at[t].report]
        /\ p("publishing") = [doing |-> "publishing", packets |-> at[t].packets,
                              report |-> at[t].report]
    BY <2>1 DEF IsOwning
  <2>4. IsOwning(p("archiving")) /\ IsOwning(p("publishing"))
    BY <2>3 DEF IsOwning
  <2>5. Sound(Idle) /\ Sound(p("archiving")) /\ Sound(p("publishing"))
    BY <2>4 DEF Sound
  <2> QED
    BY <2>2, <2>5
<1>9. ASSUME NEW t \in Terminal, Publish(t) \/ KillTerminal(t) PROVE Goal
  BY <1>9 DEF Publish, KillTerminal, Becomes, Sound
<1>10. CASE UNCHANGED adjudicationVars
  BY <1>10 DEF adjudicationVars
<1> QED
  BY <1>1, <1>2, <1>3, <1>4, <1>5, <1>6, <1>7, <1>8, <1>9, <1>10 DEF AdjudicationNext

LEMMA ArchiveSteps ==
  ASSUME AdjudicationTypeOK, [AdjudicationNext]_adjudicationVars
  PROVE  /\ archive' = [stage |-> archive'.stage, report |-> archive'.report]
         /\ archive'.stage \in {"ABSENT", "STARTED", "COPIED", "SCORED", "COMPLETE"}
<1> DEFINE Goal == /\ archive' = [stage |-> archive'.stage, report |-> archive'.report]
                   /\ archive'.stage \in {"ABSENT", "STARTED", "COPIED", "SCORED", "COMPLETE"}
<1>0. /\ archive = [stage |-> archive.stage, report |-> archive.report]
      /\ archive.stage \in {"ABSENT", "STARTED", "COPIED", "SCORED", "COMPLETE"}
  BY DEF AdjudicationTypeOK
<1>1. ASSUME NEW stage \in {"STARTED", "COPIED", "COMPLETE"},
             archive' = [archive EXCEPT !.stage = stage]
      PROVE  Goal
  BY <1>0, <1>1
<1>2. ASSUME NEW report, archive' = [stage |-> "SCORED", report |-> report]
      PROVE  Goal
  BY <1>2
<1>3. ASSUME NEW t \in Terminal, Score(t) \/ Copy(t) PROVE Goal
  BY <1>0, <1>1, <1>3 DEF Score, Copy
<1>4. ASSUME NEW t \in Terminal, Archive(t) PROVE Goal
  BY <1>0, <1>1, <1>2, <1>4 DEF Archive
<1>5. ASSUME NEW t \in Terminal,
             \/ Prepare(t) \/ WriteManifest(t) \/ Lock(t) \/ LockResolutionPacket(t)
             \/ Resolve(t) \/ ReadPackets(t) \/ Publish(t) \/ KillTerminal(t)
             \/ \E f \in File : WriteFile(t, f)
      PROVE  UNCHANGED archive
  BY <1>5 DEF Prepare, WriteManifest, Lock, LockResolutionPacket, Resolve,
              ReadPackets, Publish, KillTerminal, WriteFile, Begins
<1>6. CASE UNCHANGED adjudicationVars
  BY <1>0, <1>6 DEF adjudicationVars
<1> QED
  BY <1>0, <1>3, <1>4, <1>5, <1>6 DEF AdjudicationNext

LEMMA ProcessStep ==
  ASSUME AdjudicationTypeOK, DiskHeld, \A t \in Terminal : ProcessHeld(t),
         [AdjudicationNext]_adjudicationVars
  PROVE  AdjudicationTypeOK' /\ (\A t \in Terminal : ProcessHeld(t))'
<1>1. /\ DOMAIN disk' = File
      /\ Exists("reservation") => Exists("reservation")'
      /\ Packets \subseteq Packets' /\ Completed' = Completed
  BY CreationSteps, FilesStay, FileNames, CollectionIsGiven DEF Packets, Completed
<1>2. \/ UNCHANGED at
      \/ \E t \in Terminal : \E p : at' = [at EXCEPT ![t] = p] /\ Sound(p)
  BY ProcessSteps
<1>3. DOMAIN at' = Terminal /\ \A t \in Terminal : UNCHANGED at[t] \/ Sound(at'[t])
  BY <1>2 DEF AdjudicationTypeOK
<1>4. AdjudicationTypeOK'
  BY <1>1, <1>3, ArchiveSteps DEF AdjudicationTypeOK, Sound
<1>5. ASSUME NEW t \in Terminal PROVE ProcessHeld(t)'
  <2>1. CASE UNCHANGED at[t]
    BY <1>1, <2>1 DEF ProcessHeld
  <2>2. CASE Sound(at'[t])
    BY <1>1, <2>2 DEF ProcessHeld, Sound, Idle, IsWriting, IsScoring, IsOwning
  <2> QED
    BY <1>3, <2>1, <2>2
<1> QED
  BY <1>4, <1>5

-----------------------------------------------------------------------------
(* The score. *)

\* No target of a set has one of the verdicts that none are counted of.
LEMMA NumberOfNone ==
  ASSUME NEW set, set \subseteq Target, NEW V, NEW verdicts
  PROVE  /\ Number(set, V, verdicts) \in Nat
         /\ Number(set, V, verdicts) = 0 => \A k \in set : V[k] \notin verdicts
<1> DEFINE found == {k \in set : V[k] \in verdicts}
<1>1. Number(set, V, verdicts) = Cardinality(found)
  BY DEF Number
<1>3. found \in SUBSET Target
  OBVIOUS
<1>4. IsFiniteSet(found)
  BY <1>3, TargetAssumption, FS_Subset
<1>5. Cardinality(found) \in Nat /\ (Cardinality(found) = 0 => found = {})
  BY <1>4, FS_CardinalityType, FS_EmptySet
<1> QED
  BY <1>1, <1>5

\* The items a condition is asked for and those it makes are its targets.
LEMMA CriticalTargets ==
  ASSUME NEW c, NEW s \in SamplesOf(c)
  PROVE  /\ TargetsOf(s) \subseteq Target
         /\ Of(s, "REFERENCE", CriticalItems(Reference[s])) \subseteq TargetsOf(s)
         /\ Of(s, "CANDIDATE", CriticalItems(Assertion[s])) \subseteq TargetsOf(s)
BY DEF SamplesOf, TargetsOf, Target, Of, CriticalItems

LEMMA NoViolations ==
  ASSUME NEW c, NEW V, CriticalViolations(c, V) = 0, NEW s \in SamplesOf(c)
  PROVE  /\ \A k \in Of(s, "REFERENCE", CriticalItems(Reference[s])) :
               V[k] \notin {"REJECT", "UNRESOLVED", "NONE"}
         /\ \A k \in Of(s, "CANDIDATE", CriticalItems(Assertion[s])) : V[k] # "REJECT"
<1> DEFINE asked == UNION {Of(u, "REFERENCE", CriticalItems(Reference[u])) :
                             u \in SamplesOf(c)}
           made == UNION {Of(u, "CANDIDATE", CriticalItems(Assertion[u])) :
                            u \in SamplesOf(c)}
<1>1. Number(asked, V, {"REJECT", "UNRESOLVED", "NONE"}) + Number(asked, V, {"UNRESOLVED"})
        + Number(made, V, {"REJECT"}) = 0
  BY DEF CriticalViolations
<1>2. asked \subseteq Target /\ made \subseteq Target
  BY CriticalTargets
<1>3. /\ Number(asked, V, {"REJECT", "UNRESOLVED", "NONE"}) \in Nat
      /\ Number(asked, V, {"UNRESOLVED"}) \in Nat
      /\ Number(made, V, {"REJECT"}) \in Nat
  BY <1>2, NumberOfNone
<1>4. /\ Number(asked, V, {"REJECT", "UNRESOLVED", "NONE"}) = 0
      /\ Number(made, V, {"REJECT"}) = 0
  BY <1>1, <1>3
<1>5. /\ \A k \in asked : V[k] \notin {"REJECT", "UNRESOLVED", "NONE"}
      /\ \A k \in made : V[k] \notin {"REJECT"}
  BY <1>2, <1>4, NumberOfNone
<1> QED
  BY <1>5

\* A verdict on a target that both reviewers or a resolution have given.
LEMMA FinalIsSaid ==
  ASSUME AdjudicationTypeOK, DiskHeld,
         Readable("a"), Readable("b"), Readable("resolution"),
         NEW packets,
         ResolutionValid(disk["a"], disk["b"], disk["resolution"], packets),
         NEW k, k \in Expected(packets)
  PROVE  LET final == Final(disk["a"], disk["b"], disk["resolution"], packets, k)
         IN /\ final \notin {"REJECT", "UNRESOLVED", "NONE"} => Said("ACCEPT", k)
            /\ final # "REJECT" => ~Said("REJECT", k)
            /\ ~Agreed(disk["a"], disk["b"], k) => k \in DOMAIN disk["resolution"]
<1> DEFINE a == disk["a"]
           b == disk["b"]
           r == disk["resolution"]
           final == Final(a, b, r, packets, k)
<1>1. BothValid(a, b, packets) /\ DOMAIN r = {q \in Expected(packets) : ~Agreed(a, b, q)}
  BY DEF ResolutionValid, Covers, Disagreements
<1>2. a \in Submissions
  BY DEF DiskHeld
<1>3. a.judgments[k] \in {"ACCEPT", "REJECT", "NEEDS_ADJUDICATION"}
  <2>1. PICK p \in SUBSET Scheduled, j \in Judgments : a = Submission(p, j)
    BY <1>2 DEF Submissions
  <2>2. a.judgments = [q \in Expected(p) |-> j[q]]
    BY <2>1 DEF Submission
  <2>3. k \in Expected(p)
    BY <1>1, <2>2 DEF BothValid, SubmissionValid
  <2>4. k \in Target
    BY <2>3 DEF Expected, Target
  <2>5. j[k] \in Verdict
    BY <2>4, JudgmentsAssumption
  <2> QED
    BY <2>2, <2>3, <2>5 DEF Verdict
<1>4. CASE Agreed(a, b, k)
  <2>1. final = a.judgments[k] /\ b.judgments[k] = a.judgments[k]
        /\ a.judgments[k] # "NEEDS_ADJUDICATION"
    BY <1>1, <1>4 DEF Final, Agreed
  <2> QED
    BY <1>3, <1>4, <2>1 DEF Said
<1>5. CASE ~Agreed(a, b, k)
  <2>1. k \in DOMAIN r /\ final = r[k]
    BY <1>1, <1>5 DEF Final
  <2>2. r[k] \in {"ACCEPT", "REJECT", "UNRESOLVED"}
    BY <2>1 DEF DiskHeld
  <2>3. Said("REJECT", k) => r[k] = "REJECT"
    <3>1. a.judgments[k] = "REJECT" /\ b.judgments[k] = "REJECT" => Agreed(a, b, k)
      BY DEF Agreed
    <3> QED
      BY <1>5, <3>1 DEF Said
  <2> QED
    BY <1>5, <2>1, <2>2, <2>3 DEF Said
<1> QED
  BY <1>4, <1>5

\* What is scored from the files that are there is clean.
LEMMA ScoreIsClean ==
  ASSUME AdjudicationTypeOK, DiskHeld,
         Readable("a"), Readable("b"), Readable("resolution"),
         NEW packets, packets \subseteq Packets
  PROVE  Clean(QualificationReport(disk["a"], disk["b"], disk["resolution"], packets))
<1> DEFINE a == disk["a"]
           b == disk["b"]
           r == disk["resolution"]
<1> SUFFICES ASSUME NEW c \in Condition,
                    QualificationReport(a, b, r, packets).status[c] = "QUALIFIED",
                    NEW s \in SamplesOf(c)
             PROVE  CleanSample(s)
  BY DEF Clean
<1>1. Status(c, a, b, r, packets) = "QUALIFIED"
  BY DEF QualificationReport
<1> DEFINE V == [k \in Target |-> Final(a, b, r, packets, k)]
<1>2. /\ SamplesOf(c) \subseteq Completed
      /\ ResolutionValid(a, b, r, packets) /\ packets = Completed
      /\ Gates(c, V)
  BY <1>1 DEF Status, Integrity
<1>3. s \in packets /\ collected.completed[s] /\ Exists(s)
  BY <1>2 DEF Completed, Packets
<1>4. collected.lifecycle[s] /\ CriticalViolations(c, V) = 0
  BY <1>2 DEF Gates
<1>5. TargetsOf(s) \subseteq Expected(packets)
  BY <1>3 DEF Expected
<1>6. \A k \in TargetsOf(s) :
        /\ V[k] \notin {"REJECT", "UNRESOLVED", "NONE"} => Said("ACCEPT", k)
        /\ V[k] # "REJECT" => ~Said("REJECT", k)
        /\ ~Agreed(a, b, k) => k \in DOMAIN r
  BY <1>2, <1>5, FinalIsSaid, CriticalTargets
<1>7. /\ \A k \in Of(s, "REFERENCE", CriticalItems(Reference[s])) : Said("ACCEPT", k)
      /\ \A k \in Of(s, "CANDIDATE", CriticalItems(Assertion[s])) : ~Said("REJECT", k)
  BY <1>4, <1>6, NoViolations, CriticalTargets
<1> QED
  BY <1>3, <1>4, <1>6, <1>7 DEF CleanSample

\* Scoring the same files again gives the same report.
LEMMA ReportStays ==
  ASSUME UNCHANGED collected, disk'["a"] = disk["a"], disk'["b"] = disk["b"],
         disk'["resolution"] = disk["resolution"], NEW packets
  PROVE  QualificationReport(disk["a"], disk["b"], disk["resolution"], packets)'
           = QualificationReport(disk["a"], disk["b"], disk["resolution"], packets)
<1> DEFINE a == disk["a"]
           b == disk["b"]
           r == disk["resolution"]
           V == [k \in Target |-> Final(a, b, r, packets, k)]
<1>1. Completed' = Completed
  BY DEF Completed
<1>2. Integrity(a, b, r, packets)' <=> Integrity(a, b, r, packets)
  BY <1>1 DEF Integrity
<1>3. V' = V
  OBVIOUS
<1>4. \A c : Gates(c, V)' <=> Gates(c, V)
  BY <1>3 DEF Gates
<1>5. \A c : Status(c, a, b, r, packets)' = Status(c, a, b, r, packets)
  BY <1>1, <1>2, <1>4 DEF Status
<1> QED
  BY <1>2, <1>5 DEF QualificationReport

\* A score of the files that are there is one of those that will be there.
LEMMA ScoreStays ==
  ASSUME AdjudicationTypeOK, UNCHANGED disk \/ \E f \in File : \E v : Creates(f, v),
         UNCHANGED collected, Exists("a"), Exists("b"), Exists("resolution"),
         NEW report, IsScore(report)
  PROVE  \E packets \in SUBSET Packets' :
            report = QualificationReport(disk["a"], disk["b"], disk["resolution"], packets)'
<1>1. /\ disk'["a"] = disk["a"] /\ disk'["b"] = disk["b"]
      /\ disk'["resolution"] = disk["resolution"]
      /\ Packets \subseteq Packets'
  BY FilesStay, FileNames DEF Packets
<1>2. PICK packets \in SUBSET Packets :
        report = QualificationReport(disk["a"], disk["b"], disk["resolution"], packets)
  BY DEF IsScore
<1>3. QualificationReport(disk["a"], disk["b"], disk["resolution"], packets)'
        = QualificationReport(disk["a"], disk["b"], disk["resolution"], packets)
  BY <1>1, ReportStays
<1> QED
  BY <1>1, <1>2, <1>3

-----------------------------------------------------------------------------
(* The archive and who has it. *)

Owning == {"copying", "archiving", "publishing"}

\* Steps that leave the archive, but for an owner that gives up.
Aside ==
  /\ UNCHANGED <<archive, out>>
  /\ \A t \in Terminal : UNCHANGED at[t] \/ at'[t].doing \notin Owning

\* A step about the archive, by its owner or to have it.
Owns(t) ==
  /\ \A u \in Terminal \ {t} : UNCHANGED at[u]
  /\ UNCHANGED <<collected, disk>>
  /\ \/ /\ archive.stage = "ABSENT" /\ at[t].doing = "scoring"
        /\ \A f \in {"a", "b", "resolution"} : Readable(f)
        /\ archive' = [archive EXCEPT !.stage = "STARTED"]
        /\ at'[t] = [doing |-> "copying", packets |-> at[t].packets,
                     report |-> QualificationReport(disk["a"], disk["b"], disk["resolution"],
                                                    at[t].packets)]
        /\ UNCHANGED out
     \/ /\ at[t].doing = "copying"
        /\ \A f \in Components(at[t].packets) : Exists(f)
        /\ archive' = [archive EXCEPT !.stage = "COPIED"]
        /\ at'[t].doing = "archiving" /\ at'[t].report = at[t].report
        /\ UNCHANGED out
     \/ /\ at[t].doing = "archiving" /\ archive.stage = "COPIED"
        /\ archive' = [stage |-> "SCORED", report |-> at[t].report]
        /\ UNCHANGED <<at[t], out>>
     \/ /\ at[t].doing = "archiving" /\ archive.stage = "SCORED"
        /\ \A f \in Singles \ {"reservation"} : Readable(f)
        /\ archive' = [archive EXCEPT !.stage = "COMPLETE"]
        /\ at'[t].doing = "publishing" /\ at'[t].report = at[t].report
        /\ UNCHANGED out
     \/ /\ at[t].doing = "publishing" /\ out' \in {at[t].report, Torn}
        /\ at'[t].doing \notin Owning
        /\ UNCHANGED archive

LEMMA OwnerSteps ==
  ASSUME AdjudicationTypeOK, [AdjudicationNext]_adjudicationVars
  PROVE  Aside \/ \E t \in Terminal : Owns(t)
<1> DEFINE Goal == Aside \/ \E t \in Terminal : Owns(t)
<1>0. DOMAIN at = Terminal /\ Idle.doing \notin Owning
  BY DEF AdjudicationTypeOK, Idle, Owning
<1>1. ASSUME NEW t \in Terminal, NEW p, at' = [at EXCEPT ![t] = p], p.doing \notin Owning,
             UNCHANGED <<archive, out>>
      PROVE  Goal
  BY <1>0, <1>1 DEF Aside
<1>2. ASSUME UNCHANGED <<archive, out, at>> PROVE Goal
  BY <1>2 DEF Aside
<1>3. ASSUME NEW t \in Terminal, Prepare(t) PROVE Goal
  BY <1>1, <1>2, <1>3 DEF Prepare, Begins, Becomes, Owning
<1>4. ASSUME NEW t \in Terminal, WriteManifest(t) \/ KillTerminal(t) PROVE Goal
  BY <1>0, <1>1, <1>4 DEF WriteManifest, KillTerminal, Becomes
<1>5. ASSUME NEW t \in Terminal, Lock(t) PROVE Goal
  <2>1. PICK p : at' = [at EXCEPT ![t] = p] /\ p.doing \notin Owning
    <3>1. PICK todo, text : Goes(t, [doing |-> "locking", failed |-> FALSE,
                                       todo |-> todo, text |-> text])
      BY <1>5 DEF Lock
    <3> DEFINE p == [doing |-> "locking", failed |-> FALSE, todo |-> todo, text |-> text]
    <3>2. at' = [at EXCEPT ![t] = Idle] \/ at' = [at EXCEPT ![t] = p]
      BY <3>1 DEF Goes, Becomes
    <3>3. p.doing \notin Owning
      BY DEF Owning
    <3> QED
      BY <1>0, <3>2, <3>3
  <2> QED
    BY <1>1, <1>5, <2>1 DEF Lock, Begins
<1>6. ASSUME NEW t \in Terminal, LockResolutionPacket(t) \/ Resolve(t) PROVE Goal
  BY <1>2, <1>6 DEF LockResolutionPacket, Resolve, Begins
<1>7. ASSUME NEW t \in Terminal, ReadPackets(t) PROVE Goal
  BY <1>1, <1>7 DEF ReadPackets, Begins, Becomes, Owning
<1>8. ASSUME NEW t \in Terminal, NEW f \in File, WriteFile(t, f) PROVE Goal
  <2>1. IsWriting(at[t])
    BY <1>8 DEF WriteFile, Writing, AdjudicationTypeOK, Idle, IsScoring, IsOwning
  <2> DEFINE p == Tried(t, f)
             q == [p EXCEPT !.failed = at[t].doing = "preparing"]
  <2>2. at' = [at EXCEPT ![t] = Idle] \/ at' = [at EXCEPT ![t] = p] \/ at' = [at EXCEPT ![t] = q]
    BY <1>8 DEF WriteFile, Goes, Becomes
  <2>3. p.doing = at[t].doing /\ q.doing = at[t].doing
    BY <2>1 DEF Tried, IsWriting
  <2>4. p.doing \notin Owning /\ q.doing \notin Owning
    BY <2>1, <2>3 DEF IsWriting, Owning
  <2>5. UNCHANGED <<archive, out>>
    BY <1>8 DEF WriteFile
  <2> QED
    BY <1>0, <1>1, <2>2, <2>4, <2>5
<1>9. ASSUME NEW t \in Terminal, Score(t) PROVE Goal
  <2>1. CASE at' = [at EXCEPT ![t] = Idle] /\ UNCHANGED archive
    BY <1>0, <1>1, <1>9, <2>1 DEF Score
  <2>2. CASE ~(at' = [at EXCEPT ![t] = Idle] /\ UNCHANGED archive)
    BY <1>0, <1>9, <2>2 DEF Score, Becomes, Owns
  <2> QED
    BY <2>1, <2>2
<1>10. ASSUME NEW t \in Terminal, Copy(t) PROVE Goal
  <2>1. IsOwning(at[t])
    BY <1>10 DEF Copy, AdjudicationTypeOK, Idle, IsScoring, IsWriting
  <2>2. /\ [at[t] EXCEPT !.doing = "archiving"].doing = "archiving"
        /\ [at[t] EXCEPT !.doing = "archiving"].report = at[t].report
    BY <2>1 DEF IsOwning
  <2>3. CASE at' = [at EXCEPT ![t] = Idle] /\ UNCHANGED archive
    BY <1>0, <1>1, <1>10, <2>3 DEF Copy
  <2>4. CASE ~(at' = [at EXCEPT ![t] = Idle] /\ UNCHANGED archive)
    BY <1>0, <1>10, <2>2, <2>4 DEF Copy, Becomes, Owns
  <2> QED
    BY <2>3, <2>4
<1>11. ASSUME NEW t \in Terminal, Archive(t) PROVE Goal
  <2>1. IsOwning(at[t])
    BY <1>11 DEF Archive, AdjudicationTypeOK, Idle, IsScoring, IsWriting
  <2>2. /\ [at[t] EXCEPT !.doing = "publishing"].doing = "publishing"
        /\ [at[t] EXCEPT !.doing = "publishing"].report = at[t].report
    BY <2>1 DEF IsOwning
  <2>3. CASE at' = [at EXCEPT ![t] = Idle] /\ UNCHANGED archive
    BY <1>0, <1>1, <1>11, <2>3 DEF Archive
  <2>4. CASE /\ archive.stage = "COPIED" /\ UNCHANGED at
             /\ archive' = [stage |-> "SCORED", report |-> at[t].report]
    BY <1>11, <2>4 DEF Archive, Owns
  <2>5. CASE /\ archive.stage = "SCORED" /\ \A f \in Singles \ {"reservation"} : Readable(f)
             /\ archive' = [archive EXCEPT !.stage = "COMPLETE"]
             /\ at' = [at EXCEPT ![t] = [at[t] EXCEPT !.doing = "publishing"]]
    BY <1>0, <1>11, <2>2, <2>5 DEF Archive, Owns
  <2> QED
    BY <1>11, <2>3, <2>4, <2>5 DEF Archive, Becomes
<1>12. ASSUME NEW t \in Terminal, Publish(t) PROVE Goal
  BY <1>0, <1>12 DEF Publish, Publishing, Becomes, Owns
<1>13. CASE UNCHANGED adjudicationVars
  BY <1>2, <1>13 DEF adjudicationVars
<1> QED
  BY <1>3, <1>4, <1>5, <1>6, <1>7, <1>8, <1>9, <1>10, <1>11, <1>12, <1>13 DEF AdjudicationNext

\* The parts of ArchiveHeld.
AloneHeld == \A t, u \in Owners : t = u
NoOwner == archive.stage = "ABSENT" \/ out # None => Owners = {}
OwnersHeld == \A t \in Owners : OwnerHeld(t)
CopiedHeld ==
  archive.stage \in {"COPIED", "SCORED", "COMPLETE"} => \A f \in Singles : Exists(f)
ScoredHeld == archive.stage \in {"SCORED", "COMPLETE"} => IsScore(archive.report)
CompleteHeld ==
  archive.stage = "COMPLETE" => \A f \in Singles \ {"reservation"} : Readable(f)
OutHeld ==
  /\ out # None => archive.stage = "COMPLETE"
  /\ Published => out = archive.report

LEMMA ArchiveParts ==
  /\ ArchiveHeld <=> /\ AloneHeld /\ NoOwner /\ OwnersHeld /\ CopiedHeld
                       /\ ScoredHeld /\ CompleteHeld /\ OutHeld
  /\ ArchiveHeld' <=> (/\ AloneHeld /\ NoOwner /\ OwnersHeld /\ CopiedHeld
                         /\ ScoredHeld /\ CompleteHeld /\ OutHeld)'
<1>1. ArchiveHeld <=> /\ AloneHeld /\ NoOwner /\ OwnersHeld /\ CopiedHeld
                        /\ ScoredHeld /\ CompleteHeld /\ OutHeld
  BY DEF ArchiveHeld, AloneHeld, NoOwner, OwnersHeld, CopiedHeld, ScoredHeld, CompleteHeld,
         OutHeld
<1>2. ArchiveHeld' <=> (/\ AloneHeld /\ NoOwner /\ OwnersHeld /\ CopiedHeld
                          /\ ScoredHeld /\ CompleteHeld /\ OutHeld)'
  BY DEF ArchiveHeld, AloneHeld, NoOwner, OwnersHeld, CopiedHeld, ScoredHeld, CompleteHeld,
         OutHeld
<1> QED
  BY <1>1, <1>2

LEMMA AsideStep ==
  ASSUME AdjudicationTypeOK, ArchiveHeld, Aside, UNCHANGED collected,
         UNCHANGED disk \/ \E f \in File : \E v : Creates(f, v)
  PROVE  ArchiveHeld'
<1>0. AloneHeld /\ NoOwner /\ OwnersHeld /\ CopiedHeld /\ ScoredHeld /\ CompleteHeld /\ OutHeld
  BY ArchiveParts
<1>1. UNCHANGED archive /\ UNCHANGED out
  BY DEF Aside
<1>2. \A t \in Owners' : t \in Owners /\ UNCHANGED at[t]
  BY DEF Aside, Owners, Owning
<1>3. /\ \A f \in File : Exists(f) => Exists(f)'
      /\ \A f \in File : Readable(f) => Readable(f)'
      /\ Singles \subseteq File /\ {"a", "b", "resolution"} \subseteq Singles
  BY FilesStay, FileNames
<1>4. AloneHeld' /\ NoOwner'
  BY <1>0, <1>1, <1>2 DEF AloneHeld, NoOwner
<1>5. OwnersHeld'
  <2>1. ASSUME NEW t \in Owners' PROVE OwnerHeld(t)'
    <3>1. OwnerHeld(t) /\ UNCHANGED at[t]
      BY <1>0, <1>2, <2>1 DEF OwnersHeld
    <3>2. IsScore(at[t].report)'
      BY <3>1, ScoreStays DEF OwnerHeld, IsScore
    <3>3. (\A f \in {"a", "b", "resolution"} : Exists(f))'
      BY <1>3, <3>1 DEF OwnerHeld
    <3> QED
      BY <1>1, <3>1, <3>2, <3>3 DEF OwnerHeld
  <2> QED
    BY <2>1 DEF OwnersHeld
<1>6. CopiedHeld' /\ CompleteHeld'
  BY <1>0, <1>1, <1>3 DEF CopiedHeld, CompleteHeld
<1>7. ScoredHeld'
  <2>1. ASSUME archive.stage \in {"SCORED", "COMPLETE"}
        PROVE  \E packets \in SUBSET Packets' :
                 archive.report
                   = QualificationReport(disk["a"], disk["b"], disk["resolution"], packets)'
    <3>1. IsScore(archive.report) /\ Exists("a") /\ Exists("b") /\ Exists("resolution")
      BY <1>0, <1>3, <2>1 DEF ScoredHeld, CopiedHeld
    <3> QED
      BY <3>1, ScoreStays
  <2> QED
    BY <1>1, <2>1 DEF ScoredHeld, IsScore
<1>8. OutHeld'
  BY <1>0, <1>1 DEF OutHeld, Published
<1> QED
  BY <1>4, <1>5, <1>6, <1>7, <1>8, ArchiveParts

LEMMA OwnsStep ==
  ASSUME AdjudicationTypeOK, DiskHeld, ArchiveHeld, NEW t \in Terminal, ProcessHeld(t), Owns(t)
  PROVE  ArchiveHeld'
<1>0. AloneHeld /\ NoOwner /\ OwnersHeld /\ CopiedHeld /\ ScoredHeld /\ CompleteHeld /\ OutHeld
  BY ArchiveParts
<1>1. /\ UNCHANGED disk /\ UNCHANGED collected
      /\ \A u \in Owners' : u # t => u \in Owners
  BY DEF Owns, Owners
<1>2. \A u \in Owners' : u = t
  <2>1. at[t].doing \in Owning => t \in Owners
    BY DEF Owners, Owning
  <2>2. at[t].doing \in Owning \/ archive.stage = "ABSENT"
    BY DEF Owns, Owning
  <2> QED
    BY <1>0, <1>1, <2>1, <2>2 DEF AloneHeld, NoOwner
<1>3. AloneHeld'
  BY <1>2 DEF AloneHeld
<1>4. archive = [stage |-> archive.stage, report |-> archive.report]
  BY DEF AdjudicationTypeOK
<1>5. at[t].doing \in Owning => OwnerHeld(t) /\ out = None /\ archive.stage # "ABSENT"
  <2>1. at[t].doing \in Owning => t \in Owners
    BY DEF Owners, Owning
  <2> QED
    BY <1>0, <2>1 DEF OwnersHeld, NoOwner
<1>6. \A f : (Exists(f)' <=> Exists(f)) /\ (Readable(f)' <=> Readable(f))
  BY <1>1 DEF Exists, Readable
\* What an owner is to show, of whom at'[t] is.
<1>7. ASSUME /\ at'[t].doing = "copying" => archive'.stage = "STARTED"
             /\ at'[t].doing = "archiving" => archive'.stage \in {"COPIED", "SCORED"}
             /\ at'[t].doing = "publishing" => archive'.stage = "COMPLETE"
             /\ archive'.stage \in {"SCORED", "COMPLETE"} => archive'.report = at'[t].report
             /\ archive'.stage # "ABSENT" /\ UNCHANGED out /\ out = None,
             Exists("a") /\ Exists("b") /\ Exists("resolution"),
             IsScore(at'[t].report)
      PROVE  NoOwner' /\ OwnersHeld' /\ ScoredHeld' /\ OutHeld'
  <2>1. \E packets \in SUBSET Packets' :
          at'[t].report = QualificationReport(disk["a"], disk["b"], disk["resolution"], packets)'
    BY <1>1, <1>7, ScoreStays
  <2>2. IsScore(at[t].report)'
    BY <2>1 DEF IsScore
  <2>3. OwnerHeld(t)'
    BY <1>6, <1>7, <2>2 DEF OwnerHeld
  <2>4. OwnersHeld'
    BY <1>2, <2>3 DEF OwnersHeld
  <2>5. ScoredHeld'
    BY <1>7, <2>1 DEF ScoredHeld, IsScore
  <2>6. NoOwner' /\ OutHeld'
    BY <1>7 DEF NoOwner, OutHeld, Published
  <2> QED
    BY <2>4, <2>5, <2>6
<1>8. CASE /\ archive.stage = "ABSENT" /\ at[t].doing = "scoring"
           /\ \A f \in {"a", "b", "resolution"} : Readable(f)
           /\ archive' = [archive EXCEPT !.stage = "STARTED"]
           /\ at'[t] = [doing |-> "copying", packets |-> at[t].packets,
                        report |-> QualificationReport(disk["a"], disk["b"], disk["resolution"],
                                            at[t].packets)]
           /\ UNCHANGED out
  <2>1. archive'.stage = "STARTED"
    BY <1>4, <1>8
  <2>2. out = None
    BY <1>0, <1>8 DEF OutHeld
  <2>3. Exists("a") /\ Exists("b") /\ Exists("resolution")
    BY <1>8 DEF Readable
  <2>4. at[t].packets \subseteq Packets
    BY <1>8 DEF ProcessHeld
  <2> DEFINE report == QualificationReport(disk["a"], disk["b"], disk["resolution"], at[t].packets)
  <2>5. IsScore(report)
    BY <2>4 DEF IsScore
  <2>6. at'[t].doing = "copying" /\ at'[t].report = report
    BY <1>8
  <2>7. IsScore(at'[t].report)
    BY <2>5, <2>6
  <2>8. NoOwner' /\ OwnersHeld' /\ ScoredHeld' /\ OutHeld'
    BY <1>7, <1>8, <2>1, <2>2, <2>3, <2>6, <2>7
  <2>9. CopiedHeld' /\ CompleteHeld'
    BY <2>1 DEF CopiedHeld, CompleteHeld
  <2> QED
    BY <1>3, <2>8, <2>9, ArchiveParts
\* An owner keeps its report.
<1>9. ASSUME at[t].doing \in Owning, at'[t].report = at[t].report
      PROVE  IsScore(at'[t].report) /\ Exists("a") /\ Exists("b") /\ Exists("resolution")
  BY <1>5, <1>9 DEF OwnerHeld
<1>10. CASE /\ at[t].doing = "copying"
            /\ \A f \in Components(at[t].packets) : Exists(f)
            /\ archive' = [archive EXCEPT !.stage = "COPIED"]
            /\ at'[t].doing = "archiving" /\ at'[t].report = at[t].report
            /\ UNCHANGED out
  <2>1. archive'.stage = "COPIED" /\ at[t].doing \in Owning
    BY <1>4, <1>10 DEF Owning
  <2>2. \A f \in Singles : Exists(f)
    <3>1. \A f \in Singles \ {"reservation"} : Exists(f)
      BY <1>10 DEF Components
    <3> QED
      BY <3>1, FileNames DEF DiskHeld
  <2>3. NoOwner' /\ OwnersHeld' /\ ScoredHeld' /\ OutHeld'
    BY <1>5, <1>7, <1>9, <1>10, <2>1
  <2>4. CopiedHeld' /\ CompleteHeld'
    BY <1>6, <2>1, <2>2 DEF CopiedHeld, CompleteHeld
  <2> QED
    BY <1>3, <2>3, <2>4, ArchiveParts
<1>11. CASE /\ at[t].doing = "archiving" /\ archive.stage = "COPIED"
            /\ archive' = [stage |-> "SCORED", report |-> at[t].report]
            /\ UNCHANGED <<at[t], out>>
  <2>1. archive'.stage = "SCORED" /\ archive'.report = at[t].report /\ at[t].doing \in Owning
    BY <1>11 DEF Owning
  <2>2. NoOwner' /\ OwnersHeld' /\ ScoredHeld' /\ OutHeld'
    BY <1>5, <1>7, <1>9, <1>11, <2>1
  <2>3. CopiedHeld' /\ CompleteHeld'
    BY <1>0, <1>6, <1>11, <2>1 DEF CopiedHeld, CompleteHeld
  <2> QED
    BY <1>3, <2>2, <2>3, ArchiveParts
<1>12. CASE /\ at[t].doing = "archiving" /\ archive.stage = "SCORED"
            /\ \A f \in Singles \ {"reservation"} : Readable(f)
            /\ archive' = [archive EXCEPT !.stage = "COMPLETE"]
            /\ at'[t].doing = "publishing" /\ at'[t].report = at[t].report
            /\ UNCHANGED out
  <2>1. archive'.stage = "COMPLETE" /\ archive'.report = archive.report /\ at[t].doing \in Owning
    BY <1>4, <1>12 DEF Owning
  <2>2. archive.report = at[t].report
    BY <1>5, <1>12, <2>1 DEF OwnerHeld
  <2>3. NoOwner' /\ OwnersHeld' /\ ScoredHeld' /\ OutHeld'
    BY <1>5, <1>7, <1>9, <1>12, <2>1, <2>2
  <2>4. CopiedHeld' /\ CompleteHeld'
    BY <1>0, <1>6, <1>12, <2>1 DEF CopiedHeld, CompleteHeld
  <2> QED
    BY <1>3, <2>3, <2>4, ArchiveParts
<1>13. CASE /\ at[t].doing = "publishing" /\ out' \in {at[t].report, Torn}
            /\ at'[t].doing \notin Owning
            /\ UNCHANGED archive
  <2>1. archive.stage = "COMPLETE" /\ archive.report = at[t].report
    BY <1>5, <1>13 DEF OwnerHeld, Owning
  <2>2. Owners' = {}
    BY <1>2, <1>13 DEF Owners, Owning
  <2>3. NoOwner' /\ OwnersHeld' /\ OutHeld'
    BY <1>13, <2>1, <2>2 DEF NoOwner, OwnersHeld, OutHeld, Published
  <2>4. CopiedHeld' /\ CompleteHeld'
    BY <1>0, <1>6, <1>13 DEF CopiedHeld, CompleteHeld
  <2>5. ScoredHeld'
    <3>1. IsScore(archive.report) /\ Exists("a") /\ Exists("b") /\ Exists("resolution")
      BY <1>0, <2>1, FileNames DEF ScoredHeld, CopiedHeld
    <3>2. \E packets \in SUBSET Packets' :
            archive.report = QualificationReport(disk["a"], disk["b"], disk["resolution"], packets)'
      BY <1>1, <3>1, ScoreStays
    <3> QED
      BY <1>13, <3>2 DEF ScoredHeld, IsScore
  <2> QED
    BY <1>3, <2>3, <2>4, <2>5, ArchiveParts
<1> QED
  BY <1>8, <1>10, <1>11, <1>12, <1>13 DEF Owns

-----------------------------------------------------------------------------
(* What the adjudication promises. *)

LEMMA HeldAlways == AdjudicationSpec => []AdjudicationHeld
<1>1. AdjudicationInit => AdjudicationHeld
  <2> SUFFICES ASSUME AdjudicationInit PROVE AdjudicationHeld
    OBVIOUS
  <2>1. DOMAIN at = Terminal /\ \A t \in Terminal : at[t] = Idle
    BY DEF AdjudicationInit
  <2>2. AdjudicationTypeOK
    BY <2>1 DEF AdjudicationInit, AdjudicationTypeOK
  <2>3. \A f \in File : ~Exists(f)
    BY DEF AdjudicationInit, Exists
  <2>4. DiskHeld
    BY <2>3, FileNames DEF DiskHeld, Readable, Packets
  <2>5. \A t \in Terminal : ProcessHeld(t)
    BY <2>1 DEF ProcessHeld, Idle
  <2>6. Owners = {}
    BY <2>1 DEF Owners, Idle
  <2>7. ArchiveHeld
    BY <2>6 DEF AdjudicationInit, ArchiveHeld, Published
  <2> QED
    BY <2>2, <2>4, <2>5, <2>7 DEF AdjudicationHeld
<1>2. AdjudicationHeld /\ [AdjudicationNext]_adjudicationVars => AdjudicationHeld'
  <2> SUFFICES ASSUME AdjudicationHeld, [AdjudicationNext]_adjudicationVars PROVE AdjudicationHeld'
    OBVIOUS
  <2>1. AdjudicationTypeOK /\ DiskHeld /\ (\A t \in Terminal : ProcessHeld(t)) /\ ArchiveHeld
    BY DEF AdjudicationHeld
  <2>2. UNCHANGED disk \/ \E f \in File : \E v : Creates(f, v)
    BY <2>1, CreationSteps
  <2>3. DiskHeld'
    BY <2>1, <2>2, CollectionIsGiven, DiskStep
  <2>4. AdjudicationTypeOK' /\ (\A t \in Terminal : ProcessHeld(t))'
    BY <2>1, ProcessStep
  <2>5. ArchiveHeld'
    BY <2>1, <2>2, CollectionIsGiven, OwnerSteps, AsideStep, OwnsStep
  <2> QED
    BY <2>3, <2>4, <2>5 DEF AdjudicationHeld
<1> QED
  BY <1>1, <1>2, PTL DEF AdjudicationSpec

LEMMA PublishedIsScored ==
  ASSUME AdjudicationHeld, Published
  PROVE  /\ AdjudicationTypeOK /\ DiskHeld /\ IsScore(out)
         /\ \A f \in Singles \ {"reservation"} : Readable(f)
         /\ Readable("a") /\ Readable("b") /\ Readable("resolution")
<1>1. AdjudicationTypeOK /\ DiskHeld /\ ScoredHeld /\ CompleteHeld /\ OutHeld
  BY ArchiveParts DEF AdjudicationHeld
<1>2. archive.stage = "COMPLETE" /\ archive.report = out
  BY <1>1 DEF OutHeld, Published
<1>3. \A f \in Singles \ {"reservation"} : Readable(f)
  BY <1>1, <1>2 DEF CompleteHeld
<1> QED
  BY <1>1, <1>2, <1>3 DEF ScoredHeld, Singles

\* A report outside means a complete archive, with the same report, of a
\* workspace that was prepared, judged and resolved.
THEOREM Publication == AdjudicationSpec => []ReportMeansArchive
<1>1. AdjudicationHeld => ReportMeansArchive
  <2> SUFFICES ASSUME AdjudicationHeld, Published
               PROVE  /\ archive = [stage |-> "COMPLETE", report |-> out]
                      /\ \A f \in Singles : Exists(f)
                      /\ disk["resolutionPacket"] = DOMAIN disk["resolution"]
    BY DEF ReportMeansArchive, AdjudicationHeld
  <2>1. AdjudicationTypeOK /\ DiskHeld /\ CopiedHeld /\ CompleteHeld /\ OutHeld
    BY ArchiveParts DEF AdjudicationHeld
  <2>2. archive.stage = "COMPLETE" /\ archive.report = out
    BY <2>1 DEF OutHeld, Published
  <2>3. archive = [stage |-> "COMPLETE", report |-> out]
    BY <2>1, <2>2 DEF AdjudicationTypeOK
  <2>4. Readable("resolutionPacket") /\ Readable("resolution")
    BY <2>1, <2>2 DEF CompleteHeld, Singles
  <2>5. disk["resolutionPacket"] = DOMAIN disk["resolution"]
    BY <2>1, <2>4 DEF DiskHeld, IsOpen
  <2> QED
    BY <2>1, <2>2, <2>3, <2>5 DEF CopiedHeld
<1> QED
  BY HeldAlways, <1>1, PTL

\* The files follow from each other, one process at most has the archive, and
\* what it has scored, copied and archived is what the files show, so that a
\* report outside means a complete archive.
THEOREM AdjudicationInvariance == AdjudicationSpec => []AdjudicationInvariant
BY HeldAlways, Publication, PTL DEF AdjudicationInvariant

\* A condition that is reported as qualified was collected in full, its
\* critical items were accepted, none of its critical assertions was rejected,
\* and what was in dispute was resolved.
THEOREM Qualification == AdjudicationSpec => []QualifiedIsClean
<1>1. AdjudicationHeld => QualifiedIsClean
  <2> SUFFICES ASSUME AdjudicationHeld, Published PROVE Clean(out)
    BY DEF QualifiedIsClean
  <2>1. PICK packets \in SUBSET Packets :
          out = QualificationReport(disk["a"], disk["b"], disk["resolution"], packets)
    BY PublishedIsScored DEF IsScore
  <2> QED
    BY <2>1, PublishedIsScored, ScoreIsClean
<1> QED
  BY HeldAlways, <1>1, PTL

\* Who scores the workspace again gets the report that is outside, unless that
\* one says that the evidence does not hold together.
THEOREM Repetition == AdjudicationSpec => []ReportCanBeRepeated
<1>1. AdjudicationHeld => ReportCanBeRepeated
  <2> SUFFICES ASSUME AdjudicationHeld, Published, out.result # "INVALIDATED"
               PROVE  out = QualificationReport(disk["a"], disk["b"], disk["resolution"], Packets)
    BY DEF ReportCanBeRepeated
  <2>1. PICK packets \in SUBSET Packets :
          out = QualificationReport(disk["a"], disk["b"], disk["resolution"], packets)
    BY PublishedIsScored DEF IsScore
  <2>2. Integrity(disk["a"], disk["b"], disk["resolution"], packets)
    BY <2>1 DEF QualificationReport
  <2>3. packets = Completed /\ Packets \subseteq Completed
    BY <2>2, PublishedIsScored DEF Integrity, DiskHeld
  <2>4. packets = Packets
    BY <2>3
  <2> QED
    BY <2>1, <2>4
<1> QED
  BY HeldAlways, <1>1, PTL

\* What is locked stays as it is, and so does a report that is published.
THEOREM Finality == AdjudicationSpec => EvidenceIsFinal
<1>1. ASSUME AdjudicationHeld, [AdjudicationNext]_adjudicationVars PROVE Kept
  <2>1. AdjudicationTypeOK /\ DiskHeld /\ (\A t \in Terminal : ProcessHeld(t)) /\ NoOwner
    BY <1>1, ArchiveParts DEF AdjudicationHeld
  <2>2. \A f \in File : Exists(f) => disk'[f] = disk[f]
    BY <1>1, <2>1, CreationSteps, FilesStay
  <2>3. out # None => out' = out
    <3>1. ASSUME NEW t \in Terminal, Owns(t), out # None PROVE out' = out
      <4>1. at[t].doing \notin Owning
        BY <2>1, <3>1 DEF NoOwner, Owners, Owning
      <4> QED
        BY <3>1, <4>1 DEF Owns, Owning
    <3> QED
      BY <1>1, <2>1, <3>1, OwnerSteps DEF Aside
  <2> QED
    BY <2>2, <2>3 DEF Kept
<1>2. AdjudicationHeld /\ [AdjudicationNext]_adjudicationVars => [Kept]_adjudicationVars
  BY <1>1
<1> QED
  BY HeldAlways, <1>2, PTL DEF AdjudicationSpec, EvidenceIsFinal
=============================================================================
