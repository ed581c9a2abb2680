---------------------- MODULE OperabilityRunner_proofs ----------------------
(***************************************************************************)
(* Proofs about the canary for any number of processes started on the same  *)
(* campaign.  FilesAgree and DecisionIsMeasured are inductive together: a   *)
(* runner owns the campaign from its reservation on (OwnerHeld), so the     *)
(* verdict (VerdictHeld) and the files (DiskHeld) are followed along the    *)
(* steps of one runner, and what it writes is what it measured.             *)
(***************************************************************************)
EXTENDS OperabilityRunner, TLAPS

\* Steps that move a runner and change nothing else.
Idles(r) ==
  /\ \/ Goto(r, "START", "INSPECT") \/ Goto(r, "INSPECT", "RESERVE")
     \/ \E from \in {"START", "INSPECT", "RESERVE"} : Goto(r, from, "REFUSED")
     \/ Goto(r, "RECORD", "THROWN") \/ Goto(r, "SNAPSHOT", "CATCH") \/ Goto(r, "COLLECT", "CATCH")
     \/ Goto(r, "FALLBACK", "RECEIPT")
     \/ Goto(r, pc[r], "KILLED") /\ ~Ended(r)
  /\ UNCHANGED <<policy, skill, invocations, verdict, persisted, files, history>>

Acts(r) ==
  \/ Idles(r) \/ OpenReservation(r) \/ WriteReservation(r) \/ Invoke(r) \/ Receive(r)
  \/ OpenCollection(r) \/ WriteCollection(r) \/ FailCollection(r) \/ Catch(r)
  \/ OpenFallback(r) \/ WriteFallback(r) \/ FailFallback(r)
  \/ OpenReceipt(r) \/ WriteReceipt(r) \/ FailReceipt(r)

\* A step of the specification is one of these, an edit, or no change.
LEMMA StepKinds ==
  ASSUME [Next]_vars
  PROVE  (\E r \in Runner : Acts(r)) \/ Edit \/ UNCHANGED vars
<1>1. ASSUME NEW r \in Runner, Reserving(r) PROVE Acts(r)
  BY <1>1 DEF Reserving, PassChecks, PassInspection, FailChecks, Refuse, FailReservation, Goto,
              Idles, Acts
<1>2. ASSUME NEW r \in Runner, Collecting(r) PROVE Acts(r)
  BY <1>2 DEF Collecting, FailSnapshot, FailOpenCollection, Goto, Idles, Acts
<1>3. ASSUME NEW r \in Runner, Closing(r) PROVE Acts(r)
  BY <1>3 DEF Closing, FailOpenFallback, Goto, Idles, Acts
<1>4. ASSUME NEW r \in Runner, Kill(r) PROVE Acts(r)
  BY <1>4 DEF Kill, Goto, Idles, Acts
<1> QED
  BY <1>1, <1>2, <1>3, <1>4 DEF Next, Run

\* What an answer is classified as.
LEMMA VerdictType ==
  ASSUME NEW a \in Answers
  PROVE  /\ OutcomeOf(a) \in Outcomes \ {"INVALIDATED"}
         /\ DecisionOf(a) \in {"NONE", "INSUFFICIENT", "PENDING", "NOT_PASSED", "SHARED"}
         /\ policy = "HISTORICAL_OPERABILITY" <=> DecisionOf(a) = "NONE"
         /\ DecisionOf(a) = "PENDING" => a = "BLOCKED" /\ OutcomeOf(a) = "COMPLETED"
         /\ DecisionOf(a) = "SHARED" =>
              policy = "TERRA_CONTRAST" /\ a = "SHARED_FAILURE" /\ OutcomeOf(a) = "COMPLETED"
         /\ DecisionOf(a) = "NOT_PASSED" => a \notin {"BLOCKED", "PROVIDER_ERROR"}
         /\ OutcomeOf(a) = "NOT_COMPLETED" => a \in {"LATE", "STEP_TIMEOUT", "OTHER_TIMEOUT"}
BY DEF OutcomeOf, DecisionOf, Outcomes, Answers

\* What a runner is about to write is a collection that a review knows, and
\* says no more than was measured.
LEMMA ContentIsMeasured ==
  ASSUME TypeOK, OwnerHeld, VerdictHeld, NEW r \in Runner,
         pc[r] \in {"COLLECT_WRITE", "FALLBACK_WRITE", "RECEIPT_WRITE"}
  PROVE  /\ Content(r) \in Collections(policy) /\ holder = r
         /\ Content(r).decision = "PENDING" =>
              answered = "BLOCKED" /\ Content(r).outcome = "COMPLETED"
         /\ Content(r).decision \in {"NOT_PASSED", "SHARED"} =>
              answered \notin {"NONE", "BLOCKED", "PROVIDER_ERROR"}
         /\ Content(r).outcome = "NOT_COMPLETED" =>
              answered \in {"LATE", "STEP_TIMEOUT", "OTHER_TIMEOUT"}
         /\ Content(r).invocations = calls
         /\ Content(r).outcome = "INVALIDATED" <=> calls = 0
<1>1. holder = r /\ invocations[r] = calls /\ Undecided \in {"NONE", "INSUFFICIENT"}
  BY DEF OwnerHeld, Owning, Steps, Undecided
<1>2. CASE Measured(r) /\ decision[r] \in {DecisionOf(answered), Undecided}
  <2>1. policy \in Policies /\ answered \in Answers
    BY <1>2 DEF Measured, TypeOK
  <2>2. Content(r) = Result("WRITTEN", 1, OutcomeOf(answered), decision[r])
    BY <1>1, <1>2 DEF Measured, Content
  <2>3. Content(r) \in Collections(policy)
    <3> DEFINE o == OutcomeOf(answered)
    <3>1. o \in Outcomes \ {"INVALIDATED"}
      BY <2>1, VerdictType
    <3>2. decision[r] \in {"NONE", "INSUFFICIENT", "PENDING", "NOT_PASSED", "SHARED"}
          /\ (policy = "HISTORICAL_OPERABILITY" <=> decision[r] = "NONE")
          /\ (decision[r] = "PENDING" => o = "COMPLETED")
          /\ (decision[r] = "SHARED" => policy = "TERRA_CONTRAST" /\ o = "COMPLETED")
      BY <1>2, <2>1, VerdictType DEF Undecided
    <3> HIDE DEF o
    <3>3. Result("WRITTEN", 1, o, decision[r]) \in Collections(policy)
      BY <3>1, <3>2 DEF Collections
    <3> QED
      BY <2>2, <3>3 DEF o
  <2>4. answered # "NONE"
    BY <2>1 DEF Answers
  <2> QED
    BY <1>1, <1>2, <2>1, <2>2, <2>3, <2>4, VerdictType DEF Measured, Result
<1>3. CASE calls = 0 /\ answered = "NONE" /\ outcome[r] = "INVALIDATED" /\ decision[r] = Undecided
  <2>1. Content(r) = Result("WRITTEN", 0, "INVALIDATED", Undecided)
    BY <1>1, <1>3 DEF Content
  <2>2. Content(r) \in Collections(policy)
    BY <2>1 DEF Undecided, Collections
  <2> QED
    BY <1>1, <1>3, <2>1, <2>2 DEF Result
<1> QED
  BY <1>2, <1>3 DEF VerdictHeld

\* No step leaves the types of the variables.
LEMMA TypeStep ==
  ASSUME TypeOK, VerdictHeld, [Next]_vars
  PROVE  TypeOK'
<1> USE NoRunnerAssumption
       DEF Goto, verdict, files, history, Blank, Result, Outcomes, Decisions, Steps,
           Answers, TypeOK
<1>1. ASSUME NEW r \in Runner, Idles(r) PROVE TypeOK'
  BY <1>1 DEF Idles
<1>2. ASSUME NEW r \in Runner, OpenReservation(r) PROVE TypeOK'
  BY <1>2 DEF OpenReservation, ExclusiveCreates
<1>3. ASSUME NEW r \in Runner, WriteReservation(r) PROVE TypeOK'
  BY <1>3 DEF WriteReservation
<1>4. ASSUME NEW r \in Runner, Invoke(r) PROVE TypeOK'
  BY <1>4 DEF Invoke, VerdictHeld
<1>5. ASSUME NEW r \in Runner, Receive(r) PROVE TypeOK'
  <2>1. \A a \in Answers : OutcomeOf(a) \in Outcomes /\ DecisionOf(a) \in Decisions
    BY VerdictType
  <2> QED
    BY <1>5, <2>1 DEF Receive
<1>6. ASSUME NEW r \in Runner, OpenCollection(r) PROVE TypeOK'
  BY <1>6 DEF OpenCollection, ExclusiveCreates
<1>7. ASSUME NEW r \in Runner, WriteCollection(r) PROVE TypeOK'
  BY <1>7 DEF WriteCollection, Content
<1>8. ASSUME NEW r \in Runner, FailCollection(r) PROVE TypeOK'
  BY <1>8 DEF FailCollection, Content
<1>9. ASSUME NEW r \in Runner, Catch(r) PROVE TypeOK'
  BY <1>9 DEF Catch
<1>10. ASSUME NEW r \in Runner, OpenFallback(r) PROVE TypeOK'
  BY <1>10 DEF OpenFallback, ExclusiveCreates
<1>11. ASSUME NEW r \in Runner, WriteFallback(r) PROVE TypeOK'
  BY <1>11 DEF WriteFallback, Content
<1>12. ASSUME NEW r \in Runner, FailFallback(r) PROVE TypeOK'
  BY <1>12 DEF FailFallback, Content
<1>13. ASSUME NEW r \in Runner, OpenReceipt(r) PROVE TypeOK'
  BY <1>13 DEF OpenReceipt, ExclusiveCreates
<1>14. ASSUME NEW r \in Runner, WriteReceipt(r) PROVE TypeOK'
  BY <1>14 DEF WriteReceipt, Content
<1>15. ASSUME NEW r \in Runner, FailReceipt(r) PROVE TypeOK'
  BY <1>15 DEF FailReceipt, Content
<1>16. CASE Edit
  BY <1>16 DEF Edit
<1>17. CASE UNCHANGED vars
  BY <1>17 DEF vars
<1> HIDE DEF Goto, TypeOK
<1> QED
  BY StepKinds, <1>1, <1>2, <1>3, <1>4, <1>5, <1>6, <1>7, <1>8, <1>9,
     <1>10, <1>11, <1>12, <1>13, <1>14, <1>15, <1>16, <1>17 DEF Acts

\* Only the reservation makes an owner, and only the owner measures or writes.
LEMMA OwnerStep ==
  ASSUME TypeOK, OwnerHeld, VerdictHeld, DiskHeld, [Next]_vars
  PROVE  OwnerHeld'
<1> USE NoRunnerAssumption
       DEF Goto, verdict, files, history, Blank, Result, Outcomes, Decisions, Steps,
           Answers, TypeOK, OwnerHeld, Owning
<1>1. ASSUME NEW r \in Runner, Idles(r) PROVE OwnerHeld'
  BY <1>1 DEF Idles
<1>2. ASSUME NEW r \in Runner, OpenReservation(r) PROVE OwnerHeld'
  BY <1>2 DEF OpenReservation, ExclusiveCreates
<1>3. ASSUME NEW r \in Runner, WriteReservation(r) PROVE OwnerHeld'
  BY <1>3 DEF WriteReservation
<1>4. ASSUME NEW r \in Runner, Invoke(r) PROVE OwnerHeld'
  BY <1>4 DEF Invoke, VerdictHeld
<1>5. ASSUME NEW r \in Runner, Receive(r) PROVE OwnerHeld'
  BY <1>5 DEF Receive
<1>6. ASSUME NEW r \in Runner, OpenCollection(r) PROVE OwnerHeld'
  BY <1>6 DEF OpenCollection, ExclusiveCreates
<1>7. ASSUME NEW r \in Runner, WriteCollection(r) PROVE OwnerHeld'
  BY <1>7 DEF WriteCollection, Content
<1>8. ASSUME NEW r \in Runner, FailCollection(r) PROVE OwnerHeld'
  BY <1>8 DEF FailCollection, Content
<1>9. ASSUME NEW r \in Runner, Catch(r) PROVE OwnerHeld'
  BY <1>9 DEF Catch
<1>10. ASSUME NEW r \in Runner, OpenFallback(r) PROVE OwnerHeld'
  BY <1>10 DEF OpenFallback, ExclusiveCreates
<1>11. ASSUME NEW r \in Runner, WriteFallback(r) PROVE OwnerHeld'
  BY <1>11 DEF WriteFallback, Content
<1>12. ASSUME NEW r \in Runner, FailFallback(r) PROVE OwnerHeld'
  BY <1>12 DEF FailFallback, Content
<1>13. ASSUME NEW r \in Runner, OpenReceipt(r) PROVE OwnerHeld'
  BY <1>13 DEF OpenReceipt, ExclusiveCreates
<1>14. ASSUME NEW r \in Runner, WriteReceipt(r) PROVE OwnerHeld'
  BY <1>14 DEF WriteReceipt, Content
<1>15. ASSUME NEW r \in Runner, FailReceipt(r) PROVE OwnerHeld'
  BY <1>15 DEF FailReceipt, Content
<1>16. CASE Edit
  BY <1>16 DEF Edit
<1>17. CASE UNCHANGED vars
  BY <1>17 DEF vars
<1> HIDE DEF Goto, TypeOK
<1> QED
  BY StepKinds, <1>1, <1>2, <1>3, <1>4, <1>5, <1>6, <1>7, <1>8, <1>9,
     <1>10, <1>11, <1>12, <1>13, <1>14, <1>15, <1>16, <1>17 DEF Acts

\* The verdict of the owner follows the answer, and the catch block after it.
LEMMA VerdictStep ==
  ASSUME TypeOK, OwnerHeld, VerdictHeld, [Next]_vars
  PROVE  VerdictHeld'
<1> USE NoRunnerAssumption
       DEF Goto, verdict, files, history, Blank, Result, Outcomes, Decisions, Steps,
           Answers, TypeOK, OwnerHeld, Owning, VerdictHeld, Measured, Unmeasured, Undecided,
           OutcomeOf, DecisionOf
<1>1. ASSUME NEW r \in Runner, Idles(r) PROVE VerdictHeld'
  BY <1>1 DEF Idles
<1>2. ASSUME NEW r \in Runner, OpenReservation(r) PROVE VerdictHeld'
  BY <1>2 DEF OpenReservation, ExclusiveCreates
<1>3. ASSUME NEW r \in Runner, WriteReservation(r) PROVE VerdictHeld'
  BY <1>3 DEF WriteReservation
<1>4. ASSUME NEW r \in Runner, Invoke(r) PROVE VerdictHeld'
  BY <1>4 DEF Invoke
<1>5. ASSUME NEW r \in Runner, Receive(r) PROVE VerdictHeld'
  BY <1>5 DEF Receive
<1>6. ASSUME NEW r \in Runner, OpenCollection(r) PROVE VerdictHeld'
  BY <1>6 DEF OpenCollection, ExclusiveCreates
<1>7. ASSUME NEW r \in Runner, WriteCollection(r) PROVE VerdictHeld'
  BY <1>7 DEF WriteCollection, Content
<1>8. ASSUME NEW r \in Runner, FailCollection(r) PROVE VerdictHeld'
  BY <1>8 DEF FailCollection, Content
<1>9. ASSUME NEW r \in Runner, Catch(r) PROVE VerdictHeld'
  BY <1>9 DEF Catch
<1>10. ASSUME NEW r \in Runner, OpenFallback(r) PROVE VerdictHeld'
  BY <1>10 DEF OpenFallback, ExclusiveCreates
<1>11. ASSUME NEW r \in Runner, WriteFallback(r) PROVE VerdictHeld'
  BY <1>11 DEF WriteFallback, Content
<1>12. ASSUME NEW r \in Runner, FailFallback(r) PROVE VerdictHeld'
  BY <1>12 DEF FailFallback, Content
<1>13. ASSUME NEW r \in Runner, OpenReceipt(r) PROVE VerdictHeld'
  BY <1>13 DEF OpenReceipt, ExclusiveCreates
<1>14. ASSUME NEW r \in Runner, WriteReceipt(r) PROVE VerdictHeld'
  BY <1>14 DEF WriteReceipt, Content
<1>15. ASSUME NEW r \in Runner, FailReceipt(r) PROVE VerdictHeld'
  BY <1>15 DEF FailReceipt, Content
<1>16. CASE Edit
  BY <1>16 DEF Edit
<1>17. CASE UNCHANGED vars
  BY <1>17 DEF vars
<1> HIDE DEF Goto, TypeOK
<1> QED
  BY StepKinds, <1>1, <1>2, <1>3, <1>4, <1>5, <1>6, <1>7, <1>8, <1>9,
     <1>10, <1>11, <1>12, <1>13, <1>14, <1>15, <1>16, <1>17 DEF Acts

\* The files follow the owner's steps.
LEMMA DiskStep ==
  ASSUME TypeOK, OwnerHeld, VerdictHeld, DiskHeld, [Next]_vars
  PROVE  DiskHeld'
<1> USE NoRunnerAssumption
       DEF Goto, verdict, files, history, Blank, Result, Outcomes, Decisions, Steps,
           Answers, TypeOK, OwnerHeld, Owning, VerdictHeld, DiskHeld, Undecided, Content
<1>1. ASSUME NEW r \in Runner, Idles(r) PROVE DiskHeld'
  <2>1. UNCHANGED <<policy, invocations, verdict, persisted, files, history>>
    BY <1>1 DEF Idles
  <2>2. PICK to \in Steps : pc' = [pc EXCEPT ![r] = to] /\ to \notin {"DONE", "RECEIPT_WRITE"}
    BY <1>1 DEF Idles
  <2>3. receipt'.state = "WRITTEN" => holder' \in Runner /\ pc'[holder'] \in {"DONE", "THROWN"}
    BY <1>1, <2>1 DEF Idles, Ended
  <2>4. ASSUME NEW q \in Runner, q # r
        PROVE  pc'[q] = pc[q] /\ Content(q)' = Content(q)
    BY <2>1, <2>2, <2>4 DEF Content
  <2>5. ASSUME pc'[r] \in {"CATCH", "RECEIPT"}
        PROVE  /\ receipt = Blank("ABSENT") /\ ~persisted[r]
               /\ pc'[r] = "RECEIPT" => decision[r] = Undecided
    BY <1>1, <2>5 DEF Idles
  <2> QED
    BY <1>1, <2>1, <2>2, <2>3, <2>4, <2>5 DEF Idles
<1>2. ASSUME NEW r \in Runner, OpenReservation(r) PROVE DiskHeld'
  BY <1>2 DEF OpenReservation, ExclusiveCreates
<1>3. ASSUME NEW r \in Runner, WriteReservation(r) PROVE DiskHeld'
  BY <1>3 DEF WriteReservation
<1>4. ASSUME NEW r \in Runner, Invoke(r) PROVE DiskHeld'
  BY <1>4 DEF Invoke
<1>5. ASSUME NEW r \in Runner, Receive(r) PROVE DiskHeld'
  BY <1>5 DEF Receive
<1>6. ASSUME NEW r \in Runner, OpenCollection(r) PROVE DiskHeld'
  BY <1>6 DEF OpenCollection, ExclusiveCreates
<1>7. ASSUME NEW r \in Runner, WriteCollection(r) PROVE DiskHeld'
  BY <1>7 DEF WriteCollection
<1>8. ASSUME NEW r \in Runner, FailCollection(r) PROVE DiskHeld'
  BY <1>8 DEF FailCollection
<1>9. ASSUME NEW r \in Runner, Catch(r) PROVE DiskHeld'
  BY <1>9 DEF Catch
<1>10. ASSUME NEW r \in Runner, OpenFallback(r) PROVE DiskHeld'
  BY <1>10 DEF OpenFallback, ExclusiveCreates
<1>11. ASSUME NEW r \in Runner, WriteFallback(r) PROVE DiskHeld'
  BY <1>11 DEF WriteFallback
<1>12. ASSUME NEW r \in Runner, FailFallback(r) PROVE DiskHeld'
  BY <1>12 DEF FailFallback
<1>13. ASSUME NEW r \in Runner, OpenReceipt(r) PROVE DiskHeld'
  BY <1>13 DEF OpenReceipt, ExclusiveCreates
<1>14. ASSUME NEW r \in Runner, WriteReceipt(r) PROVE DiskHeld'
  BY <1>14 DEF WriteReceipt
<1>15. ASSUME NEW r \in Runner, FailReceipt(r) PROVE DiskHeld'
  BY <1>15 DEF FailReceipt
<1>16. CASE Edit
  BY <1>16 DEF Edit
<1>17. CASE UNCHANGED vars
  BY <1>17 DEF vars
<1> HIDE DEF Goto, TypeOK
<1> QED
  BY StepKinds, <1>1, <1>2, <1>3, <1>4, <1>5, <1>6, <1>7, <1>8, <1>9,
     <1>10, <1>11, <1>12, <1>13, <1>14, <1>15, <1>16, <1>17 DEF Acts

\* What is written counts the call, and no call is made once something is written.
LEMMA CountStep ==
  ASSUME TypeOK, OwnerHeld, VerdictHeld, DiskHeld, FilesCountTheCall, [Next]_vars
  PROVE  FilesCountTheCall'
<1> USE NoRunnerAssumption
       DEF Goto, verdict, files, history, Blank, Result, Outcomes, Decisions, Steps,
           Answers, TypeOK, OwnerHeld, Owning, VerdictHeld, Measured, Unmeasured, OutcomeOf,
           DiskHeld, FilesCountTheCall
<1>1. ASSUME NEW r \in Runner, Idles(r) PROVE FilesCountTheCall'
  BY <1>1 DEF Idles
<1>2. ASSUME NEW r \in Runner, OpenReservation(r) PROVE FilesCountTheCall'
  BY <1>2 DEF OpenReservation, ExclusiveCreates
<1>3. ASSUME NEW r \in Runner, WriteReservation(r) PROVE FilesCountTheCall'
  BY <1>3 DEF WriteReservation
<1>4. ASSUME NEW r \in Runner, Invoke(r) PROVE FilesCountTheCall'
  BY <1>4 DEF Invoke
<1>5. ASSUME NEW r \in Runner, Receive(r) PROVE FilesCountTheCall'
  BY <1>5 DEF Receive
<1>6. ASSUME NEW r \in Runner, OpenCollection(r) PROVE FilesCountTheCall'
  BY <1>6 DEF OpenCollection, ExclusiveCreates
<1>7. ASSUME NEW r \in Runner, WriteCollection(r) PROVE FilesCountTheCall'
  BY <1>7 DEF WriteCollection, Content
<1>8. ASSUME NEW r \in Runner, FailCollection(r) PROVE FilesCountTheCall'
  BY <1>8 DEF FailCollection, Content
<1>9. ASSUME NEW r \in Runner, Catch(r) PROVE FilesCountTheCall'
  BY <1>9 DEF Catch
<1>10. ASSUME NEW r \in Runner, OpenFallback(r) PROVE FilesCountTheCall'
  BY <1>10 DEF OpenFallback, ExclusiveCreates
<1>11. ASSUME NEW r \in Runner, WriteFallback(r) PROVE FilesCountTheCall'
  BY <1>11 DEF WriteFallback, Content
<1>12. ASSUME NEW r \in Runner, FailFallback(r) PROVE FilesCountTheCall'
  BY <1>12 DEF FailFallback, Content
<1>13. ASSUME NEW r \in Runner, OpenReceipt(r) PROVE FilesCountTheCall'
  BY <1>13 DEF OpenReceipt, ExclusiveCreates
<1>14. ASSUME NEW r \in Runner, WriteReceipt(r) PROVE FilesCountTheCall'
  BY <1>14 DEF WriteReceipt, Content
<1>15. ASSUME NEW r \in Runner, FailReceipt(r) PROVE FilesCountTheCall'
  BY <1>15 DEF FailReceipt, Content
<1>16. CASE Edit
  BY <1>16 DEF Edit
<1>17. CASE UNCHANGED vars
  BY <1>17 DEF vars
<1> HIDE DEF Goto, TypeOK
<1> QED
  BY StepKinds, <1>1, <1>2, <1>3, <1>4, <1>5, <1>6, <1>7, <1>8, <1>9,
     <1>10, <1>11, <1>12, <1>13, <1>14, <1>15, <1>16, <1>17 DEF Acts

\* The receipt is written from what the collection was written from.
LEMMA MatchStep ==
  ASSUME TypeOK, OwnerHeld, VerdictHeld, DiskHeld, ReceiptMatchesCollection, [Next]_vars
  PROVE  ReceiptMatchesCollection'
<1> USE NoRunnerAssumption
       DEF Goto, verdict, files, history, Blank, Result, Outcomes, Decisions, Steps,
           Answers, TypeOK, OwnerHeld, Owning, VerdictHeld, Undecided, DiskHeld,
           ReceiptMatchesCollection, Content
<1>1. ASSUME NEW r \in Runner, Idles(r) PROVE ReceiptMatchesCollection'
  BY <1>1 DEF Idles
<1>2. ASSUME NEW r \in Runner, OpenReservation(r) PROVE ReceiptMatchesCollection'
  BY <1>2 DEF OpenReservation, ExclusiveCreates
<1>3. ASSUME NEW r \in Runner, WriteReservation(r) PROVE ReceiptMatchesCollection'
  BY <1>3 DEF WriteReservation
<1>4. ASSUME NEW r \in Runner, Invoke(r) PROVE ReceiptMatchesCollection'
  BY <1>4 DEF Invoke
<1>5. ASSUME NEW r \in Runner, Receive(r) PROVE ReceiptMatchesCollection'
  BY <1>5 DEF Receive
<1>6. ASSUME NEW r \in Runner, OpenCollection(r) PROVE ReceiptMatchesCollection'
  BY <1>6 DEF OpenCollection, ExclusiveCreates
<1>7. ASSUME NEW r \in Runner, WriteCollection(r) PROVE ReceiptMatchesCollection'
  BY <1>7 DEF WriteCollection
<1>8. ASSUME NEW r \in Runner, FailCollection(r) PROVE ReceiptMatchesCollection'
  BY <1>8 DEF FailCollection
<1>9. ASSUME NEW r \in Runner, Catch(r) PROVE ReceiptMatchesCollection'
  BY <1>9 DEF Catch
<1>10. ASSUME NEW r \in Runner, OpenFallback(r) PROVE ReceiptMatchesCollection'
  BY <1>10 DEF OpenFallback, ExclusiveCreates
<1>11. ASSUME NEW r \in Runner, WriteFallback(r) PROVE ReceiptMatchesCollection'
  BY <1>11 DEF WriteFallback
<1>12. ASSUME NEW r \in Runner, FailFallback(r) PROVE ReceiptMatchesCollection'
  BY <1>12 DEF FailFallback
<1>13. ASSUME NEW r \in Runner, OpenReceipt(r) PROVE ReceiptMatchesCollection'
  BY <1>13 DEF OpenReceipt, ExclusiveCreates
<1>14. ASSUME NEW r \in Runner, WriteReceipt(r) PROVE ReceiptMatchesCollection'
  BY <1>14 DEF WriteReceipt
<1>15. ASSUME NEW r \in Runner, FailReceipt(r) PROVE ReceiptMatchesCollection'
  BY <1>15 DEF FailReceipt
<1>16. CASE Edit
  BY <1>16 DEF Edit
<1>17. CASE UNCHANGED vars
  BY <1>17 DEF vars
<1> HIDE DEF Goto, TypeOK
<1> QED
  BY StepKinds, <1>1, <1>2, <1>3, <1>4, <1>5, <1>6, <1>7, <1>8, <1>9,
     <1>10, <1>11, <1>12, <1>13, <1>14, <1>15, <1>16, <1>17 DEF Acts

\* What is on disk is something a review knows, and was measured.
LEMMA MeasureStep ==
  ASSUME TypeOK, OwnerHeld, VerdictHeld, DiskHeld, DecisionIsMeasured, [Next]_vars
  PROVE  DecisionIsMeasured'
<1> USE NoRunnerAssumption
       DEF Goto, verdict, files, history, Blank, Result, Outcomes, Decisions, Steps,
           Answers, TypeOK, OwnerHeld, Owning, VerdictHeld, DiskHeld, DecisionIsMeasured
<1>1. ASSUME NEW r \in Runner, Idles(r) PROVE DecisionIsMeasured'
  BY <1>1 DEF Idles
<1>2. ASSUME NEW r \in Runner, OpenReservation(r) PROVE DecisionIsMeasured'
  BY <1>2 DEF OpenReservation, ExclusiveCreates
<1>3. ASSUME NEW r \in Runner, WriteReservation(r) PROVE DecisionIsMeasured'
  BY <1>3 DEF WriteReservation
<1>4. ASSUME NEW r \in Runner, Invoke(r) PROVE DecisionIsMeasured'
  BY <1>4 DEF Invoke
<1>5. ASSUME NEW r \in Runner, Receive(r) PROVE DecisionIsMeasured'
  BY <1>5 DEF Receive
<1>6. ASSUME NEW r \in Runner, OpenCollection(r) PROVE DecisionIsMeasured'
  BY <1>6 DEF OpenCollection, Collections
<1>7. ASSUME NEW r \in Runner, WriteCollection(r) PROVE DecisionIsMeasured'
  <2>1. collection' \in {Blank("PARTIAL"), Content(r)} /\ UNCHANGED <<policy, receipt, answered>>
    BY <1>7 DEF WriteCollection
  <2>2. collection' \in Collections(policy)
    BY <1>7, <2>1, ContentIsMeasured DEF WriteCollection, Collections
  <2> QED
    BY <1>7, <2>1, <2>2, ContentIsMeasured DEF WriteCollection
<1>8. ASSUME NEW r \in Runner, FailCollection(r) PROVE DecisionIsMeasured'
  <2>1. collection' \in {Blank("PARTIAL"), Content(r)} /\ UNCHANGED <<policy, receipt, answered>>
    BY <1>8 DEF FailCollection
  <2>2. collection' \in Collections(policy)
    BY <1>8, <2>1, ContentIsMeasured DEF FailCollection, Collections
  <2> QED
    BY <1>8, <2>1, <2>2, ContentIsMeasured DEF FailCollection
<1>9. ASSUME NEW r \in Runner, Catch(r) PROVE DecisionIsMeasured'
  BY <1>9 DEF Catch
<1>10. ASSUME NEW r \in Runner, OpenFallback(r) PROVE DecisionIsMeasured'
  BY <1>10 DEF OpenFallback, Collections
<1>11. ASSUME NEW r \in Runner, WriteFallback(r) PROVE DecisionIsMeasured'
  <2>1. collection' \in {Blank("PARTIAL"), Content(r)} /\ UNCHANGED <<policy, receipt, answered>>
    BY <1>11 DEF WriteFallback
  <2>2. collection' \in Collections(policy)
    BY <1>11, <2>1, ContentIsMeasured DEF WriteFallback, Collections
  <2> QED
    BY <1>11, <2>1, <2>2, ContentIsMeasured DEF WriteFallback
<1>12. ASSUME NEW r \in Runner, FailFallback(r) PROVE DecisionIsMeasured'
  <2>1. collection' \in {Blank("PARTIAL"), Content(r)} /\ UNCHANGED <<policy, receipt, answered>>
    BY <1>12 DEF FailFallback
  <2>2. collection' \in Collections(policy)
    BY <1>12, <2>1, ContentIsMeasured DEF FailFallback, Collections
  <2> QED
    BY <1>12, <2>1, <2>2, ContentIsMeasured DEF FailFallback
<1>13. ASSUME NEW r \in Runner, OpenReceipt(r) PROVE DecisionIsMeasured'
  BY <1>13 DEF OpenReceipt, ExclusiveCreates
<1>14. ASSUME NEW r \in Runner, WriteReceipt(r) PROVE DecisionIsMeasured'
  <2>1. receipt' \in {receipt, Content(r)} /\ UNCHANGED <<policy, collection, answered>>
    BY <1>14 DEF WriteReceipt
  <2> QED
    BY <1>14, <2>1, ContentIsMeasured DEF WriteReceipt
<1>15. ASSUME NEW r \in Runner, FailReceipt(r) PROVE DecisionIsMeasured'
  <2>1. CASE receipt' = receipt
    BY <1>15, <2>1 DEF FailReceipt
  <2>2. CASE receipt' = Content(r) /\ pc[r] = "RECEIPT_WRITE"
    BY <1>15, <2>2, ContentIsMeasured DEF FailReceipt
  <2> QED
    BY <1>15, <2>1, <2>2 DEF FailReceipt
<1>16. CASE Edit
  BY <1>16 DEF Edit
<1>17. CASE UNCHANGED vars
  BY <1>17 DEF vars
<1> HIDE DEF Goto, TypeOK
<1> QED
  BY StepKinds, <1>1, <1>2, <1>3, <1>4, <1>5, <1>6, <1>7, <1>8, <1>9,
     <1>10, <1>11, <1>12, <1>13, <1>14, <1>15, <1>16, <1>17 DEF Acts

-----------------------------------------------------------------------------

Inductive == FilesAgree /\ DecisionIsMeasured

\* FilesAgree with DecisionIsMeasured is inductive.
LEMMA Induction == Init => Inductive
<1> SUFFICES ASSUME Init PROVE Inductive
  OBVIOUS
<1> USE NoRunnerAssumption, NoVersionAssumption DEF Init, Blank, Result
<1>1. TypeOK
  BY DEF TypeOK, Outcomes, Decisions, Steps
<1>2. FilesCountTheCall /\ ReceiptMatchesCollection
  BY DEF FilesCountTheCall, ReceiptMatchesCollection
<1>3. OwnerHeld /\ VerdictHeld /\ DiskHeld
  BY DEF OwnerHeld, VerdictHeld, DiskHeld, Owning
<1>4. DecisionIsMeasured
  BY DEF DecisionIsMeasured, Collections
<1> QED
  BY <1>1, <1>2, <1>3, <1>4 DEF Inductive, FilesAgree

LEMMA Invariance == Spec => []Inductive
<1>1. Inductive /\ [Next]_vars => Inductive'
  BY TypeStep, OwnerStep, VerdictStep, DiskStep, CountStep, MatchStep, MeasureStep
     DEF Inductive, FilesAgree
<1> QED
  BY Induction, <1>1, PTL DEF Spec

\* In every reachable state the two files that survive the campaign count the
\* call that was made, and a receipt that says the collection was persisted is
\* the collection, word for word.
THEOREM Agreement == Spec => []FilesAgree
<1>1. Inductive => FilesAgree
  BY DEF Inductive
<1> QED
  BY Invariance, <1>1, PTL

\* In every reachable state the collection is one a review knows, and its
\* verdict, and that of the receipt, rests on the answer it claims to rest on.
THEOREM Measurement == Spec => []DecisionIsMeasured
<1>1. Inductive => DecisionIsMeasured
  BY DEF Inductive
<1> QED
  BY Invariance, <1>1, PTL

\* No step of any runner changes a file of the campaign that is whole.
THEOREM Finality == Spec => FilesAreFinal
<1>1. ASSUME Inductive, [Next]_vars
      PROVE  [/\ reservation = "WRITTEN" => reservation' = reservation
              /\ collection.state = "WRITTEN" => collection' = collection
              /\ receipt.state = "WRITTEN" => receipt' = receipt]_vars
  <2> USE DEF Goto, files, Blank, Result, ExclusiveCreates
  <2>1. ASSUME NEW r \in Runner, Acts(r) PROVE reservation = "WRITTEN" => reservation' = reservation
    BY <1>1, <2>1
       DEF Acts, Idles, OpenReservation, WriteReservation, Invoke, Receive, OpenCollection,
           WriteCollection, FailCollection, Catch, OpenFallback, WriteFallback, FailFallback,
           OpenReceipt, WriteReceipt, FailReceipt, Inductive, FilesAgree, OwnerHeld
  <2>2. ASSUME NEW r \in Runner, Acts(r)
        PROVE  collection.state = "WRITTEN" => collection' = collection
    <3>1. pc[r] \in {"COLLECT_WRITE", "FALLBACK_WRITE"} => collection.state # "WRITTEN"
      BY <1>1 DEF Inductive, FilesAgree, DiskHeld
    <3> QED
      BY <2>2, <3>1
         DEF Acts, Idles, OpenReservation, WriteReservation, Invoke, Receive, OpenCollection,
             WriteCollection, FailCollection, Catch, OpenFallback, WriteFallback, FailFallback,
             OpenReceipt, WriteReceipt, FailReceipt
  <2>3. ASSUME NEW r \in Runner, Acts(r) PROVE receipt.state = "WRITTEN" => receipt' = receipt
    <3>1. pc[r] = "RECEIPT_WRITE" => receipt.state # "WRITTEN"
      BY <1>1 DEF Inductive, FilesAgree, DiskHeld
    <3> QED
      BY <2>3, <3>1
         DEF Acts, Idles, OpenReservation, WriteReservation, Invoke, Receive, OpenCollection,
             WriteCollection, FailCollection, Catch, OpenFallback, WriteFallback, FailFallback,
             OpenReceipt, WriteReceipt, FailReceipt
  <2>4. CASE Edit
    BY <2>4 DEF Edit
  <2> QED
    BY <1>1, <2>1, <2>2, <2>3, <2>4, StepKinds
<1> QED
  BY Invariance, <1>1, PTL DEF Spec, FilesAreFinal

\* The canary implements the invocation budget of one key: opening the
\* reservation is Take, calling the provider is Spend, all else is a stutter.
THEOREM Implementation == Spec => ImplementsBudget
<1> DEFINE heldBy == [k \in {"campaign"} |-> holder]
           spentOn == [k \in {"campaign"} |-> calls]
<1>1. Init => Budget!Init
  BY DEF Init, Budget!Init
<1>2. ASSUME Inductive, [Next]_vars PROVE [Budget!Next]_<<heldBy, spentOn>>
  <2>1. ASSUME NEW r \in Runner, OpenReservation(r) PROVE Budget!Take(r, "campaign")
    BY <1>2, <2>1 DEF OpenReservation, ExclusiveCreates, Inductive, FilesAgree, OwnerHeld, Budget!Take
  <2>2. ASSUME NEW r \in Runner, Invoke(r) PROVE Budget!Spend(r, "campaign")
    <3>1. holder = r /\ calls = 0
      BY <1>2, <2>2
         DEF Invoke, Goto, Inductive, FilesAgree, OwnerHeld, VerdictHeld, Owning, Steps
    <3> QED
      BY <2>2, <3>1 DEF Invoke, Budget!Spend
  <2>3. ASSUME NEW r \in Runner, Acts(r), ~OpenReservation(r), ~Invoke(r)
        PROVE  UNCHANGED <<holder, calls>>
    BY <2>3
       DEF Acts, Idles, history, WriteReservation, Receive, OpenCollection, WriteCollection,
           FailCollection, Catch, OpenFallback, WriteFallback, FailFallback, OpenReceipt,
           WriteReceipt, FailReceipt
  <2>4. Edit => UNCHANGED <<holder, calls>>
    BY DEF Edit, history
  <2>5. UNCHANGED vars => UNCHANGED <<holder, calls>>
    BY DEF vars, history
  <2>6. UNCHANGED <<holder, calls>> => UNCHANGED <<heldBy, spentOn>>
    OBVIOUS
  <2> HIDE DEF heldBy, spentOn
  <2> QED
    BY <1>2, <2>1, <2>2, <2>3, <2>4, <2>5, <2>6, StepKinds DEF Budget!Next
<1> QED
  BY Invariance, <1>1, <1>2, PTL DEF Spec, ImplementsBudget, Budget!Spec, Budget!budget
=============================================================================
