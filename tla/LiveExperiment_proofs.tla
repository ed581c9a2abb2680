----------------------- MODULE LiveExperiment_proofs -----------------------
(***************************************************************************)
(* Proofs about a campaign of live experiments, for any terminals, any      *)
(* kinds of experiments and any instruments.                                *)
(*                                                                          *)
(* The inductive invariant is Inductive: the order of the calls, the        *)
(* agreement of the evidence and the gates, which need one another.  After  *)
(* the facts about one record of run come those about the creation of a     *)
(* file, then the parts of the invariant, each with one step per action     *)
(* and each from the parts it names; the promises and the refinement of     *)
(* the invocation budget follow.                                            *)
(***************************************************************************)
EXTENDS LiveExperiment, FiniteSetTheorems, TLAPS

\* What can happen at a terminal.
StepOf(t) ==
  \/ Step(t) \/ Kill(t)
  \/ \E command \in Kind \cup {"freeze", "report"} : Start(t, command)

\* The same, as a list of actions.
Acts(t) ==
  \/ Abort(t) \/ Fingerprint(t) \/ CreateFreeze(t) \/ WriteFreeze(t) \/ FailFreeze(t)
  \/ ReadEvidence(t) \/ ReadTraces(t) \/ OpenReports(t) \/ FinishReports(t) \/ FailReports(t)
  \/ /\ kind(t) \in Kind
     /\ \/ LoadFreeze(t) \/ AssertFreezeCurrent(t) \/ PassGate(t) \/ Reserve(t)
        \/ RefuseReservation(t) \/ Record(t) \/ ListReservations(t) \/ OpenLedger(t)
        \/ WriteLedger(t) \/ FailReservation(t) \/ Invoke(t) \/ FailIsolation(t) \/ ProviderThrows(t)
        \/ ProviderAnswers(t) \/ WriteRaw(t) \/ FailRaw(t) \/ LoseRaw(t) \/ Persisted(t)
        \/ FailRelease(t) \/ Catch(t) \/ OpenCurated(t) \/ WriteCurated(t) \/ FailCuration(t)
        \/ Dispose(t) \/ FailDispose(t) \/ Kill(t)
  \/ \E command \in Kind \cup {"freeze", "report"} : Start(t, command)

LEMMA StepKinds == ASSUME NEW t \in Terminal, StepOf(t) PROVE Acts(t)
<1>1. Kill(t) => kind(t) \in Kind
  BY DEF Kill, Spending
<1>2. Kill(t) => Acts(t)
  BY <1>1, Zenon DEF Acts
<1>3. (\E command \in Kind \cup {"freeze", "report"} : Start(t, command)) => Acts(t)
  BY DEF Acts
<1>4. Freezing(t) \/ Reporting(t) \/ Abort(t) => Acts(t)
  BY Zenon DEF Freezing, Reporting, Acts
<1>5. kind(t) \in Kind /\ Experimenting(t) => Acts(t)
  BY Zenon DEF Experimenting, Reserving, Invoking, Curating, Acts
<1> QED
  BY <1>2, <1>3, <1>4, <1>5, Zenon DEF StepOf, Step

\* The writes under way are writes.
LEMMA WritesType ==
  /\ \A s \in Status, b \in {1, 2} : Batch(s, b) \in Writes
  /\ \A w, v \in Writes : w \cup v \in Writes
  /\ \A w \in Writes : \A x : w \ {x} \in Writes
BY DEF Batch, Write, Writes, RawFile

\* Replacing a local state by another one.
LEMMA Update ==
  ASSUME run \in [Terminal -> RunOf], NEW t \in Terminal, NEW e \in RunOf,
         run' = [run EXCEPT ![t] = e]
  PROVE  run' \in [Terminal -> RunOf]
OBVIOUS

LEMMA RecordUpdate ==
  ASSUME NEW e \in RunOf, NEW p \in Steps, NEW a \in Status, NEW w \in Writes
  PROVE  /\ [e EXCEPT !.pc = p, !.answer = a, !.pending = w] \in RunOf
         /\ [e EXCEPT !.pending = w, !.pc = p] \in RunOf
         /\ [e EXCEPT !.pc = p, !.verdict = a] \in RunOf
BY DEF RunOf

\* The ledger, whole or torn, has its type and lists what was seen.
LEMMA LedgersType ==
  ASSUME NEW t \in Terminal, run[t] \in RunOf
  PROVE  \A l \in LedgersLeft(t) :
           /\ l \in [state : {"ABSENT", "TORN", "WHOLE"}, kinds : Kinds]
           /\ l.kinds \subseteq run[t].listed
<1> DEFINE whole == [state |-> "WHOLE", kinds |-> run[t].listed]
           torn == [state |-> "TORN", kinds |-> {}]
<1>1. run[t].listed \in Kinds /\ {} \in Kinds
  BY DEF RunOf, Kinds
<1>2. \A l \in {whole, torn} : /\ l \in [state : {"ABSENT", "TORN", "WHOLE"}, kinds : Kinds]
                              /\ l.kinds \subseteq run[t].listed
  BY <1>1
<1>3. LedgersLeft(t) \subseteq {whole, torn}
  BY DEF LedgersLeft
<1> QED
  BY <1>2, <1>3

\* A write that fails is one of those waited for.
LEMMA FailedWrite ==
  ASSUME NEW t \in Terminal, FailRaw(t)
  PROVE  \E w \in run[t].pending, p \in {"CATCH", "DISPOSE"} :
           /\ GiveUp(t, w, p)
           /\ (At(t, "PERSIST") /\ p = "CATCH") \/ (At(t, "PERSIST_ERROR") /\ p = "DISPOSE")
           /\ w \in Current(t)
           /\ \E c \in {"TORN", w.content} : raw' = [raw EXCEPT ![kind(t)][w.file] = c]
<1>1. PICK w \in Current(t) :
        /\ \/ At(t, "PERSIST") /\ GiveUp(t, w, "CATCH")
           \/ At(t, "PERSIST_ERROR") /\ GiveUp(t, w, "DISPOSE")
        /\ \E c \in {"TORN", w.content} : raw' = [raw EXCEPT ![kind(t)][w.file] = c]
  BY Zenon DEF FailRaw
<1>2. w \in run[t].pending
  BY DEF Current
<1> QED
  BY <1>1, <1>2, Zenon

LEMMA OneMore ==
  ASSUME NEW S, NEW n \in Nat, IsFiniteSet(S), Cardinality(S) <= n, NEW x
  PROVE  IsFiniteSet(S \cup {x}) /\ Cardinality(S \cup {x}) <= n + 1
<1>1. /\ IsFiniteSet(S \cup {x})
      /\ Cardinality(S \cup {x}) = Cardinality(S) \/ Cardinality(S \cup {x}) = Cardinality(S) + 1
  BY FS_AddElement, Zenon
<1>2. Cardinality(S) \in Nat
  BY FS_CardinalityType
<1> QED
  BY <1>1, <1>2

\* There are three kinds at the most.
LEMMA Three == \A S : S \subseteq Kind => ~(Cardinality(S) > Budget)
<1> DEFINE E1 == {"e1"}
           E2 == E1 \cup {"e2-baseline"}
           E3 == E2 \cup {"e2-deep"}
<1>1. IsFiniteSet(E1) /\ Cardinality(E1) = 1
  BY FS_Singleton, Zenon
<1>4. Kind \subseteq E3
  BY KindAssumption
<1> HIDE DEF E1
<1>2. IsFiniteSet(E2) /\ Cardinality(E2) <= 1 + 1
  <2>1. Cardinality(E1) <= 1 /\ 1 \in Nat
    BY <1>1
  <2> QED
    BY <1>1, <2>1, OneMore, Zenon
<1> HIDE DEF E2
<1>3. IsFiniteSet(E3) /\ Cardinality(E3) <= (1 + 1) + 1
  <2>1. 1 + 1 \in Nat
    OBVIOUS
  <2> QED
    BY <1>2, <2>1, OneMore, Zenon
<1> HIDE DEF E3
<1>5. ASSUME NEW S, S \subseteq Kind PROVE ~(Cardinality(S) > 3)
  <2>1. S \subseteq E3
    BY <1>4, <1>5
  <2>2. Cardinality(E3) \in Nat /\ Cardinality(S) <= Cardinality(E3) /\ Cardinality(S) \in Nat
    BY <1>3, <2>1, FS_Subset, FS_CardinalityType
  <2> QED
    BY <1>3, <2>2
<1> QED
  BY <1>5 DEF Budget

\* No step leaves the type of the local states.
LEMMA RunStep ==
  ASSUME TypeOK, EvidenceHeld, NEW t \in Terminal, StepOf(t)
  PROVE  run' \in [Terminal -> RunOf]
<1> USE DEF kind, At, MoveTo, Stop, Blame, files, history, Idle, RunOf, Steps, Command, Status
<1>r. run \in [Terminal -> RunOf] /\ run[t] \in RunOf /\ {} \in Kinds /\ {} \in Writes
      /\ instrument \in Version
  BY DEF TypeOK, Kinds, Writes
<1>1. ASSUME Abort(t) PROVE run' \in [Terminal -> RunOf]
  BY <1>r, <1>1 DEF Abort
<1>2. ASSUME Fingerprint(t) PROVE run' \in [Terminal -> RunOf]
  BY <1>r, <1>2 DEF Fingerprint
<1>3. ASSUME CreateFreeze(t) PROVE run' \in [Terminal -> RunOf]
  BY <1>r, <1>3 DEF CreateFreeze, ExclusiveCreates
<1>4. ASSUME WriteFreeze(t) PROVE run' \in [Terminal -> RunOf]
  BY <1>r, <1>4 DEF WriteFreeze
<1>5. ASSUME FailFreeze(t) PROVE run' \in [Terminal -> RunOf]
  BY <1>r, <1>5 DEF FailFreeze
<1>6. ASSUME LoadFreeze(t), kind(t) \in Kind PROVE run' \in [Terminal -> RunOf]
  BY <1>r, <1>6 DEF LoadFreeze
<1>7. ASSUME AssertFreezeCurrent(t), kind(t) \in Kind PROVE run' \in [Terminal -> RunOf]
  BY <1>r, <1>7 DEF AssertFreezeCurrent
<1>8. ASSUME PassGate(t), kind(t) \in Kind PROVE run' \in [Terminal -> RunOf]
  BY <1>r, <1>8 DEF PassGate, BaselineCanaryPassed
<1>9. ASSUME Reserve(t), kind(t) \in Kind PROVE run' \in [Terminal -> RunOf]
  BY <1>r, <1>9 DEF Reserve, ExclusiveCreates
<1>10. ASSUME RefuseReservation(t), kind(t) \in Kind PROVE run' \in [Terminal -> RunOf]
  BY <1>r, <1>10 DEF RefuseReservation
<1>11. ASSUME Record(t), kind(t) \in Kind PROVE run' \in [Terminal -> RunOf]
  BY <1>r, <1>11 DEF Record
<1>12. ASSUME ListReservations(t), kind(t) \in Kind PROVE run' \in [Terminal -> RunOf]
  <2> DEFINE list == {k \in Kind : reservation[k] # "ABSENT"}
  <2>1. list \in Kinds
    BY DEF Kinds
  <2> HIDE DEF list
  <2> QED
    BY <1>r, <2>1, <1>12 DEF ListReservations, list
<1>13. ASSUME WriteLedger(t), kind(t) \in Kind PROVE run' \in [Terminal -> RunOf]
  BY <1>r, <1>13 DEF WriteLedger, LedgersLeft
<1>14. ASSUME FailReservation(t), kind(t) \in Kind PROVE run' \in [Terminal -> RunOf]
  BY <1>r, <1>14 DEF FailReservation, LedgersLeft
<1>15. ASSUME Invoke(t), kind(t) \in Kind PROVE run' \in [Terminal -> RunOf]
  BY <1>r, <1>15 DEF Invoke
<1>16. ASSUME FailIsolation(t), kind(t) \in Kind PROVE run' \in [Terminal -> RunOf]
  BY <1>r, <1>16 DEF FailIsolation
<1>17. ASSUME ProviderThrows(t), kind(t) \in Kind PROVE run' \in [Terminal -> RunOf]
  BY <1>r, <1>17 DEF ProviderThrows
<1>18. ASSUME ProviderAnswers(t), kind(t) \in Kind PROVE run' \in [Terminal -> RunOf]
  <2>1. PICK a \in Status : run' = [run EXCEPT ![t] =
          [@ EXCEPT !.pc = "PERSIST", !.answer = a, !.pending = Batch(a, 1)]]
    BY <1>18 DEF ProviderAnswers
  <2> DEFINE e == [run[t] EXCEPT !.pc = "PERSIST", !.answer = a, !.pending = Batch(a, 1)]
  <2>2. Batch(a, 1) \in Writes /\ "PERSIST" \in Steps
    BY WritesType
  <2>3. run' = [run EXCEPT ![t] = e]
    BY <2>1
  <2> HIDE DEF Steps, Status, RunOf
  <2>4. e \in RunOf
    BY <1>r, <2>2, RecordUpdate, Zenon
  <2> HIDE DEF e
  <2> QED
    BY <1>r, <2>3, <2>4, Update
<1>19. ASSUME WriteRaw(t), kind(t) \in Kind PROVE run' \in [Terminal -> RunOf]
  <2>1. PICK less \in Writes : run' = [run EXCEPT ![t].pending = less]
    BY <1>r, WritesType, <1>19 DEF WriteRaw
  <2> QED
    BY <1>r, <2>1
<1>20. ASSUME FailRaw(t), kind(t) \in Kind PROVE run' \in [Terminal -> RunOf]
  <2>1. PICK w \in run[t].pending, p \in {"CATCH", "DISPOSE"} : GiveUp(t, w, p)
    BY <1>20, FailedWrite
  <2> DEFINE e == [run[t] EXCEPT !.pending = run[t].pending \ {w}, !.pc = p]
  <2>2. run[t].pending \in Writes /\ p \in Steps
    BY <1>r
  <2>3. run[t].pending \ {w} \in Writes
    BY <2>2, WritesType
  <2>4. run' = [run EXCEPT ![t] = e]
    BY <2>1, Zenon DEF GiveUp
  <2> HIDE DEF Steps, RunOf
  <2>5. e \in RunOf
    BY <1>r, <2>2, <2>3, RecordUpdate, Zenon
  <2> HIDE DEF e
  <2> QED
    BY <1>r, <2>4, <2>5, Update
<1>21. ASSUME LoseRaw(t), kind(t) \in Kind PROVE run' \in [Terminal -> RunOf]
  <2>1. PICK less \in Writes : run' = [run EXCEPT ![t].pending = less]
    BY <1>r, WritesType, <1>21 DEF LoseRaw
  <2> QED
    BY <1>r, <2>1
<1>22. ASSUME Persisted(t), kind(t) \in Kind PROVE run' \in [Terminal -> RunOf]
  BY <1>r, <1>22 DEF Persisted, Current
<1>23. ASSUME FailRelease(t), kind(t) \in Kind PROVE run' \in [Terminal -> RunOf]
  BY <1>r, <1>23 DEF FailRelease, Current
<1>24. ASSUME Catch(t), kind(t) \in Kind PROVE run' \in [Terminal -> RunOf]
  <2> DEFINE e == [run[t] EXCEPT !.pc = "PERSIST_ERROR", !.answer = "ERROR",
                              !.pending = run[t].pending \cup Batch("ERROR", 2)]
  <2>1. run[t].pending \in Writes /\ "PERSIST_ERROR" \in Steps /\ "ERROR" \in Status
    BY <1>r
  <2>2. run[t].pending \cup Batch("ERROR", 2) \in Writes
    BY <2>1, WritesType
  <2>3. run' = [run EXCEPT ![t] = e]
    BY <1>24, Zenon DEF Catch
  <2> HIDE DEF Steps, Status, RunOf
  <2>4. e \in RunOf
    BY <1>r, <2>1, <2>2, RecordUpdate, Zenon
  <2> HIDE DEF e
  <2> QED
    BY <1>r, <2>3, <2>4, Update
<1>25. ASSUME OpenCurated(t), kind(t) \in Kind PROVE run' \in [Terminal -> RunOf]
  BY <1>r, <1>25 DEF OpenCurated
<1>26. ASSUME WriteCurated(t), kind(t) \in Kind PROVE run' \in [Terminal -> RunOf]
  <2>1. PICK a \in Status : run' = [run EXCEPT ![t] = [@ EXCEPT !.pc = "DISPOSE", !.verdict = a]]
    BY <1>26 DEF WriteCurated, EvidenceHeld, EvidenceOf, Owns, Owning, StageOf
  <2> DEFINE e == [run[t] EXCEPT !.pc = "DISPOSE", !.verdict = a]
  <2>2. "DISPOSE" \in Steps /\ {} \in Writes
    BY <1>r
  <2>3. run' = [run EXCEPT ![t] = e]
    BY <2>1
  <2> HIDE DEF Steps, Status, RunOf
  <2>4. e \in RunOf
    BY <1>r, <2>2, RecordUpdate, Zenon
  <2> HIDE DEF e
  <2> QED
    BY <1>r, <2>3, <2>4, Update
<1>27. ASSUME FailCuration(t), kind(t) \in Kind PROVE run' \in [Terminal -> RunOf]
  BY <1>r, <1>27 DEF FailCuration
<1>28. ASSUME Dispose(t), kind(t) \in Kind PROVE run' \in [Terminal -> RunOf]
  BY <1>r, <1>28 DEF Dispose, Leave
<1>29. ASSUME FailDispose(t), kind(t) \in Kind PROVE run' \in [Terminal -> RunOf]
  BY <1>r, <1>29 DEF FailDispose, Leave
<1>30. ASSUME ReadEvidence(t) PROVE run' \in [Terminal -> RunOf]
  BY <1>r, <1>30 DEF ReadEvidence, Readable
<1>31. ASSUME ReadTraces(t) PROVE run' \in [Terminal -> RunOf]
  BY <1>r, <1>31 DEF ReadTraces
<1>32. ASSUME OpenReports(t) PROVE run' \in [Terminal -> RunOf]
  BY <1>r, <1>32 DEF OpenReports
<1>33. ASSUME FinishReports(t) PROVE run' \in [Terminal -> RunOf]
  BY <1>r, <1>33 DEF FinishReports
<1>34. ASSUME FailReports(t) PROVE run' \in [Terminal -> RunOf]
  BY <1>r, <1>34 DEF FailReports
<1>35. ASSUME Kill(t), kind(t) \in Kind PROVE run' \in [Terminal -> RunOf]
  BY <1>r, <1>35 DEF Kill
<1>36. ASSUME NEW command \in Kind \cup {"freeze", "report"}, Start(t, command) PROVE run' \in [Terminal -> RunOf]
  BY <1>r, <1>36 DEF Start, First
<1>37. ASSUME OpenLedger(t), kind(t) \in Kind PROVE run' \in [Terminal -> RunOf]
  BY <1>r, <1>37 DEF OpenLedger
<1> HIDE DEF kind, At, MoveTo, Stop, Blame, files, history, Idle, RunOf, Steps, Command, Status
<1> QED
  BY StepKinds, Zenon, <1>1, <1>2, <1>3, <1>4, <1>5, <1>6, <1>7, <1>8, <1>9, <1>10, <1>11,
     <1>12, <1>13, <1>14, <1>15, <1>16, <1>17, <1>18, <1>19, <1>20, <1>21,
     <1>22, <1>23, <1>24, <1>25, <1>26, <1>27, <1>28, <1>29, <1>30, <1>31,
     <1>32, <1>33, <1>34, <1>35, <1>36, <1>37
     DEF Acts

\* No step leaves the types of the variables.
LEMMA TypeStep ==
  ASSUME TypeOK, FreezeHeld, OwnersHeld, EvidenceHeld, NEW t \in Terminal, StepOf(t)
  PROVE  TypeOK'
<1> USE DEF kind, At, MoveTo, Stop, Blame, files, history, Idle, TypeOK
<1>r. run' \in [Terminal -> RunOf]
  BY RunStep
<1>1. ASSUME Abort(t) PROVE TypeOK'
  BY <1>r, <1>1 DEF Abort
<1>2. ASSUME Fingerprint(t) PROVE TypeOK'
  BY <1>r, <1>2 DEF Fingerprint
<1>3. ASSUME CreateFreeze(t) PROVE TypeOK'
  BY <1>r, <1>3 DEF CreateFreeze, ExclusiveCreates
<1>4. ASSUME WriteFreeze(t) PROVE TypeOK'
  BY <1>r, <1>4 DEF WriteFreeze, FreezeHeld
<1>5. ASSUME FailFreeze(t) PROVE TypeOK'
  BY <1>r, <1>5 DEF FailFreeze, FreezeHeld
<1>6. ASSUME LoadFreeze(t), kind(t) \in Kind PROVE TypeOK'
  BY <1>r, <1>6 DEF LoadFreeze
<1>7. ASSUME AssertFreezeCurrent(t), kind(t) \in Kind PROVE TypeOK'
  BY <1>r, <1>7 DEF AssertFreezeCurrent
<1>8. ASSUME PassGate(t), kind(t) \in Kind PROVE TypeOK'
  BY <1>r, <1>8 DEF PassGate, BaselineCanaryPassed
<1>9. ASSUME Reserve(t), kind(t) \in Kind PROVE TypeOK'
  BY <1>r, <1>9 DEF Reserve, ExclusiveCreates
<1>10. ASSUME RefuseReservation(t), kind(t) \in Kind PROVE TypeOK'
  BY <1>r, <1>10 DEF RefuseReservation
<1>11. ASSUME Record(t), kind(t) \in Kind PROVE TypeOK'
  BY <1>r, <1>11 DEF Record
<1>12. ASSUME ListReservations(t), kind(t) \in Kind PROVE TypeOK'
  BY <1>r, <1>12 DEF ListReservations
<1>13. ASSUME WriteLedger(t), kind(t) \in Kind PROVE TypeOK'
  <2>1. ledger' \in LedgersLeft(t) /\ run[t] \in RunOf
    BY <1>13 DEF WriteLedger
  <2> QED
    BY <1>r, <2>1, LedgersType, <1>13 DEF WriteLedger
<1>14. ASSUME FailReservation(t), kind(t) \in Kind PROVE TypeOK'
  <2>1. (ledger' = ledger \/ ledger' \in LedgersLeft(t)) /\ run[t] \in RunOf
    BY <1>14 DEF FailReservation
  <2>2. ledger' \in [state : {"ABSENT", "TORN", "WHOLE"}, kinds : Kinds]
    BY <2>1, LedgersType
  <2> QED
    BY <1>r, <2>2, <1>14 DEF FailReservation
<1>15. ASSUME Invoke(t), kind(t) \in Kind PROVE TypeOK'
  <2>1. run[t].compared \in Version /\ calls[kind(t)] = 0
    BY <1>15 DEF Invoke, FreezeHeld, OwnersHeld, OwnerOf, Owns, Owning, Compared
  <2> QED
    BY <1>r, <2>1, <1>15 DEF Invoke
<1>16. ASSUME FailIsolation(t), kind(t) \in Kind PROVE TypeOK'
  BY <1>r, <1>16 DEF FailIsolation
<1>17. ASSUME ProviderThrows(t), kind(t) \in Kind PROVE TypeOK'
  BY <1>r, <1>17 DEF ProviderThrows, Status
<1>18. ASSUME ProviderAnswers(t), kind(t) \in Kind PROVE TypeOK'
  BY <1>r, <1>18 DEF ProviderAnswers
<1>19. ASSUME WriteRaw(t), kind(t) \in Kind PROVE TypeOK'
  <2>1. \A w \in run[t].pending : w.file \in RawFile /\ w.content \in Status
    BY DEF RunOf, Writes
  <2> QED
    BY <1>r, <2>1, <1>19 DEF WriteRaw
<1>20. ASSUME FailRaw(t), kind(t) \in Kind PROVE TypeOK'
  <2>1. \A w \in run[t].pending : w.file \in RawFile /\ w.content \in Status
    BY DEF RunOf, Writes
  <2> QED
    BY <1>r, <2>1, <1>20 DEF FailRaw, Current
<1>21. ASSUME LoseRaw(t), kind(t) \in Kind PROVE TypeOK'
  <2>1. \A w \in run[t].pending : w.file \in RawFile /\ w.content \in Status
    BY DEF RunOf, Writes
  <2> QED
    BY <1>r, <2>1, <1>21 DEF LoseRaw, Current
<1>22. ASSUME Persisted(t), kind(t) \in Kind PROVE TypeOK'
  BY <1>r, <1>22 DEF Persisted, Current
<1>23. ASSUME FailRelease(t), kind(t) \in Kind PROVE TypeOK'
  BY <1>r, <1>23 DEF FailRelease, Current
<1>24. ASSUME Catch(t), kind(t) \in Kind PROVE TypeOK'
  BY <1>r, <1>24 DEF Catch
<1>25. ASSUME OpenCurated(t), kind(t) \in Kind PROVE TypeOK'
  BY <1>r, <1>25 DEF OpenCurated
<1>26. ASSUME WriteCurated(t), kind(t) \in Kind PROVE TypeOK'
  <2>1. run[t].answer \in Status
    BY <1>26 DEF WriteCurated, EvidenceHeld, EvidenceOf, Owns, Owning, StageOf
  <2> QED
    BY <1>r, <2>1, <1>26 DEF WriteCurated
<1>27. ASSUME FailCuration(t), kind(t) \in Kind PROVE TypeOK'
  <2>1. At(t, "WRITE_CURATED") => run[t].answer \in Status
    BY <1>27 DEF EvidenceHeld, EvidenceOf, Owns, Owning, StageOf
  <2> QED
    BY <1>r, <2>1, <1>27 DEF FailCuration
<1>28. ASSUME Dispose(t), kind(t) \in Kind PROVE TypeOK'
  <2>1. run[t].verdict \in Status \cup {"NONE"}
    BY DEF RunOf
  <2> QED
    BY <1>r, <2>1, <1>28 DEF Dispose
<1>29. ASSUME FailDispose(t), kind(t) \in Kind PROVE TypeOK'
  BY <1>r, <1>29 DEF FailDispose, Leave
<1>30. ASSUME ReadEvidence(t) PROVE TypeOK'
  BY <1>r, <1>30 DEF ReadEvidence, Readable
<1>31. ASSUME ReadTraces(t) PROVE TypeOK'
  BY <1>r, <1>31 DEF ReadTraces
<1>32. ASSUME OpenReports(t) PROVE TypeOK'
  BY <1>r, <1>32 DEF OpenReports
<1>33. ASSUME FinishReports(t) PROVE TypeOK'
  BY <1>r, <1>33 DEF FinishReports
<1>34. ASSUME FailReports(t) PROVE TypeOK'
  BY <1>r, <1>34 DEF FailReports
<1>35. ASSUME Kill(t), kind(t) \in Kind PROVE TypeOK'
  BY <1>r, <1>35 DEF Kill
<1>36. ASSUME NEW command \in Kind \cup {"freeze", "report"}, Start(t, command) PROVE TypeOK'
  BY <1>r, <1>36 DEF Start, First
<1>37. ASSUME OpenLedger(t), kind(t) \in Kind PROVE TypeOK'
  BY <1>r, <1>37 DEF OpenLedger, Kinds
<1> HIDE DEF kind, At, MoveTo, Stop, Blame, files, history, Idle, TypeOK
<1> QED
  BY StepKinds, Zenon, <1>1, <1>2, <1>3, <1>4, <1>5, <1>6, <1>7, <1>8, <1>9, <1>10, <1>11,
     <1>12, <1>13, <1>14, <1>15, <1>16, <1>17, <1>18, <1>19, <1>20, <1>21,
     <1>22, <1>23, <1>24, <1>25, <1>26, <1>27, <1>28, <1>29, <1>30, <1>31,
     <1>32, <1>33, <1>34, <1>35, <1>36, <1>37
     DEF Acts

\* The freeze is written once, and from then on commands hold it.
LEMMA FreezeStep ==
  ASSUME TypeOK, FreezeHeld, CallsAreCompared, NEW t \in Terminal, StepOf(t)
  PROVE  FreezeHeld' /\ CallsAreCompared'
<1> USE VersionAssumption
       DEF kind, At, MoveTo, Stop, Blame, files, history, Idle, TypeOK, RunOf, FreezeHeld,
           CallsAreCompared, Compared
<1>1. ASSUME Abort(t) PROVE FreezeHeld' /\ CallsAreCompared'
  BY <1>1 DEF Abort
<1>2. ASSUME Fingerprint(t) PROVE FreezeHeld' /\ CallsAreCompared'
  BY <1>2 DEF Fingerprint
<1>3. ASSUME CreateFreeze(t) PROVE FreezeHeld' /\ CallsAreCompared'
  BY <1>3 DEF CreateFreeze, ExclusiveCreates
<1>4. ASSUME WriteFreeze(t) PROVE FreezeHeld' /\ CallsAreCompared'
  BY <1>4 DEF WriteFreeze
<1>5. ASSUME FailFreeze(t) PROVE FreezeHeld' /\ CallsAreCompared'
  BY <1>5 DEF FailFreeze
<1>6. ASSUME LoadFreeze(t), kind(t) \in Kind PROVE FreezeHeld' /\ CallsAreCompared'
  BY <1>6 DEF LoadFreeze
<1>7. ASSUME AssertFreezeCurrent(t), kind(t) \in Kind PROVE FreezeHeld' /\ CallsAreCompared'
  BY <1>7 DEF AssertFreezeCurrent
<1>8. ASSUME PassGate(t), kind(t) \in Kind PROVE FreezeHeld' /\ CallsAreCompared'
  BY <1>8 DEF PassGate, BaselineCanaryPassed
<1>9. ASSUME Reserve(t), kind(t) \in Kind PROVE FreezeHeld' /\ CallsAreCompared'
  BY <1>9 DEF Reserve, ExclusiveCreates
<1>10. ASSUME RefuseReservation(t), kind(t) \in Kind PROVE FreezeHeld' /\ CallsAreCompared'
  BY <1>10 DEF RefuseReservation
<1>11. ASSUME Record(t), kind(t) \in Kind PROVE FreezeHeld' /\ CallsAreCompared'
  BY <1>11 DEF Record
<1>12. ASSUME ListReservations(t), kind(t) \in Kind PROVE FreezeHeld' /\ CallsAreCompared'
  BY <1>12 DEF ListReservations
<1>13. ASSUME WriteLedger(t), kind(t) \in Kind PROVE FreezeHeld' /\ CallsAreCompared'
  BY <1>13 DEF WriteLedger, LedgersLeft
<1>14. ASSUME FailReservation(t), kind(t) \in Kind PROVE FreezeHeld' /\ CallsAreCompared'
  BY <1>14 DEF FailReservation, LedgersLeft
<1>15. ASSUME Invoke(t), kind(t) \in Kind PROVE FreezeHeld' /\ CallsAreCompared'
  BY <1>15 DEF Invoke
<1>16. ASSUME FailIsolation(t), kind(t) \in Kind PROVE FreezeHeld' /\ CallsAreCompared'
  BY <1>16 DEF FailIsolation
<1>17. ASSUME ProviderThrows(t), kind(t) \in Kind PROVE FreezeHeld' /\ CallsAreCompared'
  BY <1>17 DEF ProviderThrows
<1>18. ASSUME ProviderAnswers(t), kind(t) \in Kind PROVE FreezeHeld' /\ CallsAreCompared'
  BY <1>18 DEF ProviderAnswers
<1>19. ASSUME WriteRaw(t), kind(t) \in Kind PROVE FreezeHeld' /\ CallsAreCompared'
  BY <1>19 DEF WriteRaw
<1>20. ASSUME FailRaw(t), kind(t) \in Kind PROVE FreezeHeld' /\ CallsAreCompared'
  <2> HIDE DEF kind, At, MoveTo, Stop, Blame, files, history, Idle, TypeOK, RunOf, FreezeHeld,
              CallsAreCompared, Compared
  <2>1. PICK w \in run[t].pending, p \in {"CATCH", "DISPOSE"} :
          /\ GiveUp(t, w, p)
          /\ (At(t, "PERSIST") /\ p = "CATCH") \/ (At(t, "PERSIST_ERROR") /\ p = "DISPOSE")
          /\ w \in Current(t)
          /\ \E c \in {"TORN", w.content} : raw' = [raw EXCEPT ![kind(t)][w.file] = c]
    BY <1>20, FailedWrite
  <2>2. /\ fault' = [fault EXCEPT ![kind(t)] = @ \cup {"FAILED"}]
        /\ UNCHANGED <<instrument, freeze, reservation, ledger, curated, reports, holder, calls,
                       checked, answered, result, started>>
    BY <1>20 DEF FailRaw, Blame
  <2>3. /\ \A u \in Terminal \ {t} : run'[u] = run[u]
        /\ run'[t].pc = p /\ run'[t].pending = run[t].pending \ {w}
        /\ run'[t].command = run[t].command /\ run'[t].compared = run[t].compared
        /\ run'[t].listed = run[t].listed /\ run'[t].answer = run[t].answer
        /\ run'[t].verdict = run[t].verdict /\ run'[t].drift = run[t].drift
    BY <2>1 DEF GiveUp, TypeOK, RunOf
  <2>4. (run[t].pc = "PERSIST" /\ p = "CATCH") \/ (run[t].pc = "PERSIST_ERROR" /\ p = "DISPOSE")
    BY <2>1 DEF At
  <2>5. ASSUME NEW u \in Terminal PROVE
          /\ run'[u].pc = run[u].pc \/ run'[u].pc \in {"CATCH", "DISPOSE"}
          /\ run'[u].compared = run[u].compared /\ run'[u].drift = run[u].drift
    BY <2>3
  <2>6. freeze' = freeze /\ checked' = checked /\ calls' = calls /\ instrument' = instrument
    BY <2>2
  <2>7. FreezeHeld'
    BY <2>5, <2>6 DEF FreezeHeld, At, Compared
  <2> QED
    BY <2>5, <2>6, <2>7 DEF CallsAreCompared, At
<1>21. ASSUME LoseRaw(t), kind(t) \in Kind PROVE FreezeHeld' /\ CallsAreCompared'
  BY <1>21 DEF LoseRaw, Current
<1>22. ASSUME Persisted(t), kind(t) \in Kind PROVE FreezeHeld' /\ CallsAreCompared'
  BY <1>22 DEF Persisted, Current
<1>23. ASSUME FailRelease(t), kind(t) \in Kind PROVE FreezeHeld' /\ CallsAreCompared'
  BY <1>23 DEF FailRelease, Current
<1>24. ASSUME Catch(t), kind(t) \in Kind PROVE FreezeHeld' /\ CallsAreCompared'
  BY <1>24 DEF Catch
<1>25. ASSUME OpenCurated(t), kind(t) \in Kind PROVE FreezeHeld' /\ CallsAreCompared'
  BY <1>25 DEF OpenCurated
<1>26. ASSUME WriteCurated(t), kind(t) \in Kind PROVE FreezeHeld' /\ CallsAreCompared'
  BY <1>26 DEF WriteCurated
<1>27. ASSUME FailCuration(t), kind(t) \in Kind PROVE FreezeHeld' /\ CallsAreCompared'
  BY <1>27 DEF FailCuration
<1>28. ASSUME Dispose(t), kind(t) \in Kind PROVE FreezeHeld' /\ CallsAreCompared'
  BY <1>28 DEF Dispose, Leave
<1>29. ASSUME FailDispose(t), kind(t) \in Kind PROVE FreezeHeld' /\ CallsAreCompared'
  BY <1>29 DEF FailDispose, Leave
<1>30. ASSUME ReadEvidence(t) PROVE FreezeHeld' /\ CallsAreCompared'
  BY <1>30 DEF ReadEvidence, Readable
<1>31. ASSUME ReadTraces(t) PROVE FreezeHeld' /\ CallsAreCompared'
  BY <1>31 DEF ReadTraces
<1>32. ASSUME OpenReports(t) PROVE FreezeHeld' /\ CallsAreCompared'
  BY <1>32 DEF OpenReports
<1>33. ASSUME FinishReports(t) PROVE FreezeHeld' /\ CallsAreCompared'
  BY <1>33 DEF FinishReports
<1>34. ASSUME FailReports(t) PROVE FreezeHeld' /\ CallsAreCompared'
  BY <1>34 DEF FailReports
<1>35. ASSUME Kill(t), kind(t) \in Kind PROVE FreezeHeld' /\ CallsAreCompared'
  BY <1>35 DEF Kill
<1>36. ASSUME NEW command \in Kind \cup {"freeze", "report"}, Start(t, command) PROVE FreezeHeld' /\ CallsAreCompared'
  BY <1>36 DEF Start, First
<1>37. ASSUME OpenLedger(t), kind(t) \in Kind PROVE FreezeHeld' /\ CallsAreCompared'
  BY <1>37 DEF OpenLedger
<1> HIDE DEF kind, At, MoveTo, Stop, Blame, files, history, Idle, TypeOK, RunOf, FreezeHeld,
            CallsAreCompared, Compared
<1> QED
  BY StepKinds, Zenon, <1>1, <1>2, <1>3, <1>4, <1>5, <1>6, <1>7, <1>8, <1>9, <1>10, <1>11,
     <1>12, <1>13, <1>14, <1>15, <1>16, <1>17, <1>18, <1>19, <1>20, <1>21,
     <1>22, <1>23, <1>24, <1>25, <1>26, <1>27, <1>28, <1>29, <1>30, <1>31,
     <1>32, <1>33, <1>34, <1>35, <1>36, <1>37
     DEF Acts

\* A kind is reserved once, and called and written by whoever reserved it.
LEMMA OwnersStep ==
  ASSUME TypeOK, OwnersHeld, NEW t \in Terminal, StepOf(t)
  PROVE  OwnersHeld'
<1> USE NoTerminalAssumption
       DEF kind, At, MoveTo, Stop, Blame, files, history, Idle, TypeOK, RunOf, OwnersHeld,
           OwnerOf, Owns, Owning, Writing, Compared
<1>1. ASSUME Abort(t) PROVE OwnersHeld'
  BY <1>1 DEF Abort
<1>2. ASSUME Fingerprint(t) PROVE OwnersHeld'
  BY <1>2 DEF Fingerprint
<1>3. ASSUME CreateFreeze(t) PROVE OwnersHeld'
  BY <1>3 DEF CreateFreeze, ExclusiveCreates
<1>4. ASSUME WriteFreeze(t) PROVE OwnersHeld'
  BY <1>4 DEF WriteFreeze
<1>5. ASSUME FailFreeze(t) PROVE OwnersHeld'
  BY <1>5 DEF FailFreeze
<1>6. ASSUME LoadFreeze(t), kind(t) \in Kind PROVE OwnersHeld'
  BY <1>6 DEF LoadFreeze
<1>7. ASSUME AssertFreezeCurrent(t), kind(t) \in Kind PROVE OwnersHeld'
  BY <1>7 DEF AssertFreezeCurrent
<1>8. ASSUME PassGate(t), kind(t) \in Kind PROVE OwnersHeld'
  BY <1>8 DEF PassGate, BaselineCanaryPassed
<1>9. ASSUME Reserve(t), kind(t) \in Kind PROVE OwnersHeld'
  BY <1>9 DEF Reserve, ExclusiveCreates
<1>10. ASSUME RefuseReservation(t), kind(t) \in Kind PROVE OwnersHeld'
  BY <1>10 DEF RefuseReservation
<1>11. ASSUME Record(t), kind(t) \in Kind PROVE OwnersHeld'
  BY <1>11 DEF Record
<1>12. ASSUME ListReservations(t), kind(t) \in Kind PROVE OwnersHeld'
  BY <1>12 DEF ListReservations
<1>13. ASSUME WriteLedger(t), kind(t) \in Kind PROVE OwnersHeld'
  BY <1>13 DEF WriteLedger, LedgersLeft
<1>14. ASSUME FailReservation(t), kind(t) \in Kind PROVE OwnersHeld'
  BY <1>14 DEF FailReservation, LedgersLeft
<1>15. ASSUME Invoke(t), kind(t) \in Kind PROVE OwnersHeld'
  <2>1. holder[kind(t)] = t /\ reservation[kind(t)] = "WRITTEN"
    BY <1>15 DEF Invoke
  <2>2. \A k \in Kind \ {kind(t)} : calls'[k] = calls[k]
    BY <1>15 DEF Invoke
  <2>3. run' = [run EXCEPT ![t] = [@ EXCEPT !.pc = "AWAIT", !.drift = "NONE"]]
        /\ UNCHANGED <<reservation, curated, holder, answered>>
    BY <1>15 DEF Invoke
  <2>4. ASSUME NEW k \in Kind PROVE OwnerOf(k)'
    BY <2>1, <2>2, <2>3, <1>15
  <2>5. \A u \in Terminal : run'[u].pending # {} =>
          /\ kind(u)' \in Kind
          /\ run'[u].pc \in {"IDLE", "CATCH", "PERSIST", "PERSIST_ERROR", "CURATE",
                            "WRITE_CURATED", "DISPOSE"}
    BY <2>3, <1>15 DEF Invoke
  <2> QED
    BY <2>4, <2>5
<1>16. ASSUME FailIsolation(t), kind(t) \in Kind PROVE OwnersHeld'
  BY <1>16 DEF FailIsolation
<1>17. ASSUME ProviderThrows(t), kind(t) \in Kind PROVE OwnersHeld'
  BY <1>17 DEF ProviderThrows
<1>18. ASSUME ProviderAnswers(t), kind(t) \in Kind PROVE OwnersHeld'
  BY <1>18 DEF ProviderAnswers
<1>19. ASSUME WriteRaw(t), kind(t) \in Kind PROVE OwnersHeld'
  BY <1>19 DEF WriteRaw
<1>20. ASSUME FailRaw(t), kind(t) \in Kind PROVE OwnersHeld'
  <2> HIDE DEF kind, At, MoveTo, Stop, Blame, files, history, Idle, TypeOK, RunOf, OwnersHeld,
              OwnerOf, Owns, Owning, Writing, Compared
  <2>1. PICK w \in run[t].pending, p \in {"CATCH", "DISPOSE"} :
          /\ GiveUp(t, w, p)
          /\ (At(t, "PERSIST") /\ p = "CATCH") \/ (At(t, "PERSIST_ERROR") /\ p = "DISPOSE")
          /\ w \in Current(t)
          /\ \E c \in {"TORN", w.content} : raw' = [raw EXCEPT ![kind(t)][w.file] = c]
    BY <1>20, FailedWrite
  <2>2. /\ fault' = [fault EXCEPT ![kind(t)] = @ \cup {"FAILED"}]
        /\ UNCHANGED <<instrument, freeze, reservation, ledger, curated, reports, holder, calls,
                       checked, answered, result, started>>
    BY <1>20 DEF FailRaw, Blame
  <2>3. /\ \A u \in Terminal \ {t} : run'[u] = run[u]
        /\ run'[t].pc = p /\ run'[t].pending = run[t].pending \ {w}
        /\ run'[t].command = run[t].command /\ run'[t].compared = run[t].compared
        /\ run'[t].listed = run[t].listed /\ run'[t].answer = run[t].answer
        /\ run'[t].verdict = run[t].verdict /\ run'[t].drift = run[t].drift
    BY <2>1 DEF GiveUp, TypeOK, RunOf
  <2>4. (run[t].pc = "PERSIST" /\ p = "CATCH") \/ (run[t].pc = "PERSIST_ERROR" /\ p = "DISPOSE")
    BY <2>1 DEF At
  <2>5. UNCHANGED <<reservation, holder, calls, answered, curated>>
    BY <2>2
  <2>6. ASSUME NEW u \in Terminal PROVE
          /\ run'[u].command = run[u].command /\ run'[u].listed = run[u].listed
          /\ run'[u].pending # {} => run[u].pending # {}
          /\ run'[u].pc = run[u].pc \/ (run'[u].pc = "CATCH" /\ run[u].pc = "PERSIST")
             \/ (run'[u].pc = "DISPOSE" /\ run[u].pc = "PERSIST_ERROR")
    BY <2>3, <2>4
  <2>7. ASSUME NEW k \in Kind PROVE OwnerOf(k)'
    BY <2>5, <2>6 DEF OwnersHeld, OwnerOf, Owns, Owning, Writing, kind, At, Compared
  <2>8. \A u \in Terminal : run'[u].pending # {} =>
          /\ kind(u)' \in Kind
          /\ run'[u].pc \in {"IDLE", "CATCH", "PERSIST", "PERSIST_ERROR", "CURATE",
                            "WRITE_CURATED", "DISPOSE"}
    BY <2>6 DEF OwnersHeld, kind
  <2> QED
    BY <2>7, <2>8 DEF OwnersHeld
<1>21. ASSUME LoseRaw(t), kind(t) \in Kind PROVE OwnersHeld'
  BY <1>21 DEF LoseRaw, Current
<1>22. ASSUME Persisted(t), kind(t) \in Kind PROVE OwnersHeld'
  BY <1>22 DEF Persisted, Current
<1>23. ASSUME FailRelease(t), kind(t) \in Kind PROVE OwnersHeld'
  BY <1>23 DEF FailRelease, Current
<1>24. ASSUME Catch(t), kind(t) \in Kind PROVE OwnersHeld'
  BY <1>24 DEF Catch
<1>25. ASSUME OpenCurated(t), kind(t) \in Kind PROVE OwnersHeld'
  BY <1>25 DEF OpenCurated
<1>26. ASSUME WriteCurated(t), kind(t) \in Kind PROVE OwnersHeld'
  BY <1>26 DEF WriteCurated
<1>27. ASSUME FailCuration(t), kind(t) \in Kind PROVE OwnersHeld'
  BY <1>27 DEF FailCuration
<1>28. ASSUME Dispose(t), kind(t) \in Kind PROVE OwnersHeld'
  BY <1>28 DEF Dispose, Leave
<1>29. ASSUME FailDispose(t), kind(t) \in Kind PROVE OwnersHeld'
  BY <1>29 DEF FailDispose, Leave
<1>30. ASSUME ReadEvidence(t) PROVE OwnersHeld'
  BY <1>30 DEF ReadEvidence, Readable
<1>31. ASSUME ReadTraces(t) PROVE OwnersHeld'
  BY <1>31 DEF ReadTraces
<1>32. ASSUME OpenReports(t) PROVE OwnersHeld'
  BY <1>32 DEF OpenReports
<1>33. ASSUME FinishReports(t) PROVE OwnersHeld'
  BY <1>33 DEF FinishReports
<1>34. ASSUME FailReports(t) PROVE OwnersHeld'
  BY <1>34 DEF FailReports
<1>35. ASSUME Kill(t), kind(t) \in Kind PROVE OwnersHeld'
  BY <1>35 DEF Kill
<1>36. ASSUME NEW command \in Kind \cup {"freeze", "report"}, Start(t, command) PROVE OwnersHeld'
  BY <1>36 DEF Start, First
<1>37. ASSUME OpenLedger(t), kind(t) \in Kind PROVE OwnersHeld'
  BY <1>37 DEF OpenLedger
<1> HIDE DEF kind, At, MoveTo, Stop, Blame, files, history, Idle, TypeOK, RunOf, OwnersHeld,
            OwnerOf, Owns, Owning, Writing, Compared
<1> QED
  BY StepKinds, Zenon, <1>1, <1>2, <1>3, <1>4, <1>5, <1>6, <1>7, <1>8, <1>9, <1>10, <1>11,
     <1>12, <1>13, <1>14, <1>15, <1>16, <1>17, <1>18, <1>19, <1>20, <1>21,
     <1>22, <1>23, <1>24, <1>25, <1>26, <1>27, <1>28, <1>29, <1>30, <1>31,
     <1>32, <1>33, <1>34, <1>35, <1>36, <1>37
     DEF Acts

\* A call is made after the reservation, and the ledger lists reservations.
LEMMA RecordedStep ==
  ASSUME TypeOK, OwnersHeld, CallsAreRecorded, NEW t \in Terminal, StepOf(t)
  PROVE  CallsAreRecorded'
<1> USE DEF kind, At, MoveTo, Stop, Blame, files, history, Idle, TypeOK, RunOf, OwnersHeld,
           OwnerOf, Owns, Owning, CallsAreRecorded, Compared
<1>1. ASSUME Abort(t) PROVE CallsAreRecorded'
  BY <1>1 DEF Abort
<1>2. ASSUME Fingerprint(t) PROVE CallsAreRecorded'
  BY <1>2 DEF Fingerprint
<1>3. ASSUME CreateFreeze(t) PROVE CallsAreRecorded'
  BY <1>3 DEF CreateFreeze, ExclusiveCreates
<1>4. ASSUME WriteFreeze(t) PROVE CallsAreRecorded'
  BY <1>4 DEF WriteFreeze
<1>5. ASSUME FailFreeze(t) PROVE CallsAreRecorded'
  BY <1>5 DEF FailFreeze
<1>6. ASSUME LoadFreeze(t), kind(t) \in Kind PROVE CallsAreRecorded'
  BY <1>6 DEF LoadFreeze
<1>7. ASSUME AssertFreezeCurrent(t), kind(t) \in Kind PROVE CallsAreRecorded'
  BY <1>7 DEF AssertFreezeCurrent
<1>8. ASSUME PassGate(t), kind(t) \in Kind PROVE CallsAreRecorded'
  BY <1>8 DEF PassGate, BaselineCanaryPassed
<1>9. ASSUME Reserve(t), kind(t) \in Kind PROVE CallsAreRecorded'
  BY <1>9 DEF Reserve, ExclusiveCreates
<1>10. ASSUME RefuseReservation(t), kind(t) \in Kind PROVE CallsAreRecorded'
  BY <1>10 DEF RefuseReservation
<1>11. ASSUME Record(t), kind(t) \in Kind PROVE CallsAreRecorded'
  BY <1>11 DEF Record
<1>12. ASSUME ListReservations(t), kind(t) \in Kind PROVE CallsAreRecorded'
  BY <1>12 DEF ListReservations
<1>13. ASSUME WriteLedger(t), kind(t) \in Kind PROVE CallsAreRecorded'
  <2>1. \A k \in run[t].listed : k \in Kind /\ reservation[k] # "ABSENT"
    BY DEF Kinds
  <2>2. ledger'.kinds \subseteq run[t].listed
    <3>1. ledger' \in LedgersLeft(t) /\ run[t] \in RunOf
      BY <1>13 DEF WriteLedger
    <3> HIDE DEF RunOf
    <3> QED
      BY <3>1, LedgersType
  <2> QED
    BY <2>1, <2>2, <1>13 DEF WriteLedger
<1>14. ASSUME FailReservation(t), kind(t) \in Kind PROVE CallsAreRecorded'
  <2>1. \A k \in run[t].listed : k \in Kind /\ reservation[k] # "ABSENT"
    BY DEF Kinds
  <2>2. ledger' = ledger \/ ledger'.kinds \subseteq run[t].listed
    <3>1. (ledger' = ledger \/ ledger' \in LedgersLeft(t)) /\ run[t] \in RunOf
      BY <1>14 DEF FailReservation
    <3> HIDE DEF RunOf
    <3> QED
      BY <3>1, LedgersType
  <2>3. \A k \in ledger'.kinds : k \in Kind /\ reservation[k] # "ABSENT"
    BY <2>1, <2>2 DEF Kinds
  <2> QED
    BY <2>3, <1>14 DEF FailReservation
<1>15. ASSUME Invoke(t), kind(t) \in Kind PROVE CallsAreRecorded'
  BY <1>15 DEF Invoke
<1>16. ASSUME FailIsolation(t), kind(t) \in Kind PROVE CallsAreRecorded'
  BY <1>16 DEF FailIsolation
<1>17. ASSUME ProviderThrows(t), kind(t) \in Kind PROVE CallsAreRecorded'
  BY <1>17 DEF ProviderThrows
<1>18. ASSUME ProviderAnswers(t), kind(t) \in Kind PROVE CallsAreRecorded'
  BY <1>18 DEF ProviderAnswers
<1>19. ASSUME WriteRaw(t), kind(t) \in Kind PROVE CallsAreRecorded'
  BY <1>19 DEF WriteRaw
<1>20. ASSUME FailRaw(t), kind(t) \in Kind PROVE CallsAreRecorded'
  BY <1>20 DEF FailRaw, Current, GiveUp
<1>21. ASSUME LoseRaw(t), kind(t) \in Kind PROVE CallsAreRecorded'
  BY <1>21 DEF LoseRaw, Current
<1>22. ASSUME Persisted(t), kind(t) \in Kind PROVE CallsAreRecorded'
  BY <1>22 DEF Persisted, Current
<1>23. ASSUME FailRelease(t), kind(t) \in Kind PROVE CallsAreRecorded'
  BY <1>23 DEF FailRelease, Current
<1>24. ASSUME Catch(t), kind(t) \in Kind PROVE CallsAreRecorded'
  BY <1>24 DEF Catch
<1>25. ASSUME OpenCurated(t), kind(t) \in Kind PROVE CallsAreRecorded'
  BY <1>25 DEF OpenCurated
<1>26. ASSUME WriteCurated(t), kind(t) \in Kind PROVE CallsAreRecorded'
  BY <1>26 DEF WriteCurated
<1>27. ASSUME FailCuration(t), kind(t) \in Kind PROVE CallsAreRecorded'
  BY <1>27 DEF FailCuration
<1>28. ASSUME Dispose(t), kind(t) \in Kind PROVE CallsAreRecorded'
  BY <1>28 DEF Dispose, Leave
<1>29. ASSUME FailDispose(t), kind(t) \in Kind PROVE CallsAreRecorded'
  BY <1>29 DEF FailDispose, Leave
<1>30. ASSUME ReadEvidence(t) PROVE CallsAreRecorded'
  BY <1>30 DEF ReadEvidence, Readable
<1>31. ASSUME ReadTraces(t) PROVE CallsAreRecorded'
  BY <1>31 DEF ReadTraces
<1>32. ASSUME OpenReports(t) PROVE CallsAreRecorded'
  BY <1>32 DEF OpenReports
<1>33. ASSUME FinishReports(t) PROVE CallsAreRecorded'
  BY <1>33 DEF FinishReports
<1>34. ASSUME FailReports(t) PROVE CallsAreRecorded'
  BY <1>34 DEF FailReports
<1>35. ASSUME Kill(t), kind(t) \in Kind PROVE CallsAreRecorded'
  BY <1>35 DEF Kill
<1>36. ASSUME NEW command \in Kind \cup {"freeze", "report"}, Start(t, command) PROVE CallsAreRecorded'
  BY <1>36 DEF Start, First
<1>37. ASSUME OpenLedger(t), kind(t) \in Kind PROVE CallsAreRecorded'
  BY <1>37 DEF OpenLedger
<1> HIDE DEF kind, At, MoveTo, Stop, Blame, files, history, Idle, TypeOK, RunOf, OwnersHeld,
            OwnerOf, Owns, Owning, CallsAreRecorded, Compared
<1> QED
  BY StepKinds, Zenon, <1>1, <1>2, <1>3, <1>4, <1>5, <1>6, <1>7, <1>8, <1>9, <1>10, <1>11,
     <1>12, <1>13, <1>14, <1>15, <1>16, <1>17, <1>18, <1>19, <1>20, <1>21,
     <1>22, <1>23, <1>24, <1>25, <1>26, <1>27, <1>28, <1>29, <1>30, <1>31,
     <1>32, <1>33, <1>34, <1>35, <1>36, <1>37
     DEF Acts

-----------------------------------------------------------------------------

\* What a step at t leaves alone.
Elsewhere(t) ==
  /\ \A u \in Terminal \ {t} : run'[u] = run[u]
  /\ \A k \in Kind \ {kind(t)} :
       /\ ~Owns(t, k)' /\ ~Writing(t, k)'
       /\ raw'[k] = raw[k] /\ curated'[k] = curated[k] /\ holder'[k] = holder[k]
       /\ calls'[k] = calls[k] /\ answered'[k] = answered[k] /\ result'[k] = result[k]
       /\ fault'[k] = fault[k]

Keeps ==
  \A k \in Kind :
    /\ curated[k] \in Status => curated'[k] = curated[k]
    /\ fault[k] \subseteq fault'[k]

\* A step concerns one terminal, and the kind of its command.
LEMMA Frame ==
  ASSUME TypeOK, OwnersHeld, NEW t \in Terminal, StepOf(t)
  PROVE  Elsewhere(t)
<1> USE DEF kind, At, MoveTo, Stop, Blame, files, history, Idle, TypeOK, RunOf, OwnersHeld,
           Owns, Owning, Writing, Elsewhere
<1>1. ASSUME Abort(t) PROVE Elsewhere(t)
  BY <1>1 DEF Abort
<1>2. ASSUME Fingerprint(t) PROVE Elsewhere(t)
  BY <1>2 DEF Fingerprint
<1>3. ASSUME CreateFreeze(t) PROVE Elsewhere(t)
  BY <1>3 DEF CreateFreeze, ExclusiveCreates
<1>4. ASSUME WriteFreeze(t) PROVE Elsewhere(t)
  BY <1>4 DEF WriteFreeze
<1>5. ASSUME FailFreeze(t) PROVE Elsewhere(t)
  BY <1>5 DEF FailFreeze
<1>6. ASSUME LoadFreeze(t), kind(t) \in Kind PROVE Elsewhere(t)
  BY <1>6 DEF LoadFreeze
<1>7. ASSUME AssertFreezeCurrent(t), kind(t) \in Kind PROVE Elsewhere(t)
  BY <1>7 DEF AssertFreezeCurrent
<1>8. ASSUME PassGate(t), kind(t) \in Kind PROVE Elsewhere(t)
  BY <1>8 DEF PassGate, BaselineCanaryPassed
<1>9. ASSUME Reserve(t), kind(t) \in Kind PROVE Elsewhere(t)
  BY <1>9 DEF Reserve, ExclusiveCreates
<1>10. ASSUME RefuseReservation(t), kind(t) \in Kind PROVE Elsewhere(t)
  BY <1>10 DEF RefuseReservation
<1>11. ASSUME Record(t), kind(t) \in Kind PROVE Elsewhere(t)
  BY <1>11 DEF Record
<1>12. ASSUME ListReservations(t), kind(t) \in Kind PROVE Elsewhere(t)
  BY <1>12 DEF ListReservations
<1>13. ASSUME WriteLedger(t), kind(t) \in Kind PROVE Elsewhere(t)
  BY <1>13 DEF WriteLedger, LedgersLeft
<1>14. ASSUME FailReservation(t), kind(t) \in Kind PROVE Elsewhere(t)
  BY <1>14 DEF FailReservation, LedgersLeft
<1>15. ASSUME Invoke(t), kind(t) \in Kind PROVE Elsewhere(t)
  BY <1>15 DEF Invoke
<1>16. ASSUME FailIsolation(t), kind(t) \in Kind PROVE Elsewhere(t)
  BY <1>16 DEF FailIsolation
<1>17. ASSUME ProviderThrows(t), kind(t) \in Kind PROVE Elsewhere(t)
  BY <1>17 DEF ProviderThrows
<1>18. ASSUME ProviderAnswers(t), kind(t) \in Kind PROVE Elsewhere(t)
  BY <1>18 DEF ProviderAnswers
<1>19. ASSUME WriteRaw(t), kind(t) \in Kind PROVE Elsewhere(t)
  BY <1>19 DEF WriteRaw
<1>20. ASSUME FailRaw(t), kind(t) \in Kind PROVE Elsewhere(t)
  <2> HIDE DEF kind, At, MoveTo, Stop, Blame, files, history, Idle, TypeOK, RunOf, OwnersHeld,
              Owns, Owning, Writing, Elsewhere
  <2>1. PICK w \in run[t].pending, p \in {"CATCH", "DISPOSE"} :
          /\ GiveUp(t, w, p)
          /\ (At(t, "PERSIST") /\ p = "CATCH") \/ (At(t, "PERSIST_ERROR") /\ p = "DISPOSE")
          /\ w \in Current(t)
          /\ \E c \in {"TORN", w.content} : raw' = [raw EXCEPT ![kind(t)][w.file] = c]
    BY <1>20, FailedWrite
  <2>2. /\ fault' = [fault EXCEPT ![kind(t)] = @ \cup {"FAILED"}]
        /\ UNCHANGED <<instrument, freeze, reservation, ledger, curated, reports, holder, calls,
                       checked, answered, result, started>>
    BY <1>20 DEF FailRaw, Blame
  <2>3. /\ \A u \in Terminal \ {t} : run'[u] = run[u]
        /\ run'[t].pc = p /\ run'[t].pending = run[t].pending \ {w}
        /\ run'[t].command = run[t].command /\ run'[t].compared = run[t].compared
        /\ run'[t].listed = run[t].listed /\ run'[t].answer = run[t].answer
        /\ run'[t].verdict = run[t].verdict /\ run'[t].drift = run[t].drift
    BY <2>1 DEF GiveUp, TypeOK, RunOf
  <2>4. (run[t].pc = "PERSIST" /\ p = "CATCH") \/ (run[t].pc = "PERSIST_ERROR" /\ p = "DISPOSE")
    BY <2>1 DEF At
  <2> QED
    BY <2>1, <2>2, <2>3, <2>4, <1>20
       DEF kind, At, MoveTo, Stop, Blame, files, history, Idle, TypeOK, RunOf, OwnersHeld,
              Owns, Owning, Writing, Elsewhere
<1>21. ASSUME LoseRaw(t), kind(t) \in Kind PROVE Elsewhere(t)
  BY <1>21 DEF LoseRaw, Current
<1>22. ASSUME Persisted(t), kind(t) \in Kind PROVE Elsewhere(t)
  BY <1>22 DEF Persisted, Current
<1>23. ASSUME FailRelease(t), kind(t) \in Kind PROVE Elsewhere(t)
  BY <1>23 DEF FailRelease, Current
<1>24. ASSUME Catch(t), kind(t) \in Kind PROVE Elsewhere(t)
  BY <1>24 DEF Catch
<1>25. ASSUME OpenCurated(t), kind(t) \in Kind PROVE Elsewhere(t)
  BY <1>25 DEF OpenCurated
<1>26. ASSUME WriteCurated(t), kind(t) \in Kind PROVE Elsewhere(t)
  BY <1>26 DEF WriteCurated
<1>27. ASSUME FailCuration(t), kind(t) \in Kind PROVE Elsewhere(t)
  BY <1>27 DEF FailCuration
<1>28. ASSUME Dispose(t), kind(t) \in Kind PROVE Elsewhere(t)
  BY <1>28 DEF Dispose, Leave
<1>29. ASSUME FailDispose(t), kind(t) \in Kind PROVE Elsewhere(t)
  BY <1>29 DEF FailDispose, Leave
<1>30. ASSUME ReadEvidence(t) PROVE Elsewhere(t)
  BY <1>30 DEF ReadEvidence, Readable
<1>31. ASSUME ReadTraces(t) PROVE Elsewhere(t)
  BY <1>31 DEF ReadTraces
<1>32. ASSUME OpenReports(t) PROVE Elsewhere(t)
  BY <1>32 DEF OpenReports
<1>33. ASSUME FinishReports(t) PROVE Elsewhere(t)
  BY <1>33 DEF FinishReports
<1>34. ASSUME FailReports(t) PROVE Elsewhere(t)
  BY <1>34 DEF FailReports
<1>35. ASSUME Kill(t), kind(t) \in Kind PROVE Elsewhere(t)
  BY <1>35 DEF Kill
<1>36. ASSUME NEW command \in Kind \cup {"freeze", "report"}, Start(t, command) PROVE Elsewhere(t)
  BY <1>36 DEF Start, First
<1>37. ASSUME OpenLedger(t), kind(t) \in Kind PROVE Elsewhere(t)
  BY <1>37 DEF OpenLedger
<1> HIDE DEF kind, At, MoveTo, Stop, Blame, files, history, Idle, TypeOK, RunOf, OwnersHeld,
            Owns, Owning, Writing, Elsewhere
<1> QED
  BY StepKinds, Zenon, <1>1, <1>2, <1>3, <1>4, <1>5, <1>6, <1>7, <1>8, <1>9, <1>10, <1>11,
     <1>12, <1>13, <1>14, <1>15, <1>16, <1>17, <1>18, <1>19, <1>20, <1>21,
     <1>22, <1>23, <1>24, <1>25, <1>26, <1>27, <1>28, <1>29, <1>30, <1>31,
     <1>32, <1>33, <1>34, <1>35, <1>36, <1>37
     DEF Acts

\* A curated report with a status is final, and faults are not forgotten.
LEMMA ReportStays ==
  ASSUME TypeOK, OwnersHeld, EvidenceHeld, NEW t \in Terminal, StepOf(t)
  PROVE  Keeps
<1> USE DEF kind, At, MoveTo, Stop, Blame, files, history, Idle, TypeOK, Owns, Owning,
           EvidenceHeld, EvidenceOf, StageOf, Status, Keeps
<1>1. ASSUME Abort(t) PROVE Keeps
  BY <1>1 DEF Abort
<1>2. ASSUME Fingerprint(t) PROVE Keeps
  BY <1>2 DEF Fingerprint
<1>3. ASSUME CreateFreeze(t) PROVE Keeps
  BY <1>3 DEF CreateFreeze, ExclusiveCreates
<1>4. ASSUME WriteFreeze(t) PROVE Keeps
  BY <1>4 DEF WriteFreeze
<1>5. ASSUME FailFreeze(t) PROVE Keeps
  BY <1>5 DEF FailFreeze
<1>6. ASSUME LoadFreeze(t), kind(t) \in Kind PROVE Keeps
  BY <1>6 DEF LoadFreeze
<1>7. ASSUME AssertFreezeCurrent(t), kind(t) \in Kind PROVE Keeps
  BY <1>7 DEF AssertFreezeCurrent
<1>8. ASSUME PassGate(t), kind(t) \in Kind PROVE Keeps
  BY <1>8 DEF PassGate, BaselineCanaryPassed
<1>9. ASSUME Reserve(t), kind(t) \in Kind PROVE Keeps
  BY <1>9 DEF Reserve, ExclusiveCreates
<1>10. ASSUME RefuseReservation(t), kind(t) \in Kind PROVE Keeps
  BY <1>10 DEF RefuseReservation
<1>11. ASSUME Record(t), kind(t) \in Kind PROVE Keeps
  BY <1>11 DEF Record
<1>12. ASSUME ListReservations(t), kind(t) \in Kind PROVE Keeps
  BY <1>12 DEF ListReservations
<1>13. ASSUME WriteLedger(t), kind(t) \in Kind PROVE Keeps
  BY <1>13 DEF WriteLedger, LedgersLeft
<1>14. ASSUME FailReservation(t), kind(t) \in Kind PROVE Keeps
  BY <1>14 DEF FailReservation, LedgersLeft
<1>15. ASSUME Invoke(t), kind(t) \in Kind PROVE Keeps
  BY <1>15 DEF Invoke
<1>16. ASSUME FailIsolation(t), kind(t) \in Kind PROVE Keeps
  BY <1>16 DEF FailIsolation
<1>17. ASSUME ProviderThrows(t), kind(t) \in Kind PROVE Keeps
  BY <1>17 DEF ProviderThrows
<1>18. ASSUME ProviderAnswers(t), kind(t) \in Kind PROVE Keeps
  BY <1>18 DEF ProviderAnswers
<1>19. ASSUME WriteRaw(t), kind(t) \in Kind PROVE Keeps
  BY <1>19 DEF WriteRaw
<1>20. ASSUME FailRaw(t), kind(t) \in Kind PROVE Keeps
  BY <1>20 DEF FailRaw, Current, GiveUp
<1>21. ASSUME LoseRaw(t), kind(t) \in Kind PROVE Keeps
  BY <1>21 DEF LoseRaw, Current
<1>22. ASSUME Persisted(t), kind(t) \in Kind PROVE Keeps
  BY <1>22 DEF Persisted, Current
<1>23. ASSUME FailRelease(t), kind(t) \in Kind PROVE Keeps
  BY <1>23 DEF FailRelease, Current
<1>24. ASSUME Catch(t), kind(t) \in Kind PROVE Keeps
  BY <1>24 DEF Catch
<1>25. ASSUME OpenCurated(t), kind(t) \in Kind PROVE Keeps
  BY <1>25 DEF OpenCurated
<1>26. ASSUME WriteCurated(t), kind(t) \in Kind PROVE Keeps
  BY <1>26 DEF WriteCurated
<1>27. ASSUME FailCuration(t), kind(t) \in Kind PROVE Keeps
  BY <1>27 DEF FailCuration
<1>28. ASSUME Dispose(t), kind(t) \in Kind PROVE Keeps
  BY <1>28 DEF Dispose, Leave
<1>29. ASSUME FailDispose(t), kind(t) \in Kind PROVE Keeps
  BY <1>29 DEF FailDispose, Leave
<1>30. ASSUME ReadEvidence(t) PROVE Keeps
  BY <1>30 DEF ReadEvidence, Readable
<1>31. ASSUME ReadTraces(t) PROVE Keeps
  BY <1>31 DEF ReadTraces
<1>32. ASSUME OpenReports(t) PROVE Keeps
  BY <1>32 DEF OpenReports
<1>33. ASSUME FinishReports(t) PROVE Keeps
  BY <1>33 DEF FinishReports
<1>34. ASSUME FailReports(t) PROVE Keeps
  BY <1>34 DEF FailReports
<1>35. ASSUME Kill(t), kind(t) \in Kind PROVE Keeps
  BY <1>35 DEF Kill
<1>36. ASSUME NEW command \in Kind \cup {"freeze", "report"}, Start(t, command) PROVE Keeps
  BY <1>36 DEF Start, First
<1>37. ASSUME OpenLedger(t), kind(t) \in Kind PROVE Keeps
  BY <1>37 DEF OpenLedger
<1> HIDE DEF kind, At, MoveTo, Stop, Blame, files, history, Idle, TypeOK, Owns, Owning,
            EvidenceHeld, EvidenceOf, StageOf, Status, Keeps
<1> QED
  BY StepKinds, Zenon, <1>1, <1>2, <1>3, <1>4, <1>5, <1>6, <1>7, <1>8, <1>9, <1>10, <1>11,
     <1>12, <1>13, <1>14, <1>15, <1>16, <1>17, <1>18, <1>19, <1>20, <1>21,
     <1>22, <1>23, <1>24, <1>25, <1>26, <1>27, <1>28, <1>29, <1>30, <1>31,
     <1>32, <1>33, <1>34, <1>35, <1>36, <1>37
     DEF Acts


\* What the evidence of k says is not disturbed by a step at t that leaves k
\* alone, but for a failure or the exit status of its own command.
LEMMA Untouched ==
  ASSUME NEW t \in Terminal, NEW k \in Kind, EvidenceOf(k),
         \A u \in Terminal \ {t} : run'[u] = run[u],
         ~Owns(t, k), ~Owns(t, k)', Writing(t, k)' => Writing(t, k),
         raw'[k] = raw[k], curated'[k] = curated[k], holder'[k] = holder[k],
         calls'[k] = calls[k], answered'[k] = answered[k], fault[k] \subseteq fault'[k],
         result'[k] \in {"NONE", curated[k]}, holder[k] \in Terminal \cup {NoTerminal}
  PROVE  EvidenceOf(k)'
<1>1. ASSUME NEW u \in Terminal
      PROVE  /\ Owns(u, k)' => u # t /\ Owns(u, k)
             /\ Writing(u, k)' => Writing(u, k)
             /\ ~Owns(u, k)' => ~Owns(u, k)
  BY DEF Owns, Writing, kind
<1>2. ASSUME NEW s, Supported(k, s) PROVE Supported(k, s)'
  BY <1>1, <1>2 DEF Supported
<1>3. ASSUME NEW u \in Terminal, Owns(u, k)' PROVE StageOf(u, k)'
  <2>1. u # t /\ Owns(u, k) /\ run'[u] = run[u]
    BY <1>1, <1>3
  <2>2. StageOf(u, k)
    BY <2>1 DEF EvidenceOf
  <2>3. run[u].pc \in {"CURATE", "WRITE_CURATED"} => Supported(k, run[u].answer)'
    BY <1>1, <2>1, <2>2 DEF StageOf, Supported
  <2>4. \A s, b : Persisting(u, k, s, b) => Persisting(u, k, s, b)'
    BY <2>1 DEF Persisting
  <2>5. (fault[k] # {} => fault'[k] # {}) /\ ("LATE" \in fault[k] => "LATE" \in fault'[k])
    OBVIOUS
  <2>6. \A p : At(u, p)' <=> At(u, p)
    BY <2>1 DEF At
  <2> QED
    BY <2>1, <2>2, <2>3, <2>4, <2>5, <2>6 DEF StageOf
<1>4. curated'[k] \in Status => Supported(k, curated[k])'
  BY <1>2 DEF EvidenceOf
<1>5. holder'[k] # NoTerminal /\ ~Owns(holder[k], k)' /\ fault'[k] = {} => curated'[k] \in Status
  BY <1>1 DEF EvidenceOf
<1> QED
  BY <1>3, <1>4, <1>5 DEF EvidenceOf, Supported

\* The owner t of k takes a step before the report is written.
LEMMA OwnerMoves ==
  ASSUME NEW t \in Terminal, NEW k \in Kind, OwnersHeld, EvidenceOf(k), Owns(t, k),
         \A u \in Terminal \ {t} : run'[u] = run[u],
         Owns(t, k)', holder'[k] = holder[k], curated'[k] \notin Status, result'[k] = result[k],
         result[k] \in Status \cup {"NONE"}, StageOf(t, k)'
  PROVE  EvidenceOf(k)'
<1>1. holder[k] = t /\ \A u \in Terminal : Owns(u, k) => u = t
  BY DEF OwnersHeld, OwnerOf
<1>2. \A u \in Terminal : Owns(u, k)' => u = t
  BY <1>1 DEF Owns, kind
<1>3. result[k] = "NONE"
  BY DEF EvidenceOf, StageOf, Status
<1> QED
  BY <1>1, <1>2, <1>3 DEF EvidenceOf

\* The owner t of k fails or is killed before the report is written.
LEMMA OwnerGivesUp ==
  ASSUME NEW t \in Terminal, NEW k \in Kind, OwnersHeld, EvidenceOf(k), Owns(t, k),
         \A u \in Terminal \ {t} : run'[u] = run[u],
         ~Owns(t, k)', holder'[k] = holder[k], curated'[k] = curated[k],
         result'[k] = result[k], fault'[k] # {}
  PROVE  EvidenceOf(k)'
<1>1. \A u \in Terminal : ~Owns(u, k)'
  BY DEF OwnersHeld, OwnerOf, Owns, kind
<1>2. curated[k] \notin Status
  BY DEF EvidenceOf, StageOf, Status
<1> QED
  BY <1>1, <1>2 DEF EvidenceOf

\* A write that the command of k left behind ends.
LEMMA LateWrite ==
  ASSUME NEW t \in Terminal, NEW k \in Kind, OwnersHeld, EvidenceOf(k), Writing(t, k),
         ~Owns(t, k), ~Owns(t, k)', \A u \in Terminal \ {t} : run'[u] = run[u],
         holder'[k] = holder[k], curated'[k] = curated[k], result'[k] = result[k],
         fault'[k] = fault[k]
  PROVE  EvidenceOf(k)'
<1>1. holder[k] = t /\ \A u \in Terminal : ~Owns(u, k)
  BY DEF OwnersHeld, OwnerOf
<1>2. \A u \in Terminal : ~Owns(u, k)'
  BY <1>1 DEF Owns, kind
<1>3. holder[k] # NoTerminal
  BY <1>1, NoTerminalAssumption
<1>4. curated[k] \in Status => curated[k] = "ERROR" /\ "LATE" \in fault[k]
  BY DEF EvidenceOf, Supported
<1>5. fault[k] # {}
  BY <1>1, <1>3, <1>4 DEF EvidenceOf
<1>6. curated'[k] \in Status => Supported(k, curated[k])'
  BY <1>4 DEF Supported
<1> QED
  BY <1>2, <1>5, <1>6 DEF EvidenceOf

\* What a command is about to return has been written to its report.
VerdictsHeld ==
  \A t \in Terminal : run[t].verdict # "NONE" =>
    At(t, "DISPOSE") /\ kind(t) \in Kind /\ curated[kind(t)] = run[t].verdict

\* The evidence of the kind a step is about.
LEMMA OwnEvidence ==
  ASSUME TypeOK, OwnersHeld, EvidenceHeld, NEW t \in Terminal, NEW k \in Kind, k = kind(t), StepOf(t)
  PROVE  EvidenceOf(k)'
<1> USE NoTerminalAssumption
       DEF kind, At, MoveTo, Stop, Blame, files, history, Idle
<1>r. /\ run \in [Terminal -> RunOf] /\ run[t] \in RunOf
      /\ raw \in [Kind -> [RawFile -> Status \cup {"ABSENT", "TORN"}]]
      /\ curated \in [Kind -> Status \cup {"ABSENT", "PARTIAL"}]
      /\ holder \in [Kind -> Terminal \cup {NoTerminal}]
      /\ calls \in [Kind -> 0 .. 1]
      /\ answered \in [Kind -> Status \cup {"NONE"}] /\ result \in [Kind -> Status \cup {"NONE"}]
      /\ fault \in [Kind -> SUBSET {"FAILED", "LATE"}]
      /\ reservation \in [Kind -> {"ABSENT", "EMPTY", "WRITTEN"}]
  BY DEF TypeOK
<1>e. EvidenceOf(k)
  BY DEF EvidenceHeld
<1>f. /\ \A u \in Terminal \ {t} : run'[u] = run[u]
      /\ holder[k] \in Terminal \cup {NoTerminal} /\ result[k] \in Status \cup {"NONE"}
  BY <1>r, Frame DEF Elsewhere
<1>1. ASSUME Abort(t) PROVE EvidenceOf(k)'
  <2>1. ~Owns(t, k) /\ ~Owns(t, k)' /\ (Writing(t, k)' => Writing(t, k))
    BY <1>r, <1>1 DEF Abort, Owns, Owning, Writing, RunOf
  <2>2. /\ UNCHANGED <<raw, curated, holder, calls, answered, fault>>
        /\ result'[k] \in {"NONE", curated[k]}
    BY <1>r, <1>e, <1>1 DEF Abort, EvidenceOf
  <2> QED
    BY <1>e, <1>f, <2>1, <2>2, Untouched
<1>2. ASSUME Fingerprint(t) PROVE EvidenceOf(k)'
  <2>1. ~Owns(t, k) /\ ~Owns(t, k)' /\ (Writing(t, k)' => Writing(t, k))
    BY <1>r, <1>2 DEF Fingerprint, Owns, Owning, Writing, RunOf
  <2>2. /\ UNCHANGED <<raw, curated, holder, calls, answered, fault>>
        /\ result'[k] \in {"NONE", curated[k]}
    BY <1>r, <1>e, <1>2 DEF Fingerprint, EvidenceOf
  <2> QED
    BY <1>e, <1>f, <2>1, <2>2, Untouched
<1>3. ASSUME CreateFreeze(t) PROVE EvidenceOf(k)'
  <2>1. ~Owns(t, k) /\ ~Owns(t, k)' /\ (Writing(t, k)' => Writing(t, k))
    BY <1>r, <1>3 DEF CreateFreeze, ExclusiveCreates, Owns, Owning, Writing, RunOf
  <2>2. /\ UNCHANGED <<raw, curated, holder, calls, answered, fault>>
        /\ result'[k] \in {"NONE", curated[k]}
    BY <1>r, <1>e, <1>3 DEF CreateFreeze, ExclusiveCreates, EvidenceOf
  <2> QED
    BY <1>e, <1>f, <2>1, <2>2, Untouched
<1>4. ASSUME WriteFreeze(t) PROVE EvidenceOf(k)'
  <2>1. ~Owns(t, k) /\ ~Owns(t, k)' /\ (Writing(t, k)' => Writing(t, k))
    BY <1>r, <1>4 DEF WriteFreeze, Owns, Owning, Writing, RunOf
  <2>2. /\ UNCHANGED <<raw, curated, holder, calls, answered, fault>>
        /\ result'[k] \in {"NONE", curated[k]}
    BY <1>r, <1>e, <1>4 DEF WriteFreeze, EvidenceOf
  <2> QED
    BY <1>e, <1>f, <2>1, <2>2, Untouched
<1>5. ASSUME FailFreeze(t) PROVE EvidenceOf(k)'
  <2>1. ~Owns(t, k) /\ ~Owns(t, k)' /\ (Writing(t, k)' => Writing(t, k))
    BY <1>r, <1>5 DEF FailFreeze, Owns, Owning, Writing, RunOf
  <2>2. /\ UNCHANGED <<raw, curated, holder, calls, answered, fault>>
        /\ result'[k] \in {"NONE", curated[k]}
    BY <1>r, <1>e, <1>5 DEF FailFreeze, EvidenceOf
  <2> QED
    BY <1>e, <1>f, <2>1, <2>2, Untouched
<1>6. ASSUME LoadFreeze(t), k = kind(t) PROVE EvidenceOf(k)'
  <2>1. ~Owns(t, k) /\ ~Owns(t, k)' /\ (Writing(t, k)' => Writing(t, k))
    BY <1>r, <1>6 DEF LoadFreeze, Owns, Owning, Writing, RunOf
  <2>2. /\ UNCHANGED <<raw, curated, holder, calls, answered, fault>>
        /\ result'[k] \in {"NONE", curated[k]}
    BY <1>r, <1>e, <1>6 DEF LoadFreeze, EvidenceOf
  <2> QED
    BY <1>e, <1>f, <2>1, <2>2, Untouched
<1>7. ASSUME AssertFreezeCurrent(t), k = kind(t) PROVE EvidenceOf(k)'
  <2>1. ~Owns(t, k) /\ ~Owns(t, k)' /\ (Writing(t, k)' => Writing(t, k))
    BY <1>r, <1>7 DEF AssertFreezeCurrent, Owns, Owning, Writing, RunOf
  <2>2. /\ UNCHANGED <<raw, curated, holder, calls, answered, fault>>
        /\ result'[k] \in {"NONE", curated[k]}
    BY <1>r, <1>e, <1>7 DEF AssertFreezeCurrent, EvidenceOf
  <2> QED
    BY <1>e, <1>f, <2>1, <2>2, Untouched
<1>8. ASSUME PassGate(t), k = kind(t) PROVE EvidenceOf(k)'
  <2>1. ~Owns(t, k) /\ ~Owns(t, k)' /\ (Writing(t, k)' => Writing(t, k))
    BY <1>r, <1>8 DEF PassGate, BaselineCanaryPassed, Owns, Owning, Writing, RunOf
  <2>2. /\ UNCHANGED <<raw, curated, holder, calls, answered, fault>>
        /\ result'[k] \in {"NONE", curated[k]}
    BY <1>r, <1>e, <1>8 DEF PassGate, BaselineCanaryPassed, EvidenceOf
  <2> QED
    BY <1>e, <1>f, <2>1, <2>2, Untouched
<1>9. ASSUME Reserve(t), k = kind(t) PROVE EvidenceOf(k)'
  BY <1>r, <1>e, <1>9 DEF Reserve, ExclusiveCreates, RunOf, OwnersHeld, OwnerOf, Owning, Owns, Writing,
     EvidenceOf, StageOf, Supported, Persisting, Status, Write, Batch, RawFile
<1>10. ASSUME RefuseReservation(t), k = kind(t) PROVE EvidenceOf(k)'
  <2>1. ~Owns(t, k) /\ ~Owns(t, k)' /\ (Writing(t, k)' => Writing(t, k))
    BY <1>r, <1>10 DEF RefuseReservation, Owns, Owning, Writing, RunOf
  <2>2. /\ UNCHANGED <<raw, curated, holder, calls, answered, fault>>
        /\ result'[k] \in {"NONE", curated[k]}
    BY <1>r, <1>e, <1>10 DEF RefuseReservation, EvidenceOf
  <2> QED
    BY <1>e, <1>f, <2>1, <2>2, Untouched
<1>11. ASSUME Record(t), k = kind(t) PROVE EvidenceOf(k)'
  <2>1. Owns(t, k) /\ Owns(t, k)'
    BY <1>r, <1>11 DEF Record, Owns, Owning, RunOf
  <2>2. StageOf(t, k)
    BY <1>e, <2>1 DEF EvidenceOf
  <2>3. /\ UNCHANGED <<holder, result>>
        /\ curated'[k] \notin Status
    BY <1>r, <2>2, <1>11 DEF Record, StageOf, Status
  <2>4. StageOf(t, k)'
    BY <1>r, <2>1, <2>2, <1>11 DEF Record, StageOf, RunOf
  <2> QED
    BY <1>e, <1>f, <2>1, <2>3, <2>4, OwnerMoves
<1>12. ASSUME ListReservations(t), k = kind(t) PROVE EvidenceOf(k)'
  <2>1. Owns(t, k) /\ Owns(t, k)'
    BY <1>r, <1>12 DEF ListReservations, Owns, Owning, RunOf
  <2>2. StageOf(t, k)
    BY <1>e, <2>1 DEF EvidenceOf
  <2>3. /\ UNCHANGED <<holder, result>>
        /\ curated'[k] \notin Status
    BY <1>r, <2>2, <1>12 DEF ListReservations, StageOf, Status
  <2>4. StageOf(t, k)'
    BY <1>r, <2>1, <2>2, <1>12 DEF ListReservations, StageOf, RunOf
  <2> QED
    BY <1>e, <1>f, <2>1, <2>3, <2>4, OwnerMoves
<1>13. ASSUME WriteLedger(t), k = kind(t) PROVE EvidenceOf(k)'
  <2>0. ~(Cardinality(run[t].listed) > Budget)
    BY <1>r, Three DEF RunOf, Kinds
  <2>1. Owns(t, k) /\ Owns(t, k)'
    BY <2>0, <1>r, <1>13 DEF WriteLedger, LedgersLeft, Owns, Owning, RunOf
  <2>2. StageOf(t, k)
    BY <1>e, <2>1 DEF EvidenceOf
  <2>3. /\ UNCHANGED <<holder, result>>
        /\ curated'[k] \notin Status
    BY <1>r, <2>2, <1>13 DEF WriteLedger, LedgersLeft, StageOf, Status
  <2>4. StageOf(t, k)'
    BY <2>0, <1>r, <2>1, <2>2, <1>13 DEF WriteLedger, LedgersLeft, StageOf, RunOf
  <2> QED
    BY <1>e, <1>f, <2>1, <2>3, <2>4, OwnerMoves
<1>14. ASSUME FailReservation(t), k = kind(t) PROVE EvidenceOf(k)'
  <2>1. Owns(t, k) /\ ~Owns(t, k)'
    BY <1>r, <1>14 DEF FailReservation, LedgersLeft, Owns, Owning, RunOf
  <2>2. UNCHANGED <<curated, holder, result>> /\ fault'[k] # {}
    BY <1>r, <1>14 DEF FailReservation, LedgersLeft
  <2> QED
    BY <1>e, <1>f, <2>1, <2>2, OwnerGivesUp
<1>15. ASSUME Invoke(t), k = kind(t) PROVE EvidenceOf(k)'
  <2>1. Owns(t, k) /\ Owns(t, k)'
    BY <1>r, <1>15 DEF Invoke, Owns, Owning, RunOf
  <2>2. StageOf(t, k)
    BY <1>e, <2>1 DEF EvidenceOf
  <2>3. /\ UNCHANGED <<holder, result>>
        /\ curated'[k] \notin Status
    BY <1>r, <2>2, <1>15 DEF Invoke, StageOf, Status
  <2>4. StageOf(t, k)'
    BY <1>r, <2>1, <2>2, <1>15
       DEF Invoke, StageOf, RunOf, OwnersHeld, OwnerOf, Owns, Owning, Compared
  <2> QED
    BY <1>e, <1>f, <2>1, <2>3, <2>4, OwnerMoves
<1>16. ASSUME FailIsolation(t), k = kind(t) PROVE EvidenceOf(k)'
  <2>1. Owns(t, k) /\ Owns(t, k)'
    BY <1>r, <1>16 DEF FailIsolation, Owns, Owning, RunOf
  <2>2. StageOf(t, k)
    BY <1>e, <2>1 DEF EvidenceOf
  <2>3. /\ UNCHANGED <<holder, result>>
        /\ curated'[k] \notin Status
    BY <1>r, <2>2, <1>16 DEF FailIsolation, StageOf, Status
  <2>4. StageOf(t, k)'
    BY <1>r, <2>1, <2>2, <1>16 DEF FailIsolation, StageOf, RunOf
  <2> QED
    BY <1>e, <1>f, <2>1, <2>3, <2>4, OwnerMoves
<1>17. ASSUME ProviderThrows(t), k = kind(t) PROVE EvidenceOf(k)'
  <2>1. Owns(t, k) /\ Owns(t, k)'
    BY <1>r, <1>17 DEF ProviderThrows, Owns, Owning, RunOf
  <2>2. StageOf(t, k)
    BY <1>e, <2>1 DEF EvidenceOf
  <2>3. /\ UNCHANGED <<holder, result>>
        /\ curated'[k] \notin Status
    BY <1>r, <2>2, <1>17 DEF ProviderThrows, StageOf, Status
  <2>4. StageOf(t, k)'
    BY <1>r, <2>1, <2>2, <1>17 DEF ProviderThrows, StageOf, RunOf, OwnersHeld
  <2> QED
    BY <1>e, <1>f, <2>1, <2>3, <2>4, OwnerMoves
<1>18. ASSUME ProviderAnswers(t), k = kind(t) PROVE EvidenceOf(k)'
  <2>1. Owns(t, k) /\ Owns(t, k)'
    BY <1>r, <1>18 DEF ProviderAnswers, Owns, Owning, RunOf
  <2>2. StageOf(t, k)
    BY <1>e, <2>1 DEF EvidenceOf
  <2>3. /\ UNCHANGED <<holder, result>>
        /\ curated'[k] \notin Status
    BY <1>r, <2>2, <1>18 DEF ProviderAnswers, StageOf, Status
  <2>4. StageOf(t, k)'
    BY <1>r, <2>1, <2>2, <1>18 DEF ProviderAnswers, StageOf, RunOf, Persisting, Batch, Write, Status, RawFile
  <2> QED
    BY <1>e, <1>f, <2>1, <2>3, <2>4, OwnerMoves
<1>19. ASSUME WriteRaw(t), k = kind(t) PROVE EvidenceOf(k)'
  <2>0. PICK w \in run[t].pending :
          /\ run' = [run EXCEPT ![t].pending = @ \ {w}]
          /\ \E content \in {w.content, "TORN"} :
               /\ content = "TORN" =>
                    w \notin Current(t) \/ (w.batch = 2 /\ "LATE" \in fault[kind(t)])
               /\ raw' = [raw EXCEPT ![kind(t)][w.file] = content]
    BY <1>19 DEF WriteRaw
  <2>5. /\ run'[t].pc = run[t].pc /\ run'[t].answer = run[t].answer
        /\ run'[t].command = run[t].command
        /\ run'[t].pending = run[t].pending \ {w} /\ run[t].pending # {}
    BY <1>r, <2>0 DEF RunOf
  <2>6. /\ UNCHANGED <<curated, holder, calls, answered, result, fault>>
    BY <1>19 DEF WriteRaw
  <2>7. \A f \in RawFile \ {w.file} : raw'[k][f] = raw[k][f]
    BY <1>r, <2>0, <1>19
  <2>1. Writing(t, k)
    BY <2>5, <1>19 DEF Writing
  <2>2. CASE ~Owns(t, k)
    <3>1. ~Owns(t, k)'
      BY <2>2, <2>5, <1>19 DEF Owns
    <3> QED
      BY <1>e, <1>f, <2>1, <2>2, <2>6, <3>1, LateWrite
  <2>3. CASE Owns(t, k)
    <3>1. Owns(t, k)' /\ StageOf(t, k)
      BY <1>e, <2>3, <2>5, <1>19 DEF Owns, EvidenceOf
    <3>2. curated[k] \notin Status
      BY <3>1 DEF StageOf, Status
    <3>3. ASSUME NEW b \in {1, 2}, NEW s, Persisting(t, k, s, b),
                 run[t].pc = IF b = 2 THEN "PERSIST_ERROR" ELSE "PERSIST",
                 b = 2 => "LATE" \notin fault[k]
          PROVE  Persisting(t, k, s, b)'
      <4>1. /\ w = Write(w.file, s, b) /\ w.file \in RawFile /\ w.content = s /\ w.batch = b
        BY <3>3 DEF Persisting, Batch, Write
      <4>2. w \in Current(t)
        BY <3>3, <4>1 DEF Current
      <4>3. raw'[k][w.file] = s
        BY <1>r, <2>0, <3>3, <4>1, <4>2, <1>19
      <4> QED
        BY <2>5, <2>7, <3>3, <4>1, <4>3 DEF Persisting, Batch, Write
    <3>4. ASSUME NEW s, Supported(k, s) PROVE Supported(k, s)'
      BY <2>1, <2>6, <3>4 DEF Supported
    <3>5. run[t].pc \in {"CATCH", "PERSIST", "PERSIST_ERROR", "CURATE", "WRITE_CURATED"}
      BY <2>3, <2>5 DEF OwnersHeld, Owns, Owning
    <3>6. StageOf(t, k)'
      BY <2>5, <2>6, <3>1, <3>3, <3>4, <3>5 DEF StageOf
    <3> QED
      BY <1>e, <1>f, <2>3, <2>6, <3>1, <3>2, <3>6, OwnerMoves
  <2> QED
    BY <2>2, <2>3
<1>20. ASSUME FailRaw(t), k = kind(t) PROVE EvidenceOf(k)'
  <2> HIDE DEF kind, At, MoveTo, Stop, Blame, files, history, Idle
  <2>1. PICK w \in run[t].pending, p \in {"CATCH", "DISPOSE"} :
          /\ GiveUp(t, w, p)
          /\ (At(t, "PERSIST") /\ p = "CATCH") \/ (At(t, "PERSIST_ERROR") /\ p = "DISPOSE")
          /\ w \in Current(t)
          /\ \E c \in {"TORN", w.content} : raw' = [raw EXCEPT ![kind(t)][w.file] = c]
    BY <1>20, FailedWrite
  <2>2. /\ fault' = [fault EXCEPT ![kind(t)] = @ \cup {"FAILED"}]
        /\ UNCHANGED <<instrument, freeze, reservation, ledger, curated, reports, holder, calls,
                       checked, answered, result, started>>
    BY <1>20 DEF FailRaw, Blame
  <2>3. /\ \A u \in Terminal \ {t} : run'[u] = run[u]
        /\ run'[t].pc = p /\ run'[t].pending = run[t].pending \ {w}
        /\ run'[t].command = run[t].command /\ run'[t].compared = run[t].compared
        /\ run'[t].listed = run[t].listed /\ run'[t].answer = run[t].answer
        /\ run'[t].verdict = run[t].verdict /\ run'[t].drift = run[t].drift
    BY <2>1 DEF GiveUp, TypeOK, RunOf
  <2>4. (run[t].pc = "PERSIST" /\ p = "CATCH") \/ (run[t].pc = "PERSIST_ERROR" /\ p = "DISPOSE")
    BY <2>1 DEF At
  <2>5. holder'[k] = holder[k] /\ curated'[k] = curated[k] /\ result'[k] = result[k]
        /\ fault'[k] = fault[k] \cup {"FAILED"}
    BY <1>r, <2>2, <1>20
  <2>6. Owns(t, k) /\ StageOf(t, k) /\ curated[k] \notin Status
    BY <1>e, <2>4, <1>20 DEF Owns, Owning, EvidenceOf, StageOf, kind, At, Status
  <2>7. CASE run[t].pc = "PERSIST_ERROR"
    <3>1. ~Owns(t, k)'
      BY <2>3, <2>4, <2>7 DEF Owns, Owning
    <3> QED
      BY <1>e, <1>f, <2>5, <2>6, <3>1, OwnerGivesUp
  <2>8. CASE run[t].pc = "PERSIST"
    <3>1. run'[t].pc = "CATCH"
      BY <2>3, <2>4, <2>8
    <3>2. Owns(t, k)'
      BY <2>3, <3>1, <1>20 DEF Owns, Owning, kind
    <3>3. StageOf(t, k)'
      BY <2>5, <2>6, <2>8, <3>1 DEF StageOf, At
    <3> QED
      BY <1>e, <1>f, <2>5, <2>6, <3>2, <3>3, OwnerMoves
  <2> QED
    BY <2>4, <2>7, <2>8
<1>21. ASSUME LoseRaw(t), k = kind(t) PROVE EvidenceOf(k)'
  <2>0. PICK w \in run[t].pending :
          /\ run' = [run EXCEPT ![t].pending = @ \ {w}]
          /\ w \notin Current(t) \/ run[t].pc \notin {"PERSIST", "PERSIST_ERROR"}
          /\ raw' = [raw EXCEPT ![kind(t)][w.file] = "TORN"]
    BY <1>21 DEF LoseRaw
  <2>5. /\ run'[t].pc = run[t].pc /\ run'[t].answer = run[t].answer
        /\ run'[t].command = run[t].command
        /\ run'[t].pending = run[t].pending \ {w} /\ run[t].pending # {}
    BY <1>r, <2>0 DEF RunOf
  <2>6. /\ UNCHANGED <<curated, holder, calls, answered, result, fault>>
    BY <1>21 DEF LoseRaw
  <2>7. \A f \in RawFile \ {w.file} : raw'[k][f] = raw[k][f]
    BY <1>r, <2>0, <1>21
  <2>1. Writing(t, k)
    BY <2>5, <1>21 DEF Writing
  <2>2. CASE ~Owns(t, k)
    <3>1. ~Owns(t, k)'
      BY <2>2, <2>5, <1>21 DEF Owns
    <3> QED
      BY <1>e, <1>f, <2>1, <2>2, <2>6, <3>1, LateWrite
  <2>3. CASE Owns(t, k)
    <3>1. Owns(t, k)' /\ StageOf(t, k)
      BY <1>e, <2>3, <2>5, <1>21 DEF Owns, EvidenceOf
    <3>2. curated[k] \notin Status
      BY <3>1 DEF StageOf, Status
    <3>3. ASSUME NEW b \in {1, 2}, NEW s, Persisting(t, k, s, b),
                 run[t].pc = IF b = 2 THEN "PERSIST_ERROR" ELSE "PERSIST"
          PROVE  Persisting(t, k, s, b)'
      BY <2>0, <3>3 DEF Persisting, Batch, Write, Current
    <3>4. ASSUME NEW s, Supported(k, s) PROVE Supported(k, s)'
      BY <2>1, <2>6, <3>4 DEF Supported
    <3>5. run[t].pc \in {"CATCH", "PERSIST", "PERSIST_ERROR", "CURATE", "WRITE_CURATED"}
      BY <2>3, <2>5 DEF OwnersHeld, Owns, Owning
    <3>6. StageOf(t, k)'
      BY <2>5, <2>6, <3>1, <3>3, <3>4, <3>5 DEF StageOf
    <3> QED
      BY <1>e, <1>f, <2>3, <2>6, <3>1, <3>2, <3>6, OwnerMoves
  <2> QED
    BY <2>2, <2>3
<1>22. ASSUME Persisted(t), k = kind(t) PROVE EvidenceOf(k)'
  <2>1. Owns(t, k) /\ Owns(t, k)'
    BY <1>r, <1>22 DEF Persisted, Current, Owns, Owning, RunOf
  <2>2. StageOf(t, k)
    BY <1>e, <2>1 DEF EvidenceOf
  <2>3. /\ UNCHANGED <<holder, result>>
        /\ curated'[k] \notin Status
    BY <1>r, <2>2, <1>22 DEF Persisted, Current, StageOf, Status
  <2>4. StageOf(t, k)'
    <3>1. \A u \in Terminal : Writing(u, k) => u = t
      BY <2>1 DEF OwnersHeld, OwnerOf
    <3>2. \A u \in Terminal : Writing(u, k)' => Writing(u, k)
      BY <1>r, <1>22 DEF Persisted, Writing, RunOf
    <3>3. run'[t].pc = "CURATE" /\ run'[t].answer = run[t].answer /\ run'[t].pending = run[t].pending
      BY <1>r, <1>22 DEF Persisted, RunOf
    <3>4. UNCHANGED <<raw, curated, fault, answered, calls>>
      BY <1>22 DEF Persisted
    <3>5. ASSUME NEW b \in {1, 2}, run[t].pc = IF b = 2 THEN "PERSIST_ERROR" ELSE "PERSIST",
                 Persisting(t, k, run[t].answer, b)
          PROVE  run[t].pending = {} /\ \A f \in RawFile : raw[k][f] = run[t].answer
      <4>1. \A w \in run[t].pending : w.batch = b
        BY <3>5 DEF Persisting, Batch, Write
      <4>2. run[t].pending = Current(t)
        BY <3>5, <4>1 DEF Current
      <4> QED
        BY <3>5, <4>2, <1>22 DEF Persisted, Persisting
    <3>6. ASSUME run[t].pending = {} PROVE \A u \in Terminal : ~Writing(u, k)'
      BY <3>1, <3>2, <3>6 DEF Writing
    <3>7. CASE run[t].pc = "PERSIST"
      <4>1. /\ run[t].answer \in Status /\ answered[k] = run[t].answer /\ calls[k] = 1
            /\ Persisting(t, k, run[t].answer, 1)
        BY <2>2, <3>7 DEF StageOf
      <4>2. Supported(k, run[t].answer)'
        BY <3>3, <3>4, <3>5, <3>6, <3>7, <4>1 DEF Supported
      <4> QED
        BY <2>2, <3>3, <3>4, <3>7, <4>1, <4>2 DEF StageOf
    <3>8. CASE run[t].pc = "PERSIST_ERROR"
      <4>1. /\ run[t].answer = "ERROR" /\ run[t].answer \in Status
            /\ fault[k] # {} \/ (answered[k] = "ERROR" /\ calls[k] = 1)
            /\ "LATE" \in fault[k] \/ Persisting(t, k, run[t].answer, 2)
        BY <2>2, <3>8 DEF StageOf, Status
      <4>2. Supported(k, run[t].answer)'
        BY <3>3, <3>4, <3>5, <3>6, <3>8, <4>1 DEF Supported
      <4> QED
        BY <2>2, <3>3, <3>4, <3>8, <4>1, <4>2 DEF StageOf
    <3> QED
      BY <3>7, <3>8, <1>22 DEF Persisted
  <2> QED
    BY <1>e, <1>f, <2>1, <2>3, <2>4, OwnerMoves
<1>23. ASSUME FailRelease(t), k = kind(t) PROVE EvidenceOf(k)'
  <2>1. Owns(t, k) /\ Owns(t, k)'
    BY <1>r, <1>23 DEF FailRelease, Current, Owns, Owning, RunOf
  <2>2. StageOf(t, k)
    BY <1>e, <2>1 DEF EvidenceOf
  <2>3. /\ UNCHANGED <<holder, result>>
        /\ curated'[k] \notin Status
    BY <1>r, <2>2, <1>23 DEF FailRelease, Current, StageOf, Status
  <2>4. StageOf(t, k)'
    BY <1>r, <2>1, <2>2, <1>23 DEF FailRelease, Current, StageOf, RunOf
  <2> QED
    BY <1>e, <1>f, <2>1, <2>3, <2>4, OwnerMoves
<1>24. ASSUME Catch(t), k = kind(t) PROVE EvidenceOf(k)'
  <2>1. Owns(t, k) /\ Owns(t, k)'
    BY <1>r, <1>24 DEF Catch, Owns, Owning, RunOf
  <2>2. StageOf(t, k)
    BY <1>e, <2>1 DEF EvidenceOf
  <2>3. /\ UNCHANGED <<holder, result>>
        /\ curated'[k] \notin Status
    BY <1>r, <2>2, <1>24 DEF Catch, StageOf, Status
  <2>4. StageOf(t, k)'
    <3>1. /\ run'[t].pc = "PERSIST_ERROR" /\ run'[t].answer = "ERROR"
          /\ run'[t].pending = run[t].pending \cup Batch("ERROR", 2)
      BY <1>r, <1>24 DEF Catch, RunOf
    <3>2. UNCHANGED <<raw, curated, answered, calls>> /\ fault[k] \subseteq fault'[k]
      BY <1>r, <1>24 DEF Catch
    <3>3. CASE run[t].pending = {}
      <4>1. Persisting(t, k, "ERROR", 2)'
        BY <3>1, <3>3 DEF Persisting, Batch
      <4> QED
        BY <2>2, <3>1, <3>2, <4>1, <1>24 DEF Catch, StageOf
    <3>4. CASE run[t].pending # {}
      <4>1. fault'[k] = fault[k] \cup {"LATE"}
        BY <1>r, <3>4, <1>24 DEF Catch
      <4> QED
        BY <2>2, <3>1, <3>2, <4>1, <1>24 DEF Catch, StageOf
    <3> QED
      BY <3>3, <3>4
  <2> QED
    BY <1>e, <1>f, <2>1, <2>3, <2>4, OwnerMoves
<1>25. ASSUME OpenCurated(t), k = kind(t) PROVE EvidenceOf(k)'
  <2>1. Owns(t, k) /\ Owns(t, k)'
    BY <1>r, <1>25 DEF OpenCurated, Owns, Owning, RunOf
  <2>2. StageOf(t, k)
    BY <1>e, <2>1 DEF EvidenceOf
  <2>3. /\ UNCHANGED <<holder, result>>
        /\ curated'[k] \notin Status
    BY <1>r, <2>2, <1>25 DEF OpenCurated, StageOf, Status
  <2>4. StageOf(t, k)'
    <3>1. /\ run'[t].pc = "WRITE_CURATED" /\ run'[t].answer = run[t].answer
          /\ \A u \in Terminal : Writing(u, k)' <=> Writing(u, k)
      BY <1>r, <1>25 DEF OpenCurated, Writing, RunOf
    <3>2. UNCHANGED <<raw, fault, answered, calls>> /\ curated'[k] = "PARTIAL"
      BY <1>r, <1>25 DEF OpenCurated
    <3>3. run[t].answer \in Status /\ Supported(k, run[t].answer)
      BY <2>2, <1>25 DEF OpenCurated, StageOf
    <3>4. Supported(k, run[t].answer)'
      BY <3>1, <3>2, <3>3 DEF Supported
    <3> QED
      BY <3>1, <3>2, <3>3, <3>4 DEF StageOf
  <2> QED
    BY <1>e, <1>f, <2>1, <2>3, <2>4, OwnerMoves
<1>26. ASSUME WriteCurated(t), k = kind(t) PROVE EvidenceOf(k)'
  <2>1. Owns(t, k) /\ ~Owns(t, k)'
    BY <1>r, <1>26 DEF WriteCurated, Owns, Owning, RunOf
  <2>2. StageOf(t, k)
    BY <1>e, <2>1 DEF EvidenceOf
  <2>3. \A u \in Terminal : Owns(u, k) => u = t
    BY <2>1 DEF OwnersHeld, OwnerOf
  <2>4. \A u \in Terminal : ~Owns(u, k)'
    BY <1>f, <2>1, <2>3 DEF Owns
  <2>5. run[t].answer \in Status /\ Supported(k, run[t].answer) /\ curated[k] = "PARTIAL"
    BY <2>2, <1>26 DEF WriteCurated, StageOf
  <2>6. /\ curated'[k] = run[t].answer
        /\ UNCHANGED <<raw, fault, answered, calls, result>>
    BY <1>r, <1>26 DEF WriteCurated
  <2>7. \A u \in Terminal : Writing(u, k)' => Writing(u, k)
    BY <1>r, <1>26 DEF WriteCurated, Writing, RunOf
  <2>8. Supported(k, curated[k])'
    BY <2>5, <2>6, <2>7 DEF Supported
  <2>9. result[k] = "NONE"
    BY <1>e, <1>f, <2>5 DEF EvidenceOf, Status
  <2> QED
    BY <2>4, <2>5, <2>6, <2>8, <2>9 DEF EvidenceOf
<1>27. ASSUME FailCuration(t), k = kind(t) PROVE EvidenceOf(k)'
  <2>1. Owns(t, k) /\ ~Owns(t, k)'
    BY <1>r, <1>27 DEF FailCuration, Owns, Owning, RunOf
  <2>2. UNCHANGED <<raw, calls, answered, holder, result>> /\ fault'[k] = fault[k] \cup {"FAILED"}
    BY <1>r, <1>27 DEF FailCuration
  <2>3. CASE curated' = curated
    BY <1>e, <1>f, <2>1, <2>2, <2>3, OwnerGivesUp
  <2>4. CASE At(t, "WRITE_CURATED") /\ curated' = [curated EXCEPT ![k] = run[t].answer]
    <3>1. StageOf(t, k)
      BY <1>e, <2>1 DEF EvidenceOf
    <3>2. \A u \in Terminal : Owns(u, k) => u = t
      BY <2>1 DEF OwnersHeld, OwnerOf
    <3>3. \A u \in Terminal : ~Owns(u, k)'
      BY <1>f, <2>1, <3>2 DEF Owns
    <3>4. run[t].answer \in Status /\ Supported(k, run[t].answer) /\ curated[k] = "PARTIAL"
      BY <2>4, <3>1 DEF StageOf
    <3>5. curated'[k] = run[t].answer
      BY <1>r, <2>4
    <3>6. \A u \in Terminal : Writing(u, k)' => Writing(u, k)
      BY <1>r, <1>27 DEF FailCuration, Writing, RunOf
    <3>7. Supported(k, curated[k])'
      BY <2>2, <3>4, <3>5, <3>6 DEF Supported
    <3>8. result[k] = "NONE"
      BY <1>e, <1>f, <3>4 DEF EvidenceOf, Status
    <3> QED
      BY <2>2, <3>3, <3>4, <3>5, <3>7, <3>8 DEF EvidenceOf
  <2> QED
    BY <2>3, <2>4, <1>27 DEF FailCuration
<1>28. ASSUME Dispose(t), k = kind(t) PROVE EvidenceOf(k)'
  <2>1. ~Owns(t, k) /\ ~Owns(t, k)' /\ (Writing(t, k)' => Writing(t, k))
    BY <1>r, <1>28 DEF Dispose, Leave, Owns, Owning, Writing, RunOf
  <2>2. /\ UNCHANGED <<raw, curated, holder, calls, answered, fault>>
        /\ result'[k] \in {"NONE", curated[k]}
    BY <1>r, <1>e, <1>28 DEF Dispose, Leave, EvidenceOf, EvidenceHeld
  <2> QED
    BY <1>e, <1>f, <2>1, <2>2, Untouched
<1>29. ASSUME FailDispose(t), k = kind(t) PROVE EvidenceOf(k)'
  <2>1. ~Owns(t, k) /\ ~Owns(t, k)' /\ (Writing(t, k)' => Writing(t, k))
    BY <1>r, <1>29 DEF FailDispose, Leave, Owns, Owning, Writing, RunOf
  <2>2. /\ UNCHANGED <<raw, curated, holder, calls, answered, fault>>
        /\ result'[k] \in {"NONE", curated[k]}
    BY <1>r, <1>e, <1>29 DEF FailDispose, Leave, EvidenceOf
  <2> QED
    BY <1>e, <1>f, <2>1, <2>2, Untouched
<1>30. ASSUME ReadEvidence(t) PROVE EvidenceOf(k)'
  <2>1. ~Owns(t, k) /\ ~Owns(t, k)' /\ (Writing(t, k)' => Writing(t, k))
    BY <1>r, <1>30 DEF ReadEvidence, Readable, Owns, Owning, Writing, RunOf
  <2>2. /\ UNCHANGED <<raw, curated, holder, calls, answered, fault>>
        /\ result'[k] \in {"NONE", curated[k]}
    BY <1>r, <1>e, <1>30 DEF ReadEvidence, Readable, EvidenceOf
  <2> QED
    BY <1>e, <1>f, <2>1, <2>2, Untouched
<1>31. ASSUME ReadTraces(t) PROVE EvidenceOf(k)'
  <2>1. ~Owns(t, k) /\ ~Owns(t, k)' /\ (Writing(t, k)' => Writing(t, k))
    BY <1>r, <1>31 DEF ReadTraces, Owns, Owning, Writing, RunOf
  <2>2. /\ UNCHANGED <<raw, curated, holder, calls, answered, fault>>
        /\ result'[k] \in {"NONE", curated[k]}
    BY <1>r, <1>e, <1>31 DEF ReadTraces, EvidenceOf
  <2> QED
    BY <1>e, <1>f, <2>1, <2>2, Untouched
<1>32. ASSUME OpenReports(t) PROVE EvidenceOf(k)'
  <2>1. ~Owns(t, k) /\ ~Owns(t, k)' /\ (Writing(t, k)' => Writing(t, k))
    BY <1>r, <1>32 DEF OpenReports, Owns, Owning, Writing, RunOf
  <2>2. /\ UNCHANGED <<raw, curated, holder, calls, answered, fault>>
        /\ result'[k] \in {"NONE", curated[k]}
    BY <1>r, <1>e, <1>32 DEF OpenReports, EvidenceOf
  <2> QED
    BY <1>e, <1>f, <2>1, <2>2, Untouched
<1>33. ASSUME FinishReports(t) PROVE EvidenceOf(k)'
  <2>1. ~Owns(t, k) /\ ~Owns(t, k)' /\ (Writing(t, k)' => Writing(t, k))
    BY <1>r, <1>33 DEF FinishReports, Owns, Owning, Writing, RunOf
  <2>2. /\ UNCHANGED <<raw, curated, holder, calls, answered, fault>>
        /\ result'[k] \in {"NONE", curated[k]}
    BY <1>r, <1>e, <1>33 DEF FinishReports, EvidenceOf
  <2> QED
    BY <1>e, <1>f, <2>1, <2>2, Untouched
<1>34. ASSUME FailReports(t) PROVE EvidenceOf(k)'
  <2>1. ~Owns(t, k) /\ ~Owns(t, k)' /\ (Writing(t, k)' => Writing(t, k))
    BY <1>r, <1>34 DEF FailReports, Owns, Owning, Writing, RunOf
  <2>2. /\ UNCHANGED <<raw, curated, holder, calls, answered, fault>>
        /\ result'[k] \in {"NONE", curated[k]}
    BY <1>r, <1>e, <1>34 DEF FailReports, EvidenceOf
  <2> QED
    BY <1>e, <1>f, <2>1, <2>2, Untouched
<1>35. ASSUME Kill(t), k = kind(t) PROVE EvidenceOf(k)'
  <2>0. CASE ~Owns(t, k)
    <3>1. ~Owns(t, k)' /\ (Writing(t, k)' => Writing(t, k))
      BY <1>r, <1>35 DEF Kill, Owns, Owning, Writing, RunOf
    <3>2. /\ UNCHANGED <<raw, curated, holder, calls, answered, result>>
          /\ fault[k] \subseteq fault'[k]
      BY <1>r, <1>35 DEF Kill
    <3>3. result'[k] \in {"NONE", curated[k]}
      BY <1>e, <3>2 DEF EvidenceOf
    <3> QED
      BY <1>e, <1>f, <2>0, <3>1, <3>2, <3>3, Untouched
  <2>1. CASE Owns(t, k)
    <3>1. ~Owns(t, k)'
      BY <1>r, <1>35 DEF Kill, Owns, Owning, RunOf
    <3>2. UNCHANGED <<curated, holder, result>> /\ fault'[k] # {}
      BY <1>r, <1>35 DEF Kill
    <3> QED
      BY <1>e, <1>f, <2>1, <3>1, <3>2, OwnerGivesUp
  <2> QED
    BY <2>0, <2>1
<1>36. ASSUME NEW command \in Kind \cup {"freeze", "report"}, Start(t, command) PROVE EvidenceOf(k)'
  <2>1. ~Owns(t, k) /\ ~Owns(t, k)' /\ (Writing(t, k)' => Writing(t, k))
    BY <1>r, <1>36 DEF Start, First, Owns, Owning, Writing, RunOf
  <2>2. /\ UNCHANGED <<raw, curated, holder, calls, answered, fault>>
        /\ result'[k] \in {"NONE", curated[k]}
    BY <1>r, <1>e, <1>36 DEF Start, First, EvidenceOf
  <2> QED
    BY <1>e, <1>f, <2>1, <2>2, Untouched
<1>37. ASSUME OpenLedger(t), k = kind(t) PROVE EvidenceOf(k)'
  <2>1. Owns(t, k) /\ Owns(t, k)'
    BY <1>r, <1>37 DEF OpenLedger, Owns, Owning, RunOf
  <2>2. StageOf(t, k)
    BY <1>e, <2>1 DEF EvidenceOf
  <2>3. /\ UNCHANGED <<holder, result>>
        /\ curated'[k] \notin Status
    BY <1>r, <2>2, <1>37 DEF OpenLedger, StageOf, Status
  <2>4. StageOf(t, k)'
    BY <1>r, <2>1, <2>2, <1>37 DEF OpenLedger, StageOf, RunOf
  <2> QED
    BY <1>e, <1>f, <2>1, <2>3, <2>4, OwnerMoves
<1> HIDE DEF kind, At, MoveTo, Stop, Blame, files, history, Idle
<1> QED
  BY StepKinds, Zenon, <1>1, <1>2, <1>3, <1>4, <1>5, <1>6, <1>7, <1>8, <1>9, <1>10, <1>11,
     <1>12, <1>13, <1>14, <1>15, <1>16, <1>17, <1>18, <1>19, <1>20, <1>21,
     <1>22, <1>23, <1>24, <1>25, <1>26, <1>27, <1>28, <1>29, <1>30, <1>31,
     <1>32, <1>33, <1>34, <1>35, <1>36, <1>37
     DEF Acts

\* What a command is about to return has been written to its report.
LEMMA VerdictStep ==
  ASSUME TypeOK, OwnersHeld, EvidenceHeld, NEW t \in Terminal, StepOf(t)
  PROVE  VerdictsHeld'
<1> USE DEF kind, At, MoveTo, Stop, Blame, files, history, Idle, RunOf, VerdictsHeld
<1>r. /\ run \in [Terminal -> RunOf] /\ curated \in [Kind -> Status \cup {"ABSENT", "PARTIAL"}]
      /\ {"NONE"} \cap Status = {}
  BY DEF TypeOK, Status
<1>v. VerdictsHeld
  BY DEF EvidenceHeld
<1>p. \A k \in Kind : curated[k] \in Status => curated'[k] = curated[k]
  BY ReportStays DEF Keeps
<1>1. ASSUME Abort(t) PROVE VerdictsHeld'
  BY <1>r, <1>v, <1>p, <1>1 DEF Abort
<1>2. ASSUME Fingerprint(t) PROVE VerdictsHeld'
  BY <1>r, <1>v, <1>p, <1>2 DEF Fingerprint
<1>3. ASSUME CreateFreeze(t) PROVE VerdictsHeld'
  BY <1>r, <1>v, <1>p, <1>3 DEF CreateFreeze, ExclusiveCreates
<1>4. ASSUME WriteFreeze(t) PROVE VerdictsHeld'
  BY <1>r, <1>v, <1>p, <1>4 DEF WriteFreeze
<1>5. ASSUME FailFreeze(t) PROVE VerdictsHeld'
  BY <1>r, <1>v, <1>p, <1>5 DEF FailFreeze
<1>6. ASSUME LoadFreeze(t), kind(t) \in Kind PROVE VerdictsHeld'
  BY <1>r, <1>v, <1>p, <1>6 DEF LoadFreeze
<1>7. ASSUME AssertFreezeCurrent(t), kind(t) \in Kind PROVE VerdictsHeld'
  BY <1>r, <1>v, <1>p, <1>7 DEF AssertFreezeCurrent
<1>8. ASSUME PassGate(t), kind(t) \in Kind PROVE VerdictsHeld'
  BY <1>r, <1>v, <1>p, <1>8 DEF PassGate, BaselineCanaryPassed
<1>9. ASSUME Reserve(t), kind(t) \in Kind PROVE VerdictsHeld'
  BY <1>r, <1>v, <1>p, <1>9 DEF Reserve, ExclusiveCreates
<1>10. ASSUME RefuseReservation(t), kind(t) \in Kind PROVE VerdictsHeld'
  BY <1>r, <1>v, <1>p, <1>10 DEF RefuseReservation
<1>11. ASSUME Record(t), kind(t) \in Kind PROVE VerdictsHeld'
  BY <1>r, <1>v, <1>p, <1>11 DEF Record
<1>12. ASSUME ListReservations(t), kind(t) \in Kind PROVE VerdictsHeld'
  BY <1>r, <1>v, <1>p, <1>12 DEF ListReservations
<1>13. ASSUME WriteLedger(t), kind(t) \in Kind PROVE VerdictsHeld'
  BY <1>r, <1>v, <1>p, <1>13 DEF WriteLedger, LedgersLeft
<1>14. ASSUME FailReservation(t), kind(t) \in Kind PROVE VerdictsHeld'
  BY <1>r, <1>v, <1>p, <1>14 DEF FailReservation, LedgersLeft
<1>15. ASSUME Invoke(t), kind(t) \in Kind PROVE VerdictsHeld'
  BY <1>r, <1>v, <1>p, <1>15 DEF Invoke
<1>16. ASSUME FailIsolation(t), kind(t) \in Kind PROVE VerdictsHeld'
  BY <1>r, <1>v, <1>p, <1>16 DEF FailIsolation
<1>17. ASSUME ProviderThrows(t), kind(t) \in Kind PROVE VerdictsHeld'
  BY <1>r, <1>v, <1>p, <1>17 DEF ProviderThrows
<1>18. ASSUME ProviderAnswers(t), kind(t) \in Kind PROVE VerdictsHeld'
  BY <1>r, <1>v, <1>p, <1>18 DEF ProviderAnswers
<1>19. ASSUME WriteRaw(t), kind(t) \in Kind PROVE VerdictsHeld'
  BY <1>r, <1>v, <1>p, <1>19 DEF WriteRaw
<1>20. ASSUME FailRaw(t), kind(t) \in Kind PROVE VerdictsHeld'
  <2> HIDE DEF kind, At, MoveTo, Stop, Blame, files, history, Idle, RunOf, VerdictsHeld
  <2>1. PICK w \in run[t].pending, p \in {"CATCH", "DISPOSE"} :
          /\ GiveUp(t, w, p)
          /\ (At(t, "PERSIST") /\ p = "CATCH") \/ (At(t, "PERSIST_ERROR") /\ p = "DISPOSE")
          /\ w \in Current(t)
          /\ \E c \in {"TORN", w.content} : raw' = [raw EXCEPT ![kind(t)][w.file] = c]
    BY <1>20, FailedWrite
  <2>2. /\ fault' = [fault EXCEPT ![kind(t)] = @ \cup {"FAILED"}]
        /\ UNCHANGED <<instrument, freeze, reservation, ledger, curated, reports, holder, calls,
                       checked, answered, result, started>>
    BY <1>20 DEF FailRaw, Blame
  <2>3. /\ \A u \in Terminal \ {t} : run'[u] = run[u]
        /\ run'[t].pc = p /\ run'[t].pending = run[t].pending \ {w}
        /\ run'[t].command = run[t].command /\ run'[t].compared = run[t].compared
        /\ run'[t].listed = run[t].listed /\ run'[t].answer = run[t].answer
        /\ run'[t].verdict = run[t].verdict /\ run'[t].drift = run[t].drift
    BY <2>1 DEF GiveUp, TypeOK, RunOf
  <2>4. (run[t].pc = "PERSIST" /\ p = "CATCH") \/ (run[t].pc = "PERSIST_ERROR" /\ p = "DISPOSE")
    BY <2>1 DEF At
  <2> QED
    BY <1>r, <1>v, <1>p, <2>2, <2>3, <2>4, <1>20
       DEF kind, At, MoveTo, Stop, Blame, files, history, Idle, RunOf, VerdictsHeld
<1>21. ASSUME LoseRaw(t), kind(t) \in Kind PROVE VerdictsHeld'
  BY <1>r, <1>v, <1>p, <1>21 DEF LoseRaw, Current
<1>22. ASSUME Persisted(t), kind(t) \in Kind PROVE VerdictsHeld'
  BY <1>r, <1>v, <1>p, <1>22 DEF Persisted, Current
<1>23. ASSUME FailRelease(t), kind(t) \in Kind PROVE VerdictsHeld'
  BY <1>r, <1>v, <1>p, <1>23 DEF FailRelease, Current
<1>24. ASSUME Catch(t), kind(t) \in Kind PROVE VerdictsHeld'
  BY <1>r, <1>v, <1>p, <1>24 DEF Catch
<1>25. ASSUME OpenCurated(t), kind(t) \in Kind PROVE VerdictsHeld'
  BY <1>r, <1>v, <1>p, <1>25 DEF OpenCurated
<1>26. ASSUME WriteCurated(t), kind(t) \in Kind PROVE VerdictsHeld'
  BY <1>r, <1>v, <1>p, <1>26 DEF WriteCurated
<1>27. ASSUME FailCuration(t), kind(t) \in Kind PROVE VerdictsHeld'
  BY <1>r, <1>v, <1>p, <1>27 DEF FailCuration
<1>28. ASSUME Dispose(t), kind(t) \in Kind PROVE VerdictsHeld'
  BY <1>r, <1>v, <1>p, <1>28 DEF Dispose, Leave
<1>29. ASSUME FailDispose(t), kind(t) \in Kind PROVE VerdictsHeld'
  BY <1>r, <1>v, <1>p, <1>29 DEF FailDispose, Leave
<1>30. ASSUME ReadEvidence(t) PROVE VerdictsHeld'
  BY <1>r, <1>v, <1>p, <1>30 DEF ReadEvidence, Readable
<1>31. ASSUME ReadTraces(t) PROVE VerdictsHeld'
  BY <1>r, <1>v, <1>p, <1>31 DEF ReadTraces
<1>32. ASSUME OpenReports(t) PROVE VerdictsHeld'
  BY <1>r, <1>v, <1>p, <1>32 DEF OpenReports
<1>33. ASSUME FinishReports(t) PROVE VerdictsHeld'
  BY <1>r, <1>v, <1>p, <1>33 DEF FinishReports
<1>34. ASSUME FailReports(t) PROVE VerdictsHeld'
  BY <1>r, <1>v, <1>p, <1>34 DEF FailReports
<1>35. ASSUME Kill(t), kind(t) \in Kind PROVE VerdictsHeld'
  BY <1>r, <1>v, <1>p, <1>35 DEF Kill
<1>36. ASSUME NEW command \in Kind \cup {"freeze", "report"}, Start(t, command) PROVE VerdictsHeld'
  BY <1>r, <1>v, <1>p, <1>36 DEF Start, First
<1>37. ASSUME OpenLedger(t), kind(t) \in Kind PROVE VerdictsHeld'
  BY <1>r, <1>v, <1>p, <1>37 DEF OpenLedger
<1> HIDE DEF kind, At, MoveTo, Stop, Blame, files, history, Idle, RunOf, VerdictsHeld
<1> QED
  BY StepKinds, Zenon, <1>1, <1>2, <1>3, <1>4, <1>5, <1>6, <1>7, <1>8, <1>9, <1>10, <1>11,
     <1>12, <1>13, <1>14, <1>15, <1>16, <1>17, <1>18, <1>19, <1>20, <1>21,
     <1>22, <1>23, <1>24, <1>25, <1>26, <1>27, <1>28, <1>29, <1>30, <1>31,
     <1>32, <1>33, <1>34, <1>35, <1>36, <1>37
     DEF Acts


\* Where the gates lead: the part of DeepFollowsBaseline and of
\* ReportsFollowExperiments that is inductive.
Led ==
  /\ calls["e2-deep"] > 0 => curated["e2-baseline"] = "PASS"
  /\ reports.state # "ABSENT" => \A k \in Kind : Readable(k)
  /\ reports.g2 = "CONTINUE" => curated["e2-deep"] = "PASS"

\* What a gate found still stands.
LEMMA GatesStep ==
  ASSUME TypeOK, OwnersHeld, EvidenceHeld, GatesPassed, Led, NEW t \in Terminal, StepOf(t)
  PROVE  GatesPassed' /\ Led'
<1> USE KindAssumption
       DEF kind, At, MoveTo, Stop, Blame, files, history, Idle, RunOf, Owning, Readable,
           GatesPassed, Led
<1>r. /\ run \in [Terminal -> RunOf] /\ curated \in [Kind -> Status \cup {"ABSENT", "PARTIAL"}]
      /\ calls \in [Kind -> 0 .. 1]
  BY DEF TypeOK
<1>p. \A k \in Kind : curated[k] \in Status => curated'[k] = curated[k]
  BY ReportStays DEF Keeps
<1>s. "PASS" \in Status
  BY DEF Status
<1>1. ASSUME Abort(t) PROVE GatesPassed' /\ Led'
  BY <1>r, <1>p, <1>s, <1>1 DEF Abort
<1>2. ASSUME Fingerprint(t) PROVE GatesPassed' /\ Led'
  BY <1>r, <1>p, <1>s, <1>2 DEF Fingerprint
<1>3. ASSUME CreateFreeze(t) PROVE GatesPassed' /\ Led'
  BY <1>r, <1>p, <1>s, <1>3 DEF CreateFreeze, ExclusiveCreates
<1>4. ASSUME WriteFreeze(t) PROVE GatesPassed' /\ Led'
  BY <1>r, <1>p, <1>s, <1>4 DEF WriteFreeze
<1>5. ASSUME FailFreeze(t) PROVE GatesPassed' /\ Led'
  BY <1>r, <1>p, <1>s, <1>5 DEF FailFreeze
<1>6. ASSUME LoadFreeze(t), kind(t) \in Kind PROVE GatesPassed' /\ Led'
  BY <1>r, <1>p, <1>s, <1>6 DEF LoadFreeze
<1>7. ASSUME AssertFreezeCurrent(t), kind(t) \in Kind PROVE GatesPassed' /\ Led'
  BY <1>r, <1>p, <1>s, <1>7 DEF AssertFreezeCurrent
<1>8. ASSUME PassGate(t), kind(t) \in Kind PROVE GatesPassed' /\ Led'
  BY <1>r, <1>p, <1>s, <1>8 DEF PassGate, BaselineCanaryPassed
<1>9. ASSUME Reserve(t), kind(t) \in Kind PROVE GatesPassed' /\ Led'
  BY <1>r, <1>p, <1>s, <1>9 DEF Reserve, ExclusiveCreates
<1>10. ASSUME RefuseReservation(t), kind(t) \in Kind PROVE GatesPassed' /\ Led'
  BY <1>r, <1>p, <1>s, <1>10 DEF RefuseReservation
<1>11. ASSUME Record(t), kind(t) \in Kind PROVE GatesPassed' /\ Led'
  BY <1>r, <1>p, <1>s, <1>11 DEF Record
<1>12. ASSUME ListReservations(t), kind(t) \in Kind PROVE GatesPassed' /\ Led'
  BY <1>r, <1>p, <1>s, <1>12 DEF ListReservations
<1>13. ASSUME WriteLedger(t), kind(t) \in Kind PROVE GatesPassed' /\ Led'
  BY <1>r, <1>p, <1>s, <1>13 DEF WriteLedger, LedgersLeft
<1>14. ASSUME FailReservation(t), kind(t) \in Kind PROVE GatesPassed' /\ Led'
  BY <1>r, <1>p, <1>s, <1>14 DEF FailReservation, LedgersLeft
<1>15. ASSUME Invoke(t), kind(t) \in Kind PROVE GatesPassed' /\ Led'
  BY <1>r, <1>p, <1>s, <1>15 DEF Invoke
<1>16. ASSUME FailIsolation(t), kind(t) \in Kind PROVE GatesPassed' /\ Led'
  BY <1>r, <1>p, <1>s, <1>16 DEF FailIsolation
<1>17. ASSUME ProviderThrows(t), kind(t) \in Kind PROVE GatesPassed' /\ Led'
  BY <1>r, <1>p, <1>s, <1>17 DEF ProviderThrows
<1>18. ASSUME ProviderAnswers(t), kind(t) \in Kind PROVE GatesPassed' /\ Led'
  BY <1>r, <1>p, <1>s, <1>18 DEF ProviderAnswers
<1>19. ASSUME WriteRaw(t), kind(t) \in Kind PROVE GatesPassed' /\ Led'
  BY <1>r, <1>p, <1>s, <1>19 DEF WriteRaw
<1>20. ASSUME FailRaw(t), kind(t) \in Kind PROVE GatesPassed' /\ Led'
  <2> HIDE DEF kind, At, MoveTo, Stop, Blame, files, history, Idle, RunOf, Owning, Readable,
              GatesPassed, Led
  <2>1. PICK w \in run[t].pending, p \in {"CATCH", "DISPOSE"} :
          /\ GiveUp(t, w, p)
          /\ (At(t, "PERSIST") /\ p = "CATCH") \/ (At(t, "PERSIST_ERROR") /\ p = "DISPOSE")
          /\ w \in Current(t)
          /\ \E c \in {"TORN", w.content} : raw' = [raw EXCEPT ![kind(t)][w.file] = c]
    BY <1>20, FailedWrite
  <2>2. /\ fault' = [fault EXCEPT ![kind(t)] = @ \cup {"FAILED"}]
        /\ UNCHANGED <<instrument, freeze, reservation, ledger, curated, reports, holder, calls,
                       checked, answered, result, started>>
    BY <1>20 DEF FailRaw, Blame
  <2>3. /\ \A u \in Terminal \ {t} : run'[u] = run[u]
        /\ run'[t].pc = p /\ run'[t].pending = run[t].pending \ {w}
        /\ run'[t].command = run[t].command /\ run'[t].compared = run[t].compared
        /\ run'[t].listed = run[t].listed /\ run'[t].answer = run[t].answer
        /\ run'[t].verdict = run[t].verdict /\ run'[t].drift = run[t].drift
    BY <2>1 DEF GiveUp, TypeOK, RunOf
  <2>4. (run[t].pc = "PERSIST" /\ p = "CATCH") \/ (run[t].pc = "PERSIST_ERROR" /\ p = "DISPOSE")
    BY <2>1 DEF At
  <2> QED
    BY <1>r, <1>p, <1>s, <2>2, <2>3, <2>4, <1>20
       DEF kind, At, MoveTo, Stop, Blame, files, history, Idle, RunOf, Owning, Readable,
              GatesPassed, Led
<1>21. ASSUME LoseRaw(t), kind(t) \in Kind PROVE GatesPassed' /\ Led'
  BY <1>r, <1>p, <1>s, <1>21 DEF LoseRaw, Current
<1>22. ASSUME Persisted(t), kind(t) \in Kind PROVE GatesPassed' /\ Led'
  BY <1>r, <1>p, <1>s, <1>22 DEF Persisted, Current
<1>23. ASSUME FailRelease(t), kind(t) \in Kind PROVE GatesPassed' /\ Led'
  BY <1>r, <1>p, <1>s, <1>23 DEF FailRelease, Current
<1>24. ASSUME Catch(t), kind(t) \in Kind PROVE GatesPassed' /\ Led'
  BY <1>r, <1>p, <1>s, <1>24 DEF Catch
<1>25. ASSUME OpenCurated(t), kind(t) \in Kind PROVE GatesPassed' /\ Led'
  BY <1>r, <1>p, <1>s, <1>25 DEF OpenCurated
<1>26. ASSUME WriteCurated(t), kind(t) \in Kind PROVE GatesPassed' /\ Led'
  BY <1>r, <1>p, <1>s, <1>26 DEF WriteCurated
<1>27. ASSUME FailCuration(t), kind(t) \in Kind PROVE GatesPassed' /\ Led'
  BY <1>r, <1>p, <1>s, <1>27 DEF FailCuration
<1>28. ASSUME Dispose(t), kind(t) \in Kind PROVE GatesPassed' /\ Led'
  BY <1>r, <1>p, <1>s, <1>28 DEF Dispose, Leave
<1>29. ASSUME FailDispose(t), kind(t) \in Kind PROVE GatesPassed' /\ Led'
  BY <1>r, <1>p, <1>s, <1>29 DEF FailDispose, Leave
<1>30. ASSUME ReadEvidence(t) PROVE GatesPassed' /\ Led'
  BY <1>r, <1>p, <1>s, <1>30 DEF ReadEvidence, Readable
<1>31. ASSUME ReadTraces(t) PROVE GatesPassed' /\ Led'
  BY <1>r, <1>p, <1>s, <1>31 DEF ReadTraces
<1>32. ASSUME OpenReports(t) PROVE GatesPassed' /\ Led'
  BY <1>r, <1>p, <1>s, <1>32 DEF OpenReports
<1>33. ASSUME FinishReports(t) PROVE GatesPassed' /\ Led'
  BY <1>r, <1>p, <1>s, <1>33 DEF FinishReports
<1>34. ASSUME FailReports(t) PROVE GatesPassed' /\ Led'
  BY <1>r, <1>p, <1>s, <1>34 DEF FailReports
<1>35. ASSUME Kill(t), kind(t) \in Kind PROVE GatesPassed' /\ Led'
  BY <1>r, <1>p, <1>s, <1>35 DEF Kill
<1>36. ASSUME NEW command \in Kind \cup {"freeze", "report"}, Start(t, command) PROVE GatesPassed' /\ Led'
  BY <1>r, <1>p, <1>s, <1>36 DEF Start, First
<1>37. ASSUME OpenLedger(t), kind(t) \in Kind PROVE GatesPassed' /\ Led'
  BY <1>r, <1>p, <1>s, <1>37 DEF OpenLedger
<1> HIDE DEF kind, At, MoveTo, Stop, Blame, files, history, Idle, RunOf, Owning, Readable,
            GatesPassed, Led
<1> QED
  BY StepKinds, Zenon, <1>1, <1>2, <1>3, <1>4, <1>5, <1>6, <1>7, <1>8, <1>9, <1>10, <1>11,
     <1>12, <1>13, <1>14, <1>15, <1>16, <1>17, <1>18, <1>19, <1>20, <1>21,
     <1>22, <1>23, <1>24, <1>25, <1>26, <1>27, <1>28, <1>29, <1>30, <1>31,
     <1>32, <1>33, <1>34, <1>35, <1>36, <1>37
     DEF Acts

LEMMA EvidenceStep ==
  ASSUME TypeOK, OwnersHeld, EvidenceHeld, NEW t \in Terminal, StepOf(t)
  PROVE  EvidenceHeld'
<1>1. holder \in [Kind -> Terminal \cup {NoTerminal}] /\ VerdictsHeld'
  BY VerdictStep DEF TypeOK
<1>2. ASSUME NEW k \in Kind PROVE EvidenceOf(k)'
  <2>1. CASE k = kind(t)
    BY <2>1, OwnEvidence
  <2>2. CASE k # kind(t)
    <3>1. EvidenceOf(k) /\ ~Owns(t, k) /\ holder[k] \in Terminal \cup {NoTerminal}
      BY <1>1, <2>2 DEF EvidenceHeld, Owns
    <3>2. /\ \A u \in Terminal \ {t} : run'[u] = run[u]
          /\ ~Owns(t, k)' /\ ~Writing(t, k)'
          /\ raw'[k] = raw[k] /\ curated'[k] = curated[k] /\ holder'[k] = holder[k]
          /\ calls'[k] = calls[k] /\ answered'[k] = answered[k] /\ result'[k] = result[k]
          /\ fault'[k] = fault[k]
      BY <2>2, Frame DEF Elsewhere
    <3>3. result'[k] \in {"NONE", curated[k]}
      BY <3>1, <3>2 DEF EvidenceOf
    <3> QED
      BY <3>1, <3>2, <3>3, Untouched
  <2> QED
    BY <2>1, <2>2
<1> QED
  BY <1>1, <1>2 DEF EvidenceHeld, VerdictsHeld
-----------------------------------------------------------------------------

\* The inductive invariant.
Inductive ==
  /\ TypeOK /\ CallsAreCompared /\ CallsAreRecorded /\ FreezeHeld /\ OwnersHeld
  /\ EvidenceHeld /\ GatesPassed /\ Led

LEMMA Start0 == Init => Inductive
<1> SUFFICES ASSUME Init PROVE Inductive
  OBVIOUS
<1> USE NoTerminalAssumption DEF Init, Fresh, Idle
<1>1. Idle \in RunOf
  BY DEF RunOf, Steps, Command, Kinds, Writes
<1>2. TypeOK
  BY <1>1 DEF TypeOK, RawFile, Kinds
<1>3. \A t \in Terminal : run[t] = Idle
  OBVIOUS
<1>4. CallsAreCompared /\ CallsAreRecorded /\ FreezeHeld
  BY <1>3 DEF CallsAreCompared, CallsAreRecorded, FreezeHeld, At, Compared
<1>5. \A t \in Terminal, k \in Kind : ~Owns(t, k) /\ ~Writing(t, k)
  BY <1>3 DEF Owns, Owning, Writing
<1>6. OwnersHeld
  BY <1>3, <1>5 DEF OwnersHeld, OwnerOf
<1>7. EvidenceHeld
  BY <1>3, <1>5 DEF EvidenceHeld, EvidenceOf, Status
<1>8. GatesPassed /\ Led
  BY <1>3, KindAssumption DEF GatesPassed, Led, Owning, kind
<1> QED
  BY <1>2, <1>4, <1>6, <1>7, <1>8 DEF Inductive

\* A change of the instrument is seen by every command that has compared it.
LEMMA DriftStep == Inductive /\ Drift => Inductive'
<1> SUFFICES ASSUME Inductive, Drift PROVE Inductive'
  OBVIOUS
<1> USE DEF Inductive, Drift, files, history
<1>1. ASSUME NEW t \in Terminal
      PROVE  /\ run'[t] \in RunOf /\ run'[t].pc = run[t].pc /\ run'[t].command = run[t].command
             /\ run'[t].compared = run[t].compared /\ run'[t].listed = run[t].listed
             /\ run'[t].answer = run[t].answer /\ run'[t].verdict = run[t].verdict
             /\ run'[t].pending = run[t].pending
             /\ run[t].pc \in Compared => run'[t].drift = "SEEN"
  <2>1. run[t] \in RunOf
    BY DEF TypeOK
  <2>2. run'[t] = IF run[t].pc \in Compared THEN [run[t] EXCEPT !.drift = "SEEN"] ELSE run[t]
    OBVIOUS
  <2> QED
    BY <2>1, <2>2 DEF RunOf
<1>2. run' \in [Terminal -> RunOf]
  BY <1>1
<1>3. TypeOK' /\ CallsAreRecorded'
  BY <1>2 DEF TypeOK, CallsAreRecorded
<1>4. \A t \in Terminal : \A p : At(t, p)' <=> At(t, p)
  BY <1>1 DEF At
<1>5. FreezeHeld'
  BY <1>1, <1>4 DEF FreezeHeld
<1>6. CallsAreCompared'
  BY <1>1, <1>4 DEF CallsAreCompared, At, Compared
<1>7. GatesPassed' /\ Led'
  BY <1>1, <1>4 DEF GatesPassed, Led, At, kind, Readable
<1>8. \A t \in Terminal, k \in Kind : (Owns(t, k)' <=> Owns(t, k)) /\ (Writing(t, k)' <=> Writing(t, k))
  BY <1>1 DEF Owns, Writing, kind
<1>9. OwnersHeld'
  BY <1>1, <1>4, <1>8 DEF OwnersHeld, OwnerOf, kind
<1>10. ASSUME NEW k \in Kind PROVE EvidenceOf(k)'
  <2>1. EvidenceOf(k) /\ holder[k] \in Terminal \cup {NoTerminal}
    BY DEF EvidenceHeld, TypeOK
  <2>2. \A s : Supported(k, s)' <=> Supported(k, s)
    BY <1>8 DEF Supported
  <2>3. \A t \in Terminal : \A s, b : Persisting(t, k, s, b) => Persisting(t, k, s, b)'
    BY <1>1 DEF Persisting
  <2>4. ASSUME NEW t \in Terminal, Owns(t, k)' PROVE StageOf(t, k)'
    <3>1. StageOf(t, k)
      BY <1>8, <2>1, <2>4 DEF EvidenceOf
    <3> QED
      BY <1>1, <1>4, <2>2, <2>3, <3>1 DEF StageOf
  <2> QED
    BY <1>8, <2>1, <2>2, <2>4 DEF EvidenceOf
<1>11. EvidenceHeld'
  BY <1>1, <1>4, <1>10 DEF EvidenceHeld, kind
<1> QED
  BY <1>3, <1>5, <1>6, <1>7, <1>9, <1>11

\* A stutter touches nothing.
LEMMA StaysBehind ==
  ASSUME Inductive, UNCHANGED vars
  PROVE  Inductive'
<1> USE DEF Inductive, vars, files, history
<1>1. TypeOK' /\ CallsAreCompared' /\ CallsAreRecorded'
  BY DEF TypeOK, CallsAreCompared, CallsAreRecorded, At
<1>2. FreezeHeld' /\ GatesPassed' /\ Led'
  BY DEF FreezeHeld, GatesPassed, Led, At, kind, Readable
<1>3. OwnersHeld'
  BY DEF OwnersHeld, OwnerOf, Owns, Writing, kind, At
<1>4. EvidenceHeld'
  BY DEF EvidenceHeld, EvidenceOf, StageOf, Supported, Persisting, Owns, Writing, kind, At
<1> QED
  BY <1>1, <1>2, <1>3, <1>4

LEMMA Induction == Inductive /\ [Next]_vars => Inductive'
<1> SUFFICES ASSUME Inductive, [Next]_vars PROVE Inductive'
  OBVIOUS
<1>1. ASSUME NEW t \in Terminal, StepOf(t) PROVE Inductive'
  BY <1>1, TypeStep, FreezeStep, RecordedStep, OwnersStep, EvidenceStep, GatesStep DEF Inductive
<1>2. CASE Drift
  BY <1>2, DriftStep
<1>3. CASE UNCHANGED vars
  BY <1>3, StaysBehind
<1> QED
  BY <1>1, <1>2, <1>3 DEF Next, StepOf

LEMMA Invariance == Spec => []Inductive
BY Start0, Induction, PTL DEF Spec

\* In every reachable state each call was made by the command that holds the
\* reservation, after it compared the instrument with the freeze that stands and
\* recorded the reservation; it was made on another instrument only where that
\* changed in between.
THEOREM Order == Spec => []CallsAreInOrder
<1>1. Inductive => CallsAreInOrder
  BY DEF Inductive, CallsAreInOrder
<1> QED
  BY Invariance, <1>1, PTL

\* A report with a status says what is on disk beside it.
LEMMA Matching == Inductive => CuratedMatchesRaw
<1> SUFFICES ASSUME Inductive, NEW k \in Kind
             PROVE  /\ curated[k] \in Status /\ "LATE" \notin fault[k] =>
                         \A f \in RawFile : raw[k][f] = curated[k]
                    /\ result[k] = "PASS" =>
                         /\ answered[k] = "PASS" /\ checked[k] = freeze
                         /\ curated[k] = "PASS" /\ \A f \in RawFile : raw[k][f] = "PASS"
  BY DEF CuratedMatchesRaw
<1>1. EvidenceOf(k) /\ (calls[k] > 0 => checked[k] = freeze)
  BY DEF Inductive, EvidenceHeld, CallsAreCompared
<1>2. curated[k] \in Status => Supported(k, curated[k])
  BY <1>1 DEF EvidenceOf
<1>3. result[k] = "PASS" => curated[k] = "PASS" /\ Supported(k, "PASS")
  BY <1>1, <1>2 DEF EvidenceOf, Status
<1> QED
  BY <1>1, <1>2, <1>3 DEF Supported

\* The report of a command that is over, and that met no failure, says what the
\* provider answered.
LEMMA Answering == Inductive => AnswerIsCurated
<1> SUFFICES ASSUME Inductive, NEW k \in Kind, Over(k), fault[k] = {}
             PROVE  /\ calls[k] = 1
                    /\ curated[k] = answered[k] /\ \A f \in RawFile : raw[k][f] = answered[k]
                    /\ result[k] \in {answered[k], "NONE"}
  BY DEF AnswerIsCurated
<1>1. EvidenceOf(k) /\ ~Owns(holder[k], k)
  BY DEF Inductive, EvidenceHeld, Over, At, Owns, Owning
<1>2. Supported(k, curated[k]) /\ result[k] \in {"NONE", curated[k]}
  BY <1>1 DEF EvidenceOf, Over
<1> QED
  BY <1>2 DEF Supported

\* In every reachable state what is reported of an experiment, by its files and
\* by its exit status, is what the raw evidence and the answer support.
THEOREM Evidence == Spec => []EvidenceAgrees
<1>1. Inductive => EvidenceAgrees
  BY Matching, Answering DEF Inductive, EvidenceAgrees
<1> QED
  BY Invariance, <1>1, PTL

\* In every reachable state the deep experiment was called after a baseline
\* that passed, and reports stand on three experiments that are done.
THEOREM Gates == Spec => []GatesHold
<1>1. ASSUME Inductive, NEW k \in Kind, curated[k] = "PASS"
      PROVE  calls[k] = 1 /\ answered[k] = "PASS"
  <2>1. Supported(k, curated[k])
    BY <1>1 DEF Inductive, EvidenceHeld, EvidenceOf, Status
  <2> QED
    BY <1>1, <2>1 DEF Supported
<1>2. ASSUME Inductive PROVE DeepFollowsBaseline
  BY <1>1, <1>2, KindAssumption DEF Inductive, Led, DeepFollowsBaseline
<1>3. ASSUME Inductive, NEW k \in Kind, Readable(k) PROVE reservation[k] = "WRITTEN"
  BY <1>3 DEF Inductive, OwnersHeld, OwnerOf, Readable, Status
<1>4. ASSUME Inductive PROVE ReportsFollowExperiments
  <2>1. reports.state # "ABSENT" =>
          \A k \in Kind : reservation[k] = "WRITTEN" /\ curated[k] \in Status
    BY <1>3, <1>4 DEF Inductive, Led, Readable
  <2>2. ASSUME reports.g2 = "CONTINUE"
        PROVE  /\ calls["e2-deep"] = 1 /\ curated["e2-deep"] = "PASS"
               /\ answered["e2-deep"] = "PASS" /\ answered["e2-baseline"] = "PASS"
    <3>1. curated["e2-deep"] = "PASS" /\ "e2-deep" \in Kind /\ "e2-baseline" \in Kind
      BY <1>4, <2>2, KindAssumption DEF Inductive, Led
    <3>2. calls["e2-deep"] = 1 /\ answered["e2-deep"] = "PASS"
      BY <1>1, <1>4, <3>1
    <3>3. curated["e2-baseline"] = "PASS"
      BY <1>4, <3>2 DEF Inductive, Led
    <3> QED
      BY <1>1, <1>4, <3>1, <3>2, <3>3
  <2> QED
    BY <2>1, <2>2 DEF ReportsFollowExperiments
<1>5. Inductive => GatesHold
  BY <1>2, <1>4 DEF GatesHold, Inductive
<1> QED
  BY Invariance, <1>5, PTL

\* The experiments implement the invocation budget counted by kind: creating
\* the reservation is Take, calling the provider is Spend, and every other step
\* is a stutter.
THEOREM Implementation == Spec => ImplementsBudget
<1>1. Init => KindBudget!Init
  BY DEF Init, Fresh, KindBudget!Init
<1>2. ASSUME Inductive, NEW t \in Terminal, kind(t) \in Kind, Reserve(t)
      PROVE  KindBudget!Take(t, kind(t))
  <2>1. holder[kind(t)] = NoTerminal
    BY <1>2 DEF Reserve, ExclusiveCreates, Inductive, OwnersHeld, OwnerOf
  <2> QED
    BY <1>2, <2>1 DEF Reserve, KindBudget!Take
<1>3. ASSUME Inductive, NEW t \in Terminal, kind(t) \in Kind, Invoke(t)
      PROVE  KindBudget!Spend(t, kind(t))
  <2>1. Owns(t, kind(t)) /\ run[t].pc = "ISOLATE"
    BY <1>3 DEF Invoke, At, Owns, Owning
  <2>2. OwnerOf(kind(t))
    BY <1>3 DEF Inductive, OwnersHeld
  <2>3. holder[kind(t)] = t /\ calls[kind(t)] = 0
    BY <2>1, <2>2 DEF OwnerOf, Compared
  <2> QED
    BY <1>3, <2>3 DEF Invoke, KindBudget!Spend
<1>4. ASSUME NEW t \in Terminal, Acts(t), ~(kind(t) \in Kind /\ (Reserve(t) \/ Invoke(t)))
      PROVE  UNCHANGED <<holder, calls>>
  <2> USE DEF files, history
  <2>1. Abort(t) => UNCHANGED <<holder, calls>>
    BY DEF Abort
  <2>2. Fingerprint(t) \/ CreateFreeze(t) \/ WriteFreeze(t) \/ FailFreeze(t) =>
          UNCHANGED <<holder, calls>>
    BY DEF Fingerprint, CreateFreeze, WriteFreeze, FailFreeze
  <2>3. ReadEvidence(t) \/ ReadTraces(t) \/ OpenReports(t) \/ FinishReports(t) \/ FailReports(t) =>
          UNCHANGED <<holder, calls>>
    BY DEF ReadEvidence, ReadTraces, OpenReports, FinishReports, FailReports
  <2>4. LoadFreeze(t) \/ AssertFreezeCurrent(t) \/ PassGate(t) \/ RefuseReservation(t)
          \/ Record(t) \/ ListReservations(t) \/ OpenLedger(t) \/ WriteLedger(t)
          \/ FailReservation(t) =>
          UNCHANGED <<holder, calls>>
    BY DEF LoadFreeze, AssertFreezeCurrent, PassGate, RefuseReservation, Record,
           ListReservations, OpenLedger, WriteLedger, FailReservation
  <2>5. FailIsolation(t) \/ ProviderThrows(t) \/ ProviderAnswers(t) \/ WriteRaw(t) \/ FailRaw(t)
          \/ LoseRaw(t) \/ Persisted(t) \/ FailRelease(t) \/ Catch(t) => UNCHANGED <<holder, calls>>
    BY DEF FailIsolation, ProviderThrows, ProviderAnswers, WriteRaw, FailRaw, LoseRaw, Persisted,
           FailRelease, Catch
  <2>6. OpenCurated(t) \/ WriteCurated(t) \/ FailCuration(t) \/ Dispose(t) \/ FailDispose(t)
          \/ Kill(t) => UNCHANGED <<holder, calls>>
    BY DEF OpenCurated, WriteCurated, FailCuration, Dispose, FailDispose, Kill
  <2>7. (\E command \in Kind \cup {"freeze", "report"} : Start(t, command)) =>
          UNCHANGED <<holder, calls>>
    BY DEF Start
  <2> QED
    BY <1>4, <2>1, <2>2, <2>3, <2>4, <2>5, <2>6, <2>7, Zenon DEF Acts
<1>5. ASSUME Inductive, [Next]_vars PROVE [KindBudget!Next]_<<holder, calls>>
  <2>1. CASE \E t \in Terminal : StepOf(t)
    <3>1. PICK t \in Terminal : Acts(t)
      BY <2>1, StepKinds
    <3>2. CASE kind(t) \in Kind /\ Reserve(t)
      BY <1>2, <1>5, <3>2, Zenon DEF KindBudget!Next
    <3>3. CASE kind(t) \in Kind /\ Invoke(t)
      BY <1>3, <1>5, <3>3, Zenon DEF KindBudget!Next
    <3> QED
      BY <1>4, <3>1, <3>2, <3>3, Zenon
  <2>2. Drift \/ UNCHANGED vars => UNCHANGED <<holder, calls>>
    BY DEF Drift, vars, history
  <2> QED
    BY <1>5, <2>1, <2>2 DEF Next, StepOf
<1> QED
  BY Invariance, <1>1, <1>5, PTL DEF Spec, ImplementsBudget, KindBudget!Spec, KindBudget!budget
=============================================================================
