------------------------- MODULE ReviewCoverage_proofs -------------------------
(***************************************************************************)
(* Proofs about the receipts, for any number of commands, names, contents, *)
(* reviews and failures: what a command carries over was reviewed, and     *)
(* what it has reported stays.                                             *)
(***************************************************************************)
EXTENDS ReviewCoverage, SequenceTheorems, WellFoundedInduction, TLAPS

USE MarkAssumption

Prior == Receipt \cup {None}

-----------------------------------------------------------------------------
(* What is read, carried over and recorded. *)

LEMMA Empty ==
    Uncovered \in Coverage /\ Cited(Uncovered) = {} /\ Uncovered.foundation = None
<1>1. <<>> \in Seq(DeltaCheck) /\ DOMAIN <<>> = {}
  OBVIOUS
<1>2. /\ Uncovered.foundation = None /\ Uncovered.deltas = <<>> /\ Uncovered.rounds = {}
      /\ Uncovered \in Coverage
  BY <1>1 DEF Uncovered, Coverage
<1>3. {Uncovered.deltas[i] : i \in DOMAIN Uncovered.deltas} = {}
  BY <1>1, <1>2
<1> QED
  BY <1>2, <1>3 DEF Cited

LEMMA ReceiptFields ==
    ASSUME NEW r \in Receipt
    PROVE  /\ IsReceipt(r) /\ r.of \in Identity /\ r.coverage \in Coverage
           /\ r.coverage.foundation \in Foundation \cup {None}
           /\ r.coverage.deltas \in Seq(DeltaCheck)
           /\ r.coverage.rounds \subseteq RoundStart
           /\ r.coverage.disposition \in Disposition \cup {None}
<1>1. r.of \in Identity /\ r.coverage \in Coverage
  BY DEF Receipt
<1> QED
  BY <1>1 DEF IsReceipt, Coverage

(* The rounds of the increment are carried in any case, the reviews only   *)
(* if they are complete and of the same content.                           *)
LEMMA Carrying ==
    ASSUME NEW p \in Prior, NEW current
    PROVE  /\ Carry(p, current) \in Coverage
           /\ ~IsReceipt(p) => Carry(p, current) = Uncovered
           /\ IsReceipt(p) => p \in Receipt
           /\ IsReceipt(p) => Cited(Carry(p, current)) \subseteq Cited(p.coverage)
           /\ IsReceipt(p) /\ p.of.increment = current.increment =>
                 p.coverage.rounds \subseteq Carry(p, current).rounds
           /\ Carry(p, current).foundation # None =>
                 /\ IsReceipt(p) /\ CoverageComplete(p) /\ SameReview(p.of, current)
                 /\ Carry(p, current).disposition # None => p.of.evidence = current.evidence
<1> DEFINE new == Carry(p, current)
<1>1. CASE ~IsReceipt(p)
  <2>1. new = Uncovered
    BY <1>1 DEF Carry
  <2> QED
    BY <1>1, <2>1, Empty
<1>2. CASE IsReceipt(p) /\ p.of.increment # current.increment
  <2>1. new = Uncovered /\ p \in Receipt
    BY <1>2 DEF Carry, IsReceipt, Prior
  <2> QED
    BY <1>2, <2>1, Empty
<1>3. CASE /\ IsReceipt(p) /\ p.of.increment = current.increment
           /\ CoverageComplete(p) /\ SameReview(p.of, current)
           /\ p.of.evidence = current.evidence
  <2>1. new = p.coverage /\ p \in Receipt
    BY <1>3 DEF Carry, IsReceipt, Prior
  <2> QED
    BY <1>3, <2>1, ReceiptFields
<1>4. CASE /\ IsReceipt(p) /\ p.of.increment = current.increment
           /\ CoverageComplete(p) /\ SameReview(p.of, current)
           /\ p.of.evidence # current.evidence
  <2>1. new = [p.coverage EXCEPT !.disposition = None] /\ p \in Receipt
    BY <1>4 DEF Carry, IsReceipt, Prior
  <2>2. p.coverage \in Coverage
    BY <2>1, ReceiptFields
  <2>3. /\ new \in Coverage /\ new.foundation = p.coverage.foundation
        /\ new.deltas = p.coverage.deltas /\ new.rounds = p.coverage.rounds
        /\ new.disposition = None
    BY <2>1, <2>2 DEF Coverage
  <2>4. Cited(new) = Cited(p.coverage)
    BY <2>3 DEF Cited
  <2> QED
    BY <1>4, <2>1, <2>3, <2>4
<1>5. CASE /\ IsReceipt(p) /\ p.of.increment = current.increment
           /\ ~ (CoverageComplete(p) /\ SameReview(p.of, current))
  <2>1. new = [Uncovered EXCEPT !.rounds = p.coverage.rounds] /\ p \in Receipt
    BY <1>5 DEF Carry, IsReceipt, Prior
  <2>2. p.coverage.rounds \subseteq RoundStart
    BY <2>1, ReceiptFields
  <2>3. /\ new \in Coverage /\ new.foundation = None /\ new.deltas = <<>>
        /\ new.rounds = p.coverage.rounds
    BY <2>1, <2>2, Empty DEF Uncovered, Coverage
  <2>4. Cited(new) \subseteq p.coverage.rounds
    <3>1. {new.deltas[i] : i \in DOMAIN new.deltas} = {}
      BY <2>3
    <3> QED
      BY <2>3, <3>1 DEF Cited
  <2>5. p.coverage.rounds \subseteq Cited(p.coverage)
    BY DEF Cited
  <2> QED
    BY <1>5, <2>1, <2>3, <2>4, <2>5
<1> QED
  BY <1>1, <1>2, <1>3, <1>4, <1>5

LEMMA ReviewsAreArtifacts ==
    ASSUME NEW of \in Identity
    PROVE  Reviews(of) \subseteq Artifact
<1>1. /\ [kind |-> "foundation", of |-> of] \in Foundation
      /\ [kind |-> "round", of |-> of] \in RoundStart
      /\ \A e \in Evidence : [kind |-> "delta", of |-> of, from |-> e] \in DeltaCheck
  BY DEF Foundation, RoundStart, DeltaCheck
<1> QED
  BY <1>1 DEF Reviews, Artifact

(* What the supervisor records is a coverage, made of artifacts.           *)
LEMMA Recording ==
    ASSUME artifacts \subseteq Artifact, NEW r \in Receipt, NEW c \in Recorded(r)
    PROVE  c \in Coverage /\ Cited(c) \subseteq Artifact
<1> DEFINE Any(kind) == {a \in artifacts \cup Reviews(r.of) : a.kind = kind}
           old == r.coverage
<1>1. /\ r.of \in Identity /\ old \in Coverage
      /\ old.foundation \in Foundation \cup {None} /\ old.deltas \in Seq(DeltaCheck)
      /\ old.rounds \subseteq RoundStart /\ old.disposition \in Disposition \cup {None}
  BY ReceiptFields
<1>2. Reviews(r.of) \subseteq Artifact
  BY <1>1, ReviewsAreArtifacts
<1>3. /\ Any("foundation") \subseteq Foundation /\ Any("delta") \subseteq DeltaCheck
      /\ Any("round") \subseteq RoundStart
  BY <1>2 DEF Artifact, Foundation, DeltaCheck, RoundStart
<1>4. \/ \E a \in Any("round") : c = [old EXCEPT !.rounds = old.rounds \cup {a}]
      \/ \E ds \in {old.deltas} \cup {Append(old.deltas, d) : d \in Any("delta")} :
            c \in [foundation : {old.foundation} \cup Any("foundation"),
                   deltas : {ds}, rounds : {old.rounds},
                   disposition : {old.disposition, Disposed(r.of, ds)}]
  BY DEF Recorded
<1> HIDE DEF Any, old
<1>5. \A ds : Disposed(r.of, ds) \in Disposition
  BY <1>1 DEF Disposed, Disposition
<1>6. c \in Coverage
  <2>1. CASE \E a \in Any("round") : c = [old EXCEPT !.rounds = old.rounds \cup {a}]
    BY <1>1, <1>3, <2>1 DEF Coverage
  <2>2. CASE \E ds \in {old.deltas} \cup {Append(old.deltas, d) : d \in Any("delta")} :
                c \in [foundation : {old.foundation} \cup Any("foundation"),
                       deltas : {ds}, rounds : {old.rounds},
                       disposition : {old.disposition, Disposed(r.of, ds)}]
    <3>1. PICK ds \in {old.deltas} \cup {Append(old.deltas, d) : d \in Any("delta")} :
                c \in [foundation : {old.foundation} \cup Any("foundation"),
                       deltas : {ds}, rounds : {old.rounds},
                       disposition : {old.disposition, Disposed(r.of, ds)}]
      BY <2>2
    <3>2. ds \in Seq(DeltaCheck)
      BY <1>1, <1>3, <3>1, AppendProperties
    <3> QED
      BY <1>1, <1>3, <1>5, <3>1, <3>2 DEF Coverage
  <2> QED
    BY <1>4, <2>1, <2>2
<1>7. \A i \in DOMAIN c.deltas : c.deltas[i] \in DeltaCheck
  BY <1>6, ElementOfSeq, LenProperties DEF Coverage
<1>8. Cited(c) \subseteq Artifact
  BY <1>6, <1>7 DEF Cited, Coverage, Artifact
<1> QED
  BY <1>6, <1>8

-----------------------------------------------------------------------------
(* The types. *)

LEMMA NoJobIsAJob == NoJob \in Job
  BY StartAssumption, Empty DEF NoJob, Job, Answers

LEMMA ReadingIsAJob ==
    ASSUME TypeOK, NEW t \in Terminal, ReadPrevious(t)
    PROVE  \E p \in Prior :
              /\ p = IF job[t].previous = None THEN None
                     ELSE Validated(receipts[job[t].previous])
              /\ job' = [job EXCEPT ![t] = [job[t] EXCEPT !.previous = None, !.prior = p,
                                                   !.answer = Classify(p, job[t].id),
                                                   !.draft = Carry(p, job[t].id)]]
              /\ job'[t] \in Job
              /\ job'[t].write = job[t].write /\ job'[t].id = job[t].id
              /\ job'[t].prior = p /\ job'[t].answer = Classify(p, job[t].id)
              /\ job'[t].draft = Carry(p, job[t].id)
<1> DEFINE p == IF job[t].previous = None THEN None
                ELSE Validated(receipts[job[t].previous])
<1>1. job \in [Terminal -> Job] /\ job[t] \in Job
  BY DEF TypeOK
<1>2. job[t].previous \in Name \cup {None}
  BY <1>1 DEF Job
<1>3. p \in Prior
  <2>1. ASSUME job[t].previous # None
        PROVE  receipts[job[t].previous] \in Receipt \cup {None, Torn}
    BY <1>2, <2>1 DEF TypeOK
  <2>2. ASSUME job[t].previous # None PROVE Validated(receipts[job[t].previous]) \in Prior
    BY <2>1, <2>2 DEF Validated, Prior, IsReceipt
  <2> QED
    BY <2>2 DEF Prior
<1>4. job' = [job EXCEPT ![t] = [job[t] EXCEPT !.previous = None, !.prior = p,
                                        !.answer = Classify(p, job[t].id),
                                        !.draft = Carry(p, job[t].id)]]
  BY DEF ReadPrevious
<1> HIDE DEF p
<1>5. Classify(p, job[t].id) \in Answers
  BY DEF Classify, Answers
<1>6. Carry(p, job[t].id) \in Coverage
  BY <1>3, Carrying
<1>7. job'[t] = [job[t] EXCEPT !.previous = None, !.prior = p,
                               !.answer = Classify(p, job[t].id),
                               !.draft = Carry(p, job[t].id)]
  BY <1>1, <1>4
<1>8. /\ job'[t] \in Job
      /\ job'[t].write = job[t].write /\ job'[t].id = job[t].id
      /\ job'[t].prior = p /\ job'[t].answer = Classify(p, job[t].id)
      /\ job'[t].draft = Carry(p, job[t].id)
  BY <1>1, <1>3, <1>5, <1>6, <1>7 DEF Job, Prior
<1> QED
  BY <1>3, <1>4, <1>8 DEF p

LEMMA RecordingIsAReceipt ==
    ASSUME TypeOK, NEW n \in Name, BeginRecord(n)
    PROVE  /\ receipts[n] \in Receipt
           /\ artifacts \subseteq artifacts' /\ artifacts' \subseteq Artifact
           /\ rewriting' = [rewriting EXCEPT ![n] = rewriting'[n]]
           /\ rewriting'[n] \in Receipt
           /\ Cited(rewriting'[n].coverage) \subseteq artifacts'
<1>1. receipts[n] \in Receipt /\ artifacts \subseteq Artifact
  BY DEF TypeOK, BeginRecord, IsReceipt
<1>2. PICK c \in Recorded(receipts[n]) :
         /\ artifacts' = artifacts \cup Cited(c)
         /\ rewriting' = [rewriting EXCEPT ![n] = [receipts[n] EXCEPT !.coverage = c]]
  BY Zenon DEF BeginRecord
<1>3. c \in Coverage /\ Cited(c) \subseteq Artifact
  BY <1>1, <1>2, Recording
<1>4. rewriting \in [Name -> Receipt \cup {None}]
  BY DEF TypeOK
<1>5. rewriting'[n] = [receipts[n] EXCEPT !.coverage = c]
  BY <1>2, <1>4
<1>6. rewriting'[n] \in Receipt /\ rewriting'[n].coverage = c
  BY <1>1, <1>3, <1>5 DEF Receipt
<1> QED
  BY <1>1, <1>2, <1>3, <1>5, <1>6

LEMMA LeavingIsALeftover ==
    ASSUME TypeOK, NEW t \in Terminal, NEW files \in SUBSET Mine(t),
           NEW why \in {"NOT_REMOVED", "NOT_CLOSED", "KILLED"}
    PROVE  Leftovers(t, files, why) \subseteq Leftover
<1>1. job[t].write \in Name \cup {None}
  BY DEF TypeOK, Job
<1>2. files \subseteq {"receipt", "temporary"}
  BY DEF Mine
<1> QED
  BY <1>1, <1>2 DEF Leftovers, Leftover

LEMMA FaultCounts ==
    ASSUME TypeOK, Fault
    PROVE  count' \in [commands : Nat, changes : Nat, records : Nat, faults : Nat]
  BY DEF TypeOK, Fault

LEMMA TypesAtFirst == Init => TypeOK
<1> SUFFICES ASSUME Init PROVE TypeOK
  OBVIOUS
<1>1. tree \in Identity /\ artifacts \subseteq Artifact
  BY StartAssumption DEF Init
<1>2. [of |-> Start, coverage |-> Uncovered] \in Receipt
  BY StartAssumption, Empty DEF Receipt
<1>3. receipts \in [Name -> Receipt \cup {None, Torn}] /\ kept = receipts
  BY <1>2 DEF Init
<1>4. rewriting \in [Name -> Receipt \cup {None}]
  BY DEF Init
<1>5. pc \in [Terminal -> Steps] /\ job \in [Terminal -> Job]
  BY NoJobIsAJob DEF Init, Steps
<1>6. /\ temp \subseteq Terminal /\ linked \subseteq Terminal /\ moved \subseteq Terminal
      /\ left \subseteq Leftover
      /\ reported \subseteq Name
      /\ count \in [commands : Nat, changes : Nat, records : Nat, faults : Nat]
  BY EarlierAssumption DEF Init
<1> QED
  BY <1>1, <1>3, <1>4, <1>5, <1>6 DEF TypeOK

LEMMA TypesStep == TypeOK /\ [Next]_vars => TypeOK'
<1> SUFFICES ASSUME TypeOK, [Next]_vars PROVE TypeOK'
  OBVIOUS
<1>0. ASSUME NEW t \in Terminal, Ends(t)
      PROVE  /\ pc' \in [Terminal -> Steps] /\ job' \in [Terminal -> Job]
             /\ linked' \subseteq Terminal
  BY <1>0, NoJobIsAJob DEF TypeOK, Ends, Goto, Steps
<1>1. ASSUME NEW t \in Terminal, Collect(t) PROVE TypeOK'
  <2>1. tree' \in Identity
    BY <1>1 DEF TypeOK, Collect, Changed
  <2>2. count' \in [commands : Nat, changes : Nat, records : Nat, faults : Nat]
    <3>1. \/ count' = [count EXCEPT !.commands = count.commands + 1]
          \/ count' = [count EXCEPT !.commands = count.commands + 1,
                                    !.changes = count.changes + 1]
      BY <1>1 DEF Collect
    <3>2. count \in [commands : Nat, changes : Nat, records : Nat, faults : Nat]
      BY DEF TypeOK
    <3>3. /\ count.commands + 1 \in Nat /\ count.changes + 1 \in Nat
          /\ count.records \in Nat /\ count.faults \in Nat
      BY <3>2
    <3>4. CASE count' = [count EXCEPT !.commands = count.commands + 1]
      BY <3>2, <3>3, <3>4
    <3>5. CASE count' = [count EXCEPT !.commands = count.commands + 1,
                                      !.changes = count.changes + 1]
      BY <3>2, <3>3, <3>5
    <3> QED
      BY <3>1, <3>4, <3>5
  <2>3. PICK p, n \in Name \cup {None} :
           job' = [job EXCEPT ![t] = [NoJob EXCEPT !.previous = p, !.write = n, !.id = tree']]
    BY <1>1 DEF Collect
  <2> DEFINE new == [NoJob EXCEPT !.previous = p, !.write = n, !.id = tree']
  <2>4. new \in Job
    BY <2>1, NoJobIsAJob DEF Job
  <2> HIDE DEF new
  <2>5. job' = [job EXCEPT ![t] = new]
    BY <2>3 DEF new
  <2>8. job' \in [Terminal -> Job]
    BY <2>4, <2>5 DEF TypeOK
  <2>6. pc' \in [Terminal -> Steps]
    BY <1>1 DEF TypeOK, Collect, Goto, Steps
  <2>7. UNCHANGED <<artifacts, rewriting, receipts, kept, temp, linked, moved, left, reported>>
    BY <1>1 DEF Collect
  <2> QED
    BY <2>1, <2>2, <2>6, <2>7, <2>8 DEF TypeOK
<1>2. ASSUME NEW t \in Terminal, ReadPrevious(t) PROVE TypeOK'
  <2>1. job' \in [Terminal -> Job]
    BY <1>2, ReadingIsAJob DEF TypeOK
  <2>2. pc' \in [Terminal -> Steps]
    BY <1>2 DEF TypeOK, ReadPrevious, Goto, Steps
  <2>3. UNCHANGED <<world, receipts, kept, temp, linked, moved, left, history>>
    BY <1>2 DEF ReadPrevious
  <2> QED
    BY <2>1, <2>2, <2>3 DEF TypeOK, world, history
<1>3. ASSUME NEW t \in Terminal, CreateTemp(t) PROVE TypeOK'
  BY <1>3 DEF TypeOK, CreateTemp, DirectoryChanges, Goto, Steps, world, history
<1>4. ASSUME NEW t \in Terminal, Check(t) PROVE TypeOK'
  BY <1>4 DEF TypeOK, Check, Goto, Steps, world, history
<1>5. ASSUME NEW t \in Terminal, Link(t) PROVE TypeOK'
  <2>1. job[t] \in Job
    BY DEF TypeOK
  <2>2. [of |-> job[t].id, coverage |-> job[t].draft] \in Receipt
    BY <2>1 DEF Job, Receipt
  <2>3. receipts' \in [Name -> Receipt \cup {None, Torn}]
    BY <1>5, <2>2 DEF TypeOK, Link
  <2>4. pc' \in [Terminal -> Steps]
    BY <1>5 DEF TypeOK, Link, Goto, Steps
  <2>5. linked' \subseteq Terminal /\ moved' \subseteq Terminal
    BY <1>5 DEF TypeOK, Link, DirectoryChanges
  <2>6. UNCHANGED <<world, kept, job, temp, left, history>>
    BY <1>5 DEF Link
  <2> QED
    BY <2>3, <2>4, <2>5, <2>6 DEF TypeOK, world, history
<1>6. ASSUME NEW t \in Terminal, Sync(t) PROVE TypeOK'
  BY <1>6 DEF TypeOK, Sync, Goto, Steps, world, history
<1>7. ASSUME NEW t \in Terminal, Withdraw(t) PROVE TypeOK'
  <2>1. receipts' \in [Name -> Receipt \cup {None, Torn}]
    BY <1>7 DEF TypeOK, Withdraw
  <2>2. temp' \subseteq Terminal /\ moved' \subseteq Terminal
    BY <1>7 DEF TypeOK, Withdraw, DirectoryChanges
  <2>3. Ends(t) /\ UNCHANGED <<world, kept, reported>>
    BY <1>7 DEF Withdraw
  <2>4. left' \subseteq Leftover
    BY <1>7, LeavingIsALeftover DEF TypeOK, Withdraw
  <2>5. count' \in [commands : Nat, changes : Nat, records : Nat, faults : Nat]
    BY <1>7, FaultCounts DEF TypeOK, Withdraw
  <2> QED
    BY <1>0, <2>1, <2>2, <2>3, <2>4, <2>5 DEF TypeOK, world
<1>8. ASSUME NEW t \in Terminal, Break(t) PROVE TypeOK'
  BY <1>8 DEF TypeOK, Break, Goto, Steps, world, history
<1>9. ASSUME NEW t \in Terminal, Clean(t) PROVE TypeOK'
  BY <1>9 DEF TypeOK, Clean, DirectoryChanges, Goto, Steps, world, history
<1>16. ASSUME NEW t \in Terminal, FailClean(t) PROVE TypeOK'
  <2>1. temp' \subseteq Terminal /\ moved' \subseteq Terminal
    BY <1>16 DEF TypeOK, FailClean, DirectoryChanges
  <2>2. left' \subseteq Leftover
    <3>1. \/ left' = left \cup Leftovers(t, Mine(t), "NOT_REMOVED")
          \/ left' = left \cup Leftovers(t, Mine(t) \ {"temporary"}, "NOT_CLOSED")
      BY <1>16 DEF FailClean
    <3> QED
      BY <3>1, LeavingIsALeftover DEF TypeOK
  <2>3. count' \in [commands : Nat, changes : Nat, records : Nat, faults : Nat]
    BY <1>16, FaultCounts DEF FailClean
  <2>4. Ends(t) /\ UNCHANGED <<world, receipts, kept, reported>>
    BY <1>16 DEF FailClean
  <2> QED
    BY <1>0, <2>1, <2>2, <2>3, <2>4 DEF TypeOK, world
<1>10. ASSUME NEW t \in Terminal, Report(t) PROVE TypeOK'
  <2>1. job[t].write \in Name \cup {None}
    BY DEF TypeOK, Job
  <2>2. reported' \subseteq Name
    BY <1>10, <2>1 DEF TypeOK, Report
  <2>3. Ends(t) /\ UNCHANGED <<world, receipts, kept, temp, moved, left, count>>
    BY <1>10 DEF Report
  <2> QED
    BY <1>0, <2>2, <2>3 DEF TypeOK, world
<1>11. ASSUME NEW t \in Terminal, Kill(t) PROVE TypeOK'
  <2>1. count' \in [commands : Nat, changes : Nat, records : Nat, faults : Nat]
    BY <1>11, FaultCounts DEF Kill
  <2>2. temp' \subseteq Terminal /\ moved' \subseteq Terminal
    BY <1>11 DEF TypeOK, Kill
  <2>3. Ends(t) /\ UNCHANGED <<world, receipts, kept, reported>>
    BY <1>11 DEF Kill
  <2>4. left' \subseteq Leftover
    BY <1>11, LeavingIsALeftover DEF TypeOK, Kill
  <2> QED
    BY <1>0, <2>1, <2>2, <2>3, <2>4 DEF TypeOK, world
<1>12. CASE PowerFailure
  <2>1. count' \in [commands : Nat, changes : Nat, records : Nat, faults : Nat]
    BY <1>12, FaultCounts DEF PowerFailure
  <2>2. PICK lost \in SUBSET Name :
           receipts' = [n \in Name |-> IF n \in lost THEN kept[n] ELSE receipts[n]]
    BY <1>12 DEF PowerFailure
  <2>3. receipts' \in [Name -> Receipt \cup {None, Torn}]
    BY <2>2 DEF TypeOK
  <2>4. pc' \in [Terminal -> Steps] /\ job' \in [Terminal -> Job]
    BY <1>12, NoJobIsAJob DEF PowerFailure, Steps
  <2>6. left' \subseteq Leftover
    <3>1. \A t \in Terminal : Leftovers(t, Mine(t), "KILLED") \subseteq Leftover
      BY LeavingIsALeftover
    <3>2. OfTheKilled \subseteq Leftover
      BY <3>1 DEF OfTheKilled
    <3>3. Unreported \subseteq Leftover
      BY DEF Unreported, Leftover
    <3>4. left' = left \cup OfTheKilled \cup Unreported
      BY <1>12 DEF PowerFailure
    <3>5. left \subseteq Leftover
      BY DEF TypeOK
    <3> QED
      BY <3>2, <3>3, <3>4, <3>5
  <2>5. /\ kept' = receipts' /\ rewriting' = [n \in Name |-> None]
        /\ temp' = {} /\ linked' = {} /\ moved' = {}
        /\ UNCHANGED <<tree, artifacts, reported>>
    BY <1>12 DEF PowerFailure
  <2> QED
    BY <2>1, <2>3, <2>4, <2>5, <2>6 DEF TypeOK
<1>13. ASSUME NEW n \in Name, BeginRecord(n) PROVE TypeOK'
  <2>1. /\ artifacts' \subseteq Artifact
        /\ rewriting' \in [Name -> Receipt \cup {None}]
    BY <1>13, RecordingIsAReceipt DEF TypeOK
  <2>2. receipts' \in [Name -> Receipt \cup {None, Torn}]
    BY <1>13 DEF TypeOK, BeginRecord
  <2>3. count' \in [commands : Nat, changes : Nat, records : Nat, faults : Nat]
    BY <1>13 DEF TypeOK, BeginRecord
  <2>4. UNCHANGED <<tree, kept, pc, job, temp, linked, moved, left, reported>>
    BY <1>13 DEF BeginRecord
  <2> QED
    BY <2>1, <2>2, <2>3, <2>4 DEF TypeOK
<1>14. ASSUME NEW n \in Name, EndRecord(n) PROVE TypeOK'
  BY <1>14 DEF TypeOK, EndRecord, history
<1>15. CASE UNCHANGED vars
  BY <1>15 DEF TypeOK, vars
<1> QED
  BY <1>1, <1>2, <1>3, <1>4, <1>5, <1>6, <1>7, <1>8, <1>9, <1>10, <1>11, <1>12, <1>13, <1>14,
     <1>15, <1>16 DEF Next, Command

-----------------------------------------------------------------------------
(* Links, and what was reported. *)

Durable == LeftoversHaveACause /\ LinksHeld /\ ReportedReceiptsStay

LEMMA DurableAtFirst == Init => Durable
<1> SUFFICES ASSUME Init PROVE Durable
  OBVIOUS
<1>1. \A n \in Earlier : receipts[n] # None
  <2>1. [of |-> Start, coverage |-> Uncovered] \in Receipt
    BY StartAssumption, Empty DEF Receipt
  <2> QED
    BY <2>1, EarlierAssumption DEF Init
<1>2. LeftoversHaveACause
  BY DEF Init, LeftoversHaveACause, IsReceipt
<1>3. LinksHeld
  BY <1>1 DEF Init, LinksHeld
<1>4. ReportedReceiptsStay
  BY <1>1 DEF Init, ReportedReceiptsStay
<1> QED
  BY <1>2, <1>3, <1>4 DEF Durable

(* What is true of every terminal.                                         *)
AtWork(t) ==
    /\ pc[t] \in {"temp", "check1", "link"} => job[t].write # None
    /\ \/ pc[t] \in {"sync", "check2", "clean"}
       \/ pc[t] = "report" /\ job[t].write # None
       => t \in linked
    /\ pc[t] \in {"check2", "clean", "report"} /\ job[t].write # None =>
          kept[job[t].write] # None

(* Of one that has linked.                                                 *)
HasLinked(t) ==
    /\ pc[t] \in {"sync", "check2", "withdraw", "clean", "report"}
    /\ job[t].write \in Name \ reported
    /\ receipts[job[t].write] # None
    /\ \A u \in linked : job[u].write = job[t].write => u = t

HasTemp(t) == pc[t] \notin {"idle", "previous", "temp", "report"}
Stays(n) == receipts[n] # None /\ kept[n] # None
Rewrites(n) == rewriting[n] # None => receipts[n] = Torn /\ n \in reported
Owned(n) ==
    IsReceipt(receipts[n]) /\ n \notin reported =>
        (\E t \in linked : job[t].write = n) \/ WasLeft(n)

Parts ==
    /\ \A t \in Terminal : AtWork(t)
    /\ \A t \in linked : HasLinked(t)
    /\ \A n \in reported : Stays(n)
    /\ \A n \in Name : Rewrites(n) /\ Owned(n)
    /\ \A t \in temp : HasTemp(t)

LEMMA DurableParts == (Durable <=> Parts) /\ (Durable <=> Parts)'
  BY DEF Durable, LeftoversHaveACause, LinksHeld, ReportedReceiptsStay, Parts, AtWork, HasLinked,
     HasTemp, Stays, Rewrites, Owned

(* A command that only goes from one step to another.                      *)
LEMMA Going ==
    ASSUME TypeOK, Durable, NEW t \in Terminal, NEW step,
           Goto(t, step), step # "idle",
           UNCHANGED <<receipts, kept, rewriting, linked, reported>>,
           left' = left,
           \A u \in (Terminal \ {t}) \cup linked : job'[u].write = job[u].write,
           temp' \subseteq temp \cup {t}, t \in temp' => HasTemp(t)',
           AtWork(t)', t \in linked => HasLinked(t)'
    PROVE  Durable'
<1>1. /\ pc'[t] = step
      /\ \A u \in Terminal \ {t} : pc'[u] = pc[u]
  BY DEF TypeOK, Goto
<1>2. \A u \in Terminal \ {t} : AtWork(u)'
  BY <1>1, DurableParts DEF Parts, AtWork
<1>3. linked \subseteq Terminal
  BY DEF TypeOK
<1>4. \A u \in linked \ {t} : HasLinked(u)'
  BY <1>1, <1>3, DurableParts DEF Parts, HasLinked
<1>5. (\A n \in reported : Stays(n))'
  BY DurableParts DEF Parts, Stays
<1>6. (\A n \in Name : Rewrites(n) /\ Owned(n))'
  BY <1>3, DurableParts DEF Parts, Rewrites, Owned, WasLeft
<1>7. (\A u \in temp : HasTemp(u))'
  <2>1. temp \subseteq Terminal
    BY DEF TypeOK
  <2> QED
    BY <1>1, <2>1, DurableParts DEF Parts, HasTemp
<1>8. (\A u \in Terminal : AtWork(u))'
  BY <1>2
<1>9. (\A u \in linked : HasLinked(u))'
  BY <1>4
<1> QED
  BY <1>5, <1>6, <1>7, <1>8, <1>9, DurableParts DEF Parts

(* A process that ends, and what it has not linked or has just withdrawn.  *)
LEMMA Ending ==
    ASSUME TypeOK, Durable, NEW t \in Terminal, Ends(t),
           UNCHANGED <<kept, rewriting>>, temp' \subseteq temp \ {t},
           reported \subseteq reported',
           \A n \in Name : \/ receipts'[n] = receipts[n]
                           \/ receipts'[n] = None /\ t \in linked /\ n = job[t].write,
           \A n \in reported' : \/ n \in reported /\ receipts'[n] = receipts[n]
                                \/ t \in linked /\ n = job[t].write /\ Stays(n)',
           left \subseteq left',
           \A n \in Name : t \in linked /\ n = job[t].write =>
                             receipts'[n] = None \/ n \in reported' \/ WasLeft(n)'
    PROVE  Durable'
<1>0. linked \subseteq Terminal /\ temp \subseteq Terminal /\ Parts
  BY DurableParts DEF TypeOK
<1>1. /\ pc'[t] = "idle" /\ linked' = linked \ {t}
      /\ \A u \in Terminal \ {t} : pc'[u] = pc[u] /\ job'[u] = job[u]
  BY DEF TypeOK, Ends, Goto
<1>2. (\A u \in Terminal : AtWork(u))'
  BY <1>0, <1>1 DEF Parts, AtWork
<1>3. (\A u \in linked : HasLinked(u))'
  <2> SUFFICES ASSUME NEW u \in linked \ {t} PROVE HasLinked(u)'
    BY <1>1
  <2>1. HasLinked(u) /\ pc'[u] = pc[u] /\ job'[u] = job[u]
    BY <1>0, <1>1 DEF Parts
  <2>2. t \in linked => job[t].write # job[u].write
    BY <1>0, <2>1 DEF HasLinked
  <2>3. receipts'[job[u].write] # None /\ job[u].write \notin reported'
    BY <2>1, <2>2 DEF HasLinked
  <2>4. \A v \in linked' : job'[v].write = job'[u].write => v = u
    BY <1>0, <1>1, <2>1 DEF HasLinked
  <2> QED
    BY <2>1, <2>3, <2>4 DEF HasLinked
<1>4. (\A n \in reported : Stays(n))'
  BY <1>0 DEF Parts, Stays
<1>5. (\A n \in Name : Rewrites(n))'
  <2> SUFFICES ASSUME NEW n \in Name, rewriting[n] # None
               PROVE  receipts'[n] = Torn /\ n \in reported'
    BY DEF Rewrites
  <2>1. receipts[n] = Torn /\ n \in reported
    BY <1>0 DEF Parts, Rewrites
  <2>2. ~(t \in linked /\ n = job[t].write)
    BY <1>0, <2>1 DEF Parts, HasLinked
  <2> QED
    BY <2>1, <2>2
<1>6. (\A n \in Name : Owned(n))'
  <2> SUFFICES ASSUME NEW n \in Name, IsReceipt(receipts'[n]), n \notin reported',
                      ~WasLeft(n)'
               PROVE  \E u \in linked' : job'[u].write = n
    BY DEF Owned
  <2>1. receipts'[n] = receipts[n] /\ n \notin reported /\ ~WasLeft(n)
    BY DEF IsReceipt, WasLeft
  <2>2. PICK u \in linked : job[u].write = n
    BY <1>0, <2>1 DEF Parts, Owned
  <2>3. u # t
    BY <2>2, Zenon DEF IsReceipt
  <2> QED
    BY <1>0, <1>1, <2>2, <2>3
<1>7. (\A u \in temp : HasTemp(u))'
  BY <1>0, <1>1 DEF Parts, HasTemp
<1> QED
  BY <1>2, <1>3, <1>4, <1>5, <1>6, <1>7, DurableParts DEF Parts

LEMMA LinkKeeps ==
    ASSUME TypeOK, Durable, NEW t \in Terminal, Link(t)
    PROVE  Durable'
<1>0. linked \subseteq Terminal /\ temp \subseteq Terminal /\ Parts
  BY DurableParts DEF TypeOK
<1> DEFINE n == job[t].write
<1>1. n \in Name /\ t \notin linked
  <2>1. n \in Name \cup {None}
    BY DEF TypeOK, Job
  <2>2. n # None /\ (t \in linked => HasLinked(t))
    BY <1>0 DEF Link, Parts, AtWork
  <2> QED
    BY <2>1, <2>2 DEF Link, HasLinked
<1>2. UNCHANGED <<world, kept, job, temp, left, history>>
  BY DEF Link
<1>3. CASE receipts[n] # None
  <2>1. Goto(t, "withdraw") /\ UNCHANGED <<receipts, linked, moved>>
    BY <1>3 DEF Link
  <2>2. AtWork(t)' /\ HasTemp(t)'
    BY <2>1 DEF AtWork, HasTemp, Goto, TypeOK
  <2> QED
    BY <1>1, <1>2, <2>1, <2>2, Going DEF world, history
<1>4. CASE receipts[n] = None
  <2>1. /\ receipts' = [receipts EXCEPT ![n] = [of |-> job[t].id, coverage |-> job[t].draft]]
        /\ linked' = linked \cup {t} /\ Goto(t, "sync")
    BY <1>4 DEF Link
  <2>2. /\ pc'[t] = "sync"
        /\ \A u \in Terminal \ {t} : pc'[u] = pc[u]
    BY <2>1 DEF TypeOK, Goto
  <2>3. /\ receipts'[n] # None
        /\ \A m \in Name \ {n} : receipts'[m] = receipts[m]
    <3>1. [of |-> job[t].id, coverage |-> job[t].draft] \in Receipt
      BY DEF TypeOK, Job, Receipt
    <3> QED
      BY <1>1, <2>1, <3>1 DEF TypeOK
  <2>4. n \notin reported
    BY <1>0, <1>4 DEF Parts, Stays
  <2>5. \A u \in linked : job[u].write # n
    BY <1>0, <1>4 DEF Parts, HasLinked
  <2>6. (\A u \in Terminal : AtWork(u))'
    BY <1>0, <1>1, <1>2, <2>1, <2>2 DEF Parts, AtWork
  <2>7. (\A u \in linked : HasLinked(u))'
    <3>1. HasLinked(t)'
      BY <1>1, <1>2, <2>1, <2>2, <2>3, <2>4, <2>5 DEF HasLinked, history
    <3>2. ASSUME NEW u \in linked PROVE HasLinked(u)'
      <4>1. HasLinked(u) /\ u # t
        BY <1>0, <1>1 DEF Parts
      <4> QED
        BY <1>0, <1>2, <2>1, <2>2, <2>3, <2>5, <4>1 DEF HasLinked, history
    <3> QED
      BY <2>1, <3>1, <3>2
  <2>8. (\A m \in reported : Stays(m))'
    <3>1. reported \subseteq Name
      BY DEF TypeOK
    <3> QED
      BY <1>0, <1>2, <2>3, <2>4, <3>1 DEF Parts, Stays, history
  <2>9. (\A m \in Name : Rewrites(m) /\ Owned(m))'
    <3>1. rewriting[n] = None
      BY <1>0, <1>1, <2>4 DEF Parts, Rewrites
    <3>2. ASSUME NEW m \in Name PROVE Rewrites(m)'
      <4>1. Rewrites(m)
        BY <1>0 DEF Parts
      <4> QED
        BY <1>2, <2>3, <3>1, <4>1 DEF Rewrites, world, history
    <3>3. ASSUME NEW m \in Name PROVE Owned(m)'
      <4>1. Owned(m)
        BY <1>0 DEF Parts
      <4>2. m = n \/ receipts'[m] = receipts[m]
        BY <2>3
      <4> QED
        BY <1>2, <2>1, <4>1, <4>2 DEF Owned, WasLeft, history
    <3> QED
      BY <3>2, <3>3
  <2>10. (\A u \in temp : HasTemp(u))'
    BY <1>0, <1>2, <2>2 DEF Parts, HasTemp
  <2> QED
    BY <2>6, <2>7, <2>8, <2>9, <2>10, DurableParts DEF Parts
<1> QED
  BY <1>3, <1>4

LEMMA SyncKeeps ==
    ASSUME TypeOK, Durable, NEW t \in Terminal, Sync(t)
    PROVE  Durable'
<1>0. linked \subseteq Terminal /\ temp \subseteq Terminal /\ Parts
  BY DurableParts DEF TypeOK
<1>1. /\ kept' = receipts
      /\ UNCHANGED <<tree, artifacts, rewriting, receipts, job, temp, linked, moved, left,
                     count, reported>>
  BY DEF Sync, world, history
<1>2. /\ pc[t] = "sync" /\ pc'[t] = "check2"
      /\ \A u \in Terminal \ {t} : pc'[u] = pc[u]
  BY DEF TypeOK, Sync, Goto
<1>3. ASSUME NEW u \in Terminal PROVE AtWork(u)'
  <2>1. AtWork(u) /\ (u \in linked => HasLinked(u))
    BY <1>0 DEF Parts
  <2>2. u = t \/ pc'[u] = pc[u]
    BY <1>2
  <2> QED
    BY <1>1, <1>2, <2>1, <2>2 DEF AtWork, HasLinked
<1>4. ASSUME NEW u \in linked PROVE HasLinked(u)'
  <2>1. HasLinked(u)
    BY <1>0 DEF Parts
  <2>2. u = t \/ pc'[u] = pc[u]
    BY <1>0, <1>2
  <2> QED
    BY <1>1, <1>2, <2>1, <2>2 DEF HasLinked
<1>5. (\A n \in reported : Stays(n))'
  BY <1>0, <1>1 DEF Parts, Stays
<1>6. (\A n \in Name : Rewrites(n) /\ Owned(n))'
  BY <1>0, <1>1 DEF Parts, Rewrites, Owned, WasLeft
<1>7. (\A u \in temp : HasTemp(u))'
  BY <1>0, <1>1, <1>2 DEF Parts, HasTemp
<1>8. (\A u \in Terminal : AtWork(u))' /\ (\A u \in linked : HasLinked(u))'
  BY <1>1, <1>3, <1>4
<1> QED
  BY <1>5, <1>6, <1>7, <1>8, DurableParts DEF Parts

(* What is left behind is known to be.                                     *)
LEMMA LeavingTells ==
    ASSUME NEW t, NEW files, NEW why, Leftovers(t, files, why) \subseteq left',
           "receipt" \in files, NEW n, n = job[t].write
    PROVE  WasLeft(n)'
<1> DEFINE l == [name |-> n, file |-> "receipt", cause |-> why]
<1>1. l \in left' /\ l.name = n /\ l.file = "receipt"
  BY DEF Leftovers
<1> HIDE DEF l
<1> QED
  BY <1>1 DEF WasLeft

LEMMA WithdrawKeeps ==
    ASSUME TypeOK, Durable, NEW t \in Terminal, Withdraw(t)
    PROVE  Durable'
<1>0. Parts
  BY DurableParts
<1>1. /\ temp' = temp \ {t} /\ Ends(t)
      /\ UNCHANGED <<kept, rewriting, reported>>
  BY DEF Withdraw, world
<1>2. t \in linked => job[t].write \in Name \ reported
  BY <1>0 DEF Parts, HasLinked
<1>3. PICK stays \in SUBSET Mine(t) :
         /\ receipts' = IF Withdraws(t) /\ "receipt" \notin stays
                        THEN [receipts EXCEPT ![job[t].write] = None] ELSE receipts
         /\ left' = left \cup Leftovers(t, stays, "NOT_REMOVED")
  BY DEF Withdraw
<1>4. \A n \in Name : \/ receipts'[n] = receipts[n]
                      \/ receipts'[n] = None /\ t \in linked /\ n = job[t].write
  BY <1>3 DEF TypeOK, Withdraws
<1>5. ASSUME t \in linked, NEW n \in Name, n = job[t].write
      PROVE  receipts'[n] = None \/ WasLeft(n)'
  <2>1. CASE "receipt" \in stays
    BY <1>3, <1>5, <2>1, LeavingTells
  <2>2. CASE "receipt" \notin stays
    BY <1>2, <1>3, <1>5, <2>2 DEF TypeOK, Withdraws
  <2> QED
    BY <2>1, <2>2
<1>6. \A n \in reported' : n \in reported /\ receipts'[n] = receipts[n]
  BY <1>1, <1>2, <1>4 DEF TypeOK
<1> QED
  BY <1>1, <1>3, <1>4, <1>5, <1>6, Ending

(* A command whose finally fails leaves a receipt.                         *)
LEMMA FailCleanKeeps ==
    ASSUME TypeOK, Durable, NEW t \in Terminal, FailClean(t)
    PROVE  Durable'
<1>1. /\ temp' = temp \ {t} /\ Ends(t)
      /\ UNCHANGED <<receipts, kept, rewriting, reported>>
  BY DEF FailClean, world
<1>2. /\ left \subseteq left'
      /\ \/ Leftovers(t, Mine(t), "NOT_REMOVED") \subseteq left'
         \/ Leftovers(t, Mine(t) \ {"temporary"}, "NOT_CLOSED") \subseteq left'
  BY DEF FailClean
<1>3. t \in linked => "receipt" \in Mine(t) /\ "receipt" \in Mine(t) \ {"temporary"}
  BY DEF Mine
<1>4. \A n \in Name : t \in linked /\ n = job[t].write => WasLeft(n)'
  BY <1>2, <1>3, LeavingTells
<1> QED
  BY <1>1, <1>2, <1>4, Ending

LEMMA ReportKeeps ==
    ASSUME TypeOK, Durable, NEW t \in Terminal, Report(t)
    PROVE  Durable'
<1>0. Parts
  BY DurableParts
<1>1. /\ pc[t] = "report" /\ Ends(t)
      /\ reported' = reported \cup ({job[t].write} \ {None})
      /\ UNCHANGED <<receipts, kept, rewriting, temp, left>>
  BY DEF Report, world
<1>2. job[t].write # None =>
         t \in linked /\ kept[job[t].write] # None
  BY <1>0, <1>1 DEF Parts, AtWork
<1>3. t \in linked => job[t].write \in Name /\ receipts[job[t].write] # None
  BY <1>0 DEF Parts, HasLinked
<1>4. t \notin temp
  BY <1>0, <1>1 DEF Parts, HasTemp
<1>5. \A n \in reported' : \/ n \in reported /\ receipts'[n] = receipts[n]
                           \/ t \in linked /\ n = job[t].write /\ Stays(n)'
  BY <1>1, <1>2, <1>3 DEF Stays
<1>6. t \in linked => job[t].write \in reported'
  BY <1>1, <1>3
<1> QED
  BY <1>1, <1>4, <1>5, <1>6, Ending

LEMMA KillKeeps ==
    ASSUME TypeOK, Durable, NEW t \in Terminal, Kill(t)
    PROVE  Durable'
<1>1. /\ Ends(t) /\ temp' = temp \ {t}
      /\ left' = left \cup Leftovers(t, Mine(t), "KILLED")
      /\ UNCHANGED <<receipts, kept, rewriting, reported>>
  BY DEF Kill, world
<1>2. t \in linked => "receipt" \in Mine(t)
  BY DEF Mine
<1>3. \A n \in Name : t \in linked /\ n = job[t].write => WasLeft(n)'
  BY <1>1, <1>2, LeavingTells
<1> QED
  BY <1>1, <1>3, Ending

(* After a power failure there is what was synced, or more.                *)
LEMMA PowerFailureKeeps ==
    ASSUME TypeOK, Durable, PowerFailure
    PROVE  Durable'
<1>0. Parts /\ reported \subseteq Name
  BY DurableParts DEF TypeOK
<1>1. /\ kept' = receipts' /\ rewriting' = [n \in Name |-> None]
      /\ pc' = [t \in Terminal |-> "idle"]
      /\ temp' = {} /\ linked' = {} /\ reported' = reported
  BY DEF PowerFailure
<1>2. \A n \in Name : receipts'[n] \in {kept[n], receipts[n]}
  BY DEF PowerFailure
<1>3. (\A t \in Terminal : AtWork(t))'
  BY <1>1 DEF AtWork
<1>4. (\A n \in reported : Stays(n))'
  BY <1>0, <1>1, <1>2 DEF Parts, Stays
<1>5. (\A n \in Name : Rewrites(n))'
  BY <1>1 DEF Rewrites
<1>6. (\A n \in Name : Owned(n))'
  <2> SUFFICES ASSUME NEW n \in Name, IsReceipt(receipts'[n]), n \notin reported
               PROVE  WasLeft(n)'
    BY <1>1 DEF Owned
  <2>1. left \subseteq left'
    BY DEF PowerFailure
  <2>2. CASE kept[n] # None
    <3> DEFINE l == [name |-> n, file |-> "receipt", cause |-> "KILLED"]
    <3>1. l \in Unreported /\ l.name = n /\ l.file = "receipt"
      BY <2>2 DEF Unreported
    <3>2. Unreported \subseteq left'
      BY DEF PowerFailure
    <3> HIDE DEF l
    <3> QED
      BY <3>1, <3>2 DEF WasLeft
  <2>3. CASE kept[n] = None
    <3>1. IsReceipt(receipts[n])
      BY <1>2, <2>3 DEF IsReceipt
    <3>2. CASE WasLeft(n)
      BY <2>1, <3>2 DEF WasLeft
    <3>3. CASE \E t \in linked : job[t].write = n
      <4>1. PICK t \in linked : job[t].write = n
        BY <3>3
      <4>2. t \in Terminal /\ "receipt" \in Mine(t)
        BY <4>1 DEF TypeOK, Mine
      <4>3. Leftovers(t, Mine(t), "KILLED") \subseteq left'
        BY <4>2 DEF PowerFailure, OfTheKilled
      <4> QED
        BY <4>1, <4>2, <4>3, LeavingTells
    <3> QED
      BY <1>0, <3>1, <3>2, <3>3 DEF Parts, Owned
  <2> QED
    BY <2>2, <2>3
<1> QED
  BY <1>1, <1>3, <1>4, <1>5, <1>6, DurableParts DEF Parts

(* The supervisor touches reported receipts only, and leaves none out.     *)
LEMMA SupervisorKeeps ==
    ASSUME TypeOK, Durable, NEW n \in Name, BeginRecord(n) \/ EndRecord(n)
    PROVE  Durable'
<1>0. Parts /\ linked \subseteq Terminal
  BY DurableParts DEF TypeOK
<1>1. n \in reported
  BY <1>0 DEF BeginRecord, EndRecord, Parts, Rewrites
<1>2. UNCHANGED <<pc, job, temp, linked, left, reported>>
  BY DEF BeginRecord, EndRecord, history
<1>3. /\ receipts'[n] # None
      /\ \A m \in Name \ {n} : receipts'[m] = receipts[m]
      /\ \A m \in Name : kept[m] # None => kept'[m] # None
      /\ \A m \in Name \ {n} : rewriting'[m] = rewriting[m]
      /\ rewriting'[n] # None => receipts'[n] = Torn
  <2>1. CASE BeginRecord(n)
    <3>1. receipts' = [receipts EXCEPT ![n] = Torn] /\ kept' = kept
      BY <2>1 DEF BeginRecord
    <3>2. rewriting' = [rewriting EXCEPT ![n] = rewriting'[n]]
      BY <2>1, RecordingIsAReceipt
    <3>3. \A m \in Name \ {n} : rewriting'[m] = rewriting[m]
      BY <3>2 DEF TypeOK
    <3> QED
      BY <3>1, <3>3 DEF TypeOK
  <2>2. CASE EndRecord(n)
    BY <2>2 DEF EndRecord, TypeOK
  <2> QED
    BY <2>1, <2>2
<1>4. \A m \in Name : receipts[m] # None => receipts'[m] # None
  BY <1>3
<1>5. ASSUME NEW t \in Terminal PROVE AtWork(t)'
  <2>1. AtWork(t) /\ job[t].write \in Name \cup {None}
    BY <1>0 DEF Parts, TypeOK, Job
  <2> QED
    BY <1>2, <1>3, <2>1 DEF AtWork
<1>6. ASSUME NEW t \in linked PROVE HasLinked(t)'
  <2>1. HasLinked(t)
    BY <1>0 DEF Parts
  <2> QED
    BY <1>2, <1>4, <2>1 DEF HasLinked
<1>7. ASSUME NEW m \in reported PROVE Stays(m)'
  <2>1. Stays(m) /\ m \in Name
    BY <1>0 DEF Parts, TypeOK
  <2> QED
    BY <1>3, <1>4, <2>1 DEF Stays
<1>8. ASSUME NEW m \in Name PROVE Rewrites(m)' /\ Owned(m)'
  <2>1. Rewrites(m) /\ Owned(m)
    BY <1>0 DEF Parts
  <2>2. CASE m = n
    BY <1>1, <1>2, <1>3, <2>2 DEF Rewrites, Owned
  <2>3. CASE m # n
    BY <1>2, <1>3, <2>1, <2>3 DEF Rewrites, Owned, WasLeft
  <2> QED
    BY <2>2, <2>3
<1>9. (\A t \in temp : HasTemp(t))'
  BY <1>0, <1>2 DEF Parts, HasTemp
<1>10. /\ (\A t \in Terminal : AtWork(t))' /\ (\A t \in linked : HasLinked(t))'
       /\ (\A m \in reported : Stays(m))' /\ (\A m \in Name : Rewrites(m) /\ Owned(m))'
  BY <1>2, <1>5, <1>6, <1>7, <1>8
<1> QED
  BY <1>9, <1>10, DurableParts DEF Parts

LEMMA DurableStep == TypeOK /\ Durable /\ [Next]_vars => Durable'
<1> SUFFICES ASSUME TypeOK, Durable, [Next]_vars PROVE Durable'
  OBVIOUS
<1>0. linked \subseteq Terminal /\ Parts
  BY DurableParts DEF TypeOK
<1>1. ASSUME NEW t \in Terminal, Collect(t) PROVE Durable'
  <2>1. t \notin linked
    BY <1>0, <1>1 DEF Collect, Parts, HasLinked
  <2>2. /\ Goto(t, "previous")
        /\ UNCHANGED <<artifacts, rewriting, receipts, kept, temp, linked, moved, left, reported>>
        /\ \A u \in Terminal \ {t} : job'[u] = job[u]
    BY <1>1 DEF Collect, TypeOK
  <2>3. AtWork(t)'
    BY <2>2 DEF AtWork, Goto, TypeOK
  <2>4. t \notin temp
    BY <1>0, <1>1 DEF Collect, Parts, HasTemp
  <2> QED
    BY <1>0, <2>1, <2>2, <2>3, <2>4, Going
<1>2. ASSUME NEW t \in Terminal, ReadPrevious(t) PROVE Durable'
  <2>1. t \notin linked
    BY <1>0, <1>2 DEF ReadPrevious, Parts, HasLinked
  <2>2. /\ Goto(t, IF job[t].write = None THEN "report" ELSE "temp")
        /\ UNCHANGED <<rewriting, receipts, kept, temp, linked, left, reported>>
    BY <1>2 DEF ReadPrevious, world, history
  <2>3. \A u \in Terminal : job'[u].write = job[u].write
    BY <1>2, ReadingIsAJob DEF TypeOK
  <2>4. AtWork(t)'
    BY <2>2, <2>3 DEF AtWork, Goto, TypeOK
  <2>5. t \notin temp
    BY <1>0, <1>2 DEF ReadPrevious, Parts, HasTemp
  <2> QED
    BY <1>0, <2>1, <2>2, <2>3, <2>4, <2>5, Going
<1>3. ASSUME NEW t \in Terminal, CreateTemp(t) PROVE Durable'
  <2>1. /\ t \notin linked /\ AtWork(t)
    BY <1>0, <1>3 DEF CreateTemp, Parts, HasLinked
  <2>2. /\ pc[t] = "temp" /\ Goto(t, "check1") /\ temp' = temp \cup {t}
        /\ UNCHANGED <<rewriting, receipts, kept, job, linked, left, reported>>
    BY <1>3 DEF CreateTemp, world, history
  <2>3. AtWork(t)' /\ HasTemp(t)'
    BY <2>1, <2>2 DEF AtWork, HasTemp, Goto, TypeOK
  <2> QED
    BY <2>1, <2>2, <2>3, Going
<1>4. ASSUME NEW t \in Terminal, Check(t) \/ Break(t) \/ Clean(t) PROVE Durable'
  <2>1. AtWork(t) /\ (t \in linked => HasLinked(t))
    BY <1>0 DEF Parts
  <2>2. /\ UNCHANGED <<rewriting, receipts, kept, job, linked, left, reported>>
        /\ temp' \subseteq temp /\ (Clean(t) => t \notin temp')
    BY <1>4 DEF Check, Break, Clean, world, history
  <2>3. PICK step : /\ Goto(t, step)
                    /\ \/ step = "withdraw"
                       \/ pc[t] = "check1" /\ step = "link"
                       \/ pc[t] = "check2" /\ step = "clean"
                       \/ Clean(t) /\ pc[t] = "clean" /\ step = "report"
    BY <1>4 DEF Check, Break, Clean
  <2>4. AtWork(t)'
    BY <2>1, <2>2, <2>3 DEF AtWork, Goto, TypeOK
  <2>5. t \in linked => HasLinked(t)'
    BY <2>1, <2>2, <2>3 DEF HasLinked, Goto, TypeOK
  <2>6. t \in temp' => HasTemp(t)'
    BY <2>2, <2>3 DEF HasTemp, Goto, TypeOK
  <2> QED
    BY <2>2, <2>3, <2>4, <2>5, <2>6, Going
<1>5. CASE UNCHANGED vars
  <2>1. Durable' <=> Durable
    BY <1>5 DEF vars, Durable, LeftoversHaveACause, WasLeft, LinksHeld,
       ReportedReceiptsStay
  <2> QED
    BY <2>1
<1> QED
  BY <1>1, <1>2, <1>3, <1>4, <1>5, LinkKeeps, SyncKeeps, WithdrawKeeps, FailCleanKeeps,
     ReportKeeps, KillKeeps,
     PowerFailureKeeps, SupervisorKeeps DEF Next, Command

-----------------------------------------------------------------------------
(* What was reviewed. *)

(* Along a chain of checks: if the first evidence is in a set that each    *)
(* check leads from into, all of them are.                                 *)
LEMMA Chained ==
    ASSUME NEW n \in Nat, NEW e, NEW covered,
           n >= 1 => e[1] \in covered,
           \A i \in 1..n : i # 1 /\ e[i - 1] \in covered => e[i] \in covered
    PROVE  \A i \in 1..n : e[i] \in covered
<1> SUFFICES ASSUME {i \in 1..n : e[i] \notin covered} # {} PROVE FALSE
  OBVIOUS
<1> DEFINE T == {i \in 1..n : e[i] \notin covered}
           R == {ss \in Nat \X Nat : ss[1] < ss[2]}
<1>1. IsWellFoundedOn(R, Nat)
  BY NatLessThanWellFounded, Zenon DEF OpToRel
<1>2. T \subseteq Nat /\ T # {}
  OBVIOUS
<1>3. PICK m \in T : \A y \in T : ~ (<<y, m>> \in R)
  <2> HIDE DEF T, R
  <2> QED
    BY <1>1, <1>2, WFMin
<1>4. \A y \in T : ~ (y < m)
  BY <1>2, <1>3
<1>5. m \in 1..n /\ m # 1 /\ m - 1 \in 1..n
  BY <1>3
<1>6. m - 1 \notin T
  BY <1>4, <1>5
<1>7. e[m - 1] \in covered
  BY <1>5, <1>6
<1> QED
  BY <1>3, <1>5, <1>7

LEMMA CompleteIsReviewed ==
    ASSUME NEW r \in Receipt, CoverageComplete(r), Cited(r.coverage) \subseteq artifacts
    PROVE  WasReviewed(r.of)
<1> DEFINE f == r.coverage.foundation
           ds == r.coverage.deltas
           n == Len(ds)
           e == [i \in 1..n |-> ds[i].of.evidence]
<1>1. /\ f \in Foundation /\ SameReview(f.of, r.of) /\ f \in artifacts
  BY ReceiptFields DEF CoverageComplete, Cited
<1>2. /\ ds \in Seq(DeltaCheck) /\ n \in Nat /\ DOMAIN ds = 1..n
      /\ \A i \in 1..n : ds[i] \in DeltaCheck
  BY ReceiptFields, LenProperties, ElementOfSeq
<1>3. \A i \in 1..n : ds[i] \in artifacts
  BY <1>2 DEF Cited
<1>4. ChainFits(r.of, f.of.evidence, ds)
  BY DEF CoverageComplete
<1>5. \A i \in 1..n : /\ SameReview(ds[i].of, r.of)
                      /\ ds[i].from = IF i = 1 THEN f.of.evidence ELSE ds[i - 1].of.evidence
  BY <1>2, <1>4 DEF ChainFits
<1>6. r.of.evidence = IF ds = <<>> THEN f.of.evidence ELSE ds[n].of.evidence
  BY <1>4 DEF ChainFits
<1> HIDE DEF f, ds, n
<1>7. f.kind = "foundation" /\ \A i \in 1..n : ds[i].kind = "delta"
  BY <1>1, <1>2 DEF Foundation, DeltaCheck
<1> SUFFICES ASSUME NEW covered \in SUBSET Evidence,
                    \A a \in artifacts : a.kind # "round" /\ SameReview(a.of, r.of) =>
                        \/ a.of.evidence \in covered
                        \/ a.kind = "delta" /\ a.from \notin covered
             PROVE  r.of.evidence \in covered
  BY Zenon DEF WasReviewed
<1>8. f.of.evidence \in covered
  BY <1>1, <1>7
<1>9. ASSUME NEW i \in 1..n, ds[i].from \in covered PROVE e[i] \in covered
  BY <1>3, <1>5, <1>7, <1>9
<1>10. n >= 1 => e[1] \in covered
  BY <1>2, <1>5, <1>8, <1>9
<1>11. ASSUME NEW i \in 1..n, i # 1, e[i - 1] \in covered PROVE e[i] \in covered
  <2>1. i - 1 \in 1..n
    BY <1>2, <1>11
  <2>2. ds[i].from = e[i - 1]
    BY <1>5, <1>11, <2>1
  <2> QED
    BY <1>9, <1>11, <2>2
<1> HIDE DEF e
<1>12. \A i \in 1..n : e[i] \in covered
  BY <1>2, <1>10, <1>11, Chained
<1>13. CASE ds = <<>>
  BY <1>6, <1>8, <1>13
<1>14. CASE ds # <<>>
  <2>1. n \in 1..n
    BY <1>2, <1>14, EmptySeq DEF n
  <2> QED
    BY <1>6, <1>12, <1>14, <2>1 DEF e
<1> QED
  BY <1>13, <1>14

(* Only base, increment and material say which artifacts count.            *)
LEMMA ReviewedAlike ==
    ASSUME NEW of, NEW other, SameReview(of, other), of.evidence = other.evidence,
           WasReviewed(of)
    PROVE  WasReviewed(other)
<1>1. \A a : SameReview(a.of, of) <=> SameReview(a.of, other)
  BY DEF SameReview
<1> QED
  BY <1>1 DEF WasReviewed

(* What a command knows of a previous receipt, it has read in one step     *)
(* from the receipts.                                                      *)
Reads(t) ==
    \E p \in Prior :
       /\ IsReceipt(p) => \E n \in Name : p = receipts[n]
       /\ job'[t].id = job[t].id /\ job'[t].prior = p
       /\ job'[t].answer = Classify(p, job[t].id)
       /\ job'[t].draft = Carry(p, job[t].id)

Blank(j) == j.prior = None /\ j.answer = "NONE" /\ j.draft = Uncovered

LEMMA NoJobIsBlank == Blank(NoJob)
  BY DEF Blank, NoJob

LEMMA Reading ==
    ASSUME TypeOK, NEW t \in Terminal, ReadPrevious(t)
    PROVE  Reads(t) /\ artifacts' = artifacts /\ \A u \in Terminal \ {t} : job'[u] = job[u]
<1>1. PICK p \in Prior :
         /\ p = IF job[t].previous = None THEN None
                ELSE Validated(receipts[job[t].previous])
         /\ job' = [job EXCEPT ![t] = [job[t] EXCEPT !.previous = None, !.prior = p,
                                              !.answer = Classify(p, job[t].id),
                                              !.draft = Carry(p, job[t].id)]]
         /\ job'[t].id = job[t].id
         /\ job'[t].prior = p /\ job'[t].answer = Classify(p, job[t].id)
         /\ job'[t].draft = Carry(p, job[t].id)
  BY ReadingIsAJob, Zenon
<1>2. IsReceipt(p) => \E n \in Name : p = receipts[n]
  <2>1. job[t].previous \in Name \cup {None}
    BY DEF TypeOK, Job
  <2> QED
    BY <1>1, <2>1 DEF Validated, IsReceipt
<1>3. \A u \in Terminal \ {t} : job'[u] = job[u]
  BY <1>1 DEF TypeOK
<1>4. artifacts' = artifacts
  BY DEF ReadPrevious, world
<1> QED
  BY <1>1, <1>2, <1>3, <1>4, Zenon DEF Reads

LEMMA JobsStep ==
    ASSUME TypeOK, [Next]_vars
    PROVE  /\ artifacts \subseteq artifacts'
           /\ \A t \in Terminal : job'[t] = job[t] \/ Blank(job'[t]) \/ Reads(t)
<1>1. ASSUME NEW t \in Terminal, Collect(t)
      PROVE  /\ artifacts' = artifacts
             /\ \A u \in Terminal : job'[u] = job[u] \/ Blank(job'[u])
  <2>1. PICK p, n \in Name \cup {None} :
           job' = [job EXCEPT ![t] = [NoJob EXCEPT !.previous = p, !.write = n, !.id = tree']]
    BY <1>1 DEF Collect
  <2> DEFINE new == [NoJob EXCEPT !.previous = p, !.write = n, !.id = tree']
  <2>2. Blank(new)
    BY DEF Blank, NoJob
  <2> HIDE DEF new
  <2>3. job' = [job EXCEPT ![t] = new]
    BY <2>1 DEF new
  <2>4. artifacts' = artifacts
    BY <1>1 DEF Collect
  <2>5. ASSUME NEW u \in Terminal PROVE job'[u] = job[u] \/ Blank(job'[u])
    <3>1. job'[u] = IF u = t THEN new ELSE job[u]
      BY <2>3 DEF TypeOK
    <3> QED
      BY <2>2, <3>1
  <2> QED
    BY <2>4, <2>5
<1>2. ASSUME NEW t \in Terminal, Ends(t), NEW u \in Terminal
      PROVE  job'[u] = job[u] \/ Blank(job'[u])
  <2>1. job'[u] = IF u = t THEN NoJob ELSE job[u]
    BY <1>2 DEF Ends, TypeOK
  <2> QED
    BY <2>1, NoJobIsBlank
<1>3. ASSUME NEW t \in Terminal, Withdraw(t) \/ FailClean(t) \/ Report(t) \/ Kill(t)
      PROVE  artifacts' = artifacts /\ Ends(t)
  BY <1>3 DEF Withdraw, FailClean, Report, Kill, world
<1>4. ASSUME NEW t \in Terminal, CreateTemp(t) \/ Check(t) \/ Link(t) \/ Sync(t) \/ Break(t) \/ Clean(t)
      PROVE  artifacts' = artifacts /\ job' = job
  BY <1>4 DEF CreateTemp, Check, Link, Sync, Break, Clean, world
<1>5. ASSUME PowerFailure
      PROVE  artifacts' = artifacts /\ \A u \in Terminal : Blank(job'[u])
  BY <1>5, NoJobIsBlank DEF PowerFailure
<1>6. ASSUME NEW n \in Name, BeginRecord(n) \/ EndRecord(n)
      PROVE  artifacts \subseteq artifacts' /\ job' = job
  BY <1>6, RecordingIsAReceipt DEF BeginRecord, EndRecord
<1>7. CASE UNCHANGED vars
  BY <1>7 DEF vars
<1>8. ASSUME NEW t \in Terminal, Command(t) \/ Kill(t)
      PROVE  /\ artifacts \subseteq artifacts'
             /\ \A u \in Terminal : job'[u] = job[u] \/ Blank(job'[u]) \/ Reads(u)
  <2>1. CASE Collect(t)
    BY <1>1, <2>1
  <2>2. CASE ReadPrevious(t)
    BY <2>2, Reading
  <2>3. CASE Withdraw(t) \/ FailClean(t) \/ Report(t) \/ Kill(t)
    BY <1>2, <1>3, <2>3
  <2>4. CASE CreateTemp(t) \/ Check(t) \/ Link(t) \/ Sync(t) \/ Break(t) \/ Clean(t)
    BY <1>4, <2>4
  <2> QED
    BY <1>8, <2>1, <2>2, <2>3, <2>4 DEF Command
<1> QED
  BY <1>5, <1>6, <1>7, <1>8 DEF Next

-----------------------------------------------------------------------------
(* No receipt refers to an artifact that is not there. *)

LEMMA CitationsAtFirst == Init => CitationsHeld
<1> SUFFICES ASSUME Init PROVE CitationsHeld
  OBVIOUS
<1>1. ASSUME NEW n \in Name, NEW r \in {receipts[n], kept[n], rewriting[n]}, IsReceipt(r)
      PROVE  r.coverage = Uncovered
  BY <1>1 DEF Init, IsReceipt
<1>2. \A t \in Terminal : job[t].draft = Uncovered
  BY DEF Init, NoJob
<1> QED
  BY <1>1, <1>2, Empty DEF CitationsHeld

(* What every step does to the receipts.                                   *)
LEMMA ReceiptsStep ==
    ASSUME TypeOK, Durable, CitationsHeld, [Next]_vars, NEW n \in Name
    PROVE  \A r \in {receipts'[n], kept'[n], rewriting'[n]} :
              \/ ~IsReceipt(r)
              \/ r \in {receipts[n], kept[n], rewriting[n]}
              \/ Cited(r.coverage) \subseteq artifacts'
<1> DEFINE Old == {receipts[n], kept[n], rewriting[n]}
           Goal == \A r \in {receipts'[n], kept'[n], rewriting'[n]} :
                      ~IsReceipt(r) \/ r \in Old \/ Cited(r.coverage) \subseteq artifacts'
<1>0. ~IsReceipt(None) /\ ~IsReceipt(Torn)
  BY DEF IsReceipt
<1>1. ASSUME NEW t \in Terminal,
             Collect(t) \/ ReadPrevious(t) \/ CreateTemp(t) \/ Check(t) \/ Break(t)
             \/ Clean(t) \/ FailClean(t) \/ Report(t) \/ Kill(t)
      PROVE  Goal
  BY <1>1 DEF Collect, ReadPrevious, CreateTemp, Check, Break, Clean, FailClean, Report, Kill, world
<1>2. ASSUME NEW t \in Terminal, Sync(t) PROVE Goal
  BY <1>2 DEF Sync, world
<1>3. ASSUME NEW t \in Terminal, Withdraw(t) PROVE Goal
  <2>1. receipts'[n] \in {None, receipts[n]} /\ kept' = kept /\ rewriting' = rewriting
    BY <1>3 DEF Withdraw, world, TypeOK
  <2> QED
    BY <1>0, <2>1
<1>4. ASSUME NEW t \in Terminal, Link(t) PROVE Goal
  <2>1. kept' = kept /\ rewriting' = rewriting /\ artifacts' = artifacts
    BY <1>4 DEF Link, world
  <2>2. Cited(job[t].draft) \subseteq artifacts
    BY DEF CitationsHeld
  <2>3. \/ receipts'[n] = receipts[n]
        \/ receipts'[n] = [of |-> job[t].id, coverage |-> job[t].draft]
    BY <1>4 DEF Link, TypeOK
  <2>4. receipts'[n] = receipts[n] \/ receipts'[n].coverage = job[t].draft
    BY <2>3
  <2> QED
    BY <2>1, <2>2, <2>4
<1>5. CASE PowerFailure
  BY <1>0, <1>5 DEF PowerFailure
<1>6. ASSUME NEW m \in Name, BeginRecord(m) PROVE Goal
  <2>1. kept' = kept /\ receipts'[n] \in {Torn, receipts[n]}
    BY <1>6 DEF BeginRecord, TypeOK
  <2>2. /\ rewriting' = [rewriting EXCEPT ![m] = rewriting'[m]]
        /\ Cited(rewriting'[m].coverage) \subseteq artifacts'
    BY <1>6, RecordingIsAReceipt
  <2>3. rewriting'[n] = rewriting[n] \/ n = m
    BY <2>2 DEF TypeOK
  <2> QED
    BY <1>0, <2>1, <2>2, <2>3
<1>7. ASSUME NEW m \in Name, EndRecord(m) PROVE Goal
  BY <1>0, <1>7 DEF EndRecord, TypeOK
<1>8. CASE UNCHANGED vars
  BY <1>8 DEF vars
<1>9. Goal
  BY <1>1, <1>2, <1>3, <1>4, <1>5, <1>6, <1>7, <1>8 DEF Next, Command
<1> QED
  BY <1>9

LEMMA CitationsStep == TypeOK /\ Durable /\ CitationsHeld /\ [Next]_vars => CitationsHeld'
<1> SUFFICES ASSUME TypeOK, Durable, CitationsHeld, [Next]_vars PROVE CitationsHeld'
  OBVIOUS
<1>1. artifacts \subseteq artifacts'
  BY JobsStep
<1>2. ASSUME NEW n \in Name, NEW r \in {receipts'[n], kept'[n], rewriting'[n]}, IsReceipt(r)
      PROVE  Cited(r.coverage) \subseteq artifacts'
  <2>1. r \in {receipts[n], kept[n], rewriting[n]} => Cited(r.coverage) \subseteq artifacts
    BY <1>2 DEF CitationsHeld
  <2> QED
    BY <1>1, <1>2, <2>1, ReceiptsStep
<1>3. ASSUME NEW t \in Terminal PROVE Cited(job'[t].draft) \subseteq artifacts'
  <2>1. CASE job'[t] = job[t]
    BY <1>1, <2>1 DEF CitationsHeld
  <2>2. CASE Blank(job'[t])
    BY <2>2, Empty DEF Blank
  <2>3. CASE Reads(t)
    <3>1. PICK p \in Prior : /\ IsReceipt(p) => \E n \in Name : p = receipts[n]
                             /\ job'[t].draft = Carry(p, job[t].id)
      BY <2>3, Zenon DEF Reads
    <3>2. CASE ~IsReceipt(p)
      BY <3>1, <3>2, Carrying, Empty
    <3>3. CASE IsReceipt(p)
      <4>1. Cited(p.coverage) \subseteq artifacts
        BY <3>1, <3>3 DEF CitationsHeld
      <4>2. Cited(Carry(p, job[t].id)) \subseteq Cited(p.coverage)
        BY <3>3, Carrying
      <4> QED
        BY <1>1, <3>1, <4>1, <4>2
    <3> QED
      BY <3>2, <3>3
  <2> QED
    BY <2>1, <2>2, <2>3, JobsStep
<1> QED
  BY <1>2, <1>3 DEF CitationsHeld

-----------------------------------------------------------------------------
(* What is carried over was reviewed. *)

ReviewedBy(of, known) ==
    \A covered \in SUBSET Evidence :
       (\A a \in known : a.kind # "round" /\ SameReview(a.of, of) =>
           \/ a.of.evidence \in covered
           \/ a.kind = "delta" /\ a.from \notin covered)
       => of.evidence \in covered

(* What the answer and the draft of a command claim, of the artifacts      *)
(* known.                                                                  *)
AnswerEarned(j, known) ==
    j.answer \in {"UNCHANGED", "COMPOSABLE_OPERATIONAL_DELTA"} =>
       ReviewedBy([j.id EXCEPT !.evidence = j.prior.of.evidence], known)
DraftEarned(j, known) ==
    j.draft.foundation # None => ReviewedBy(
       IF j.draft.disposition # None THEN j.id
       ELSE [j.id EXCEPT !.evidence = j.prior.of.evidence], known)

LEMMA EarnedByAll ==
    /\ ReuseIsEarned <=> \A t \in Terminal : AnswerEarned(job[t], artifacts)
                                             /\ DraftEarned(job[t], artifacts)
    /\ ReuseIsEarned' <=> \A t \in Terminal : AnswerEarned(job'[t], artifacts')
                                              /\ DraftEarned(job'[t], artifacts')
  BY Zenon DEF ReuseIsEarned, AnswerEarned, DraftEarned, WasReviewed, ReviewedBy

LEMMA MoreArtifacts ==
    ASSUME NEW known, NEW more, known \subseteq more, NEW of, ReviewedBy(of, known)
    PROVE  ReviewedBy(of, more)
  BY DEF ReviewedBy

(* A command that has read a previous receipt.                             *)
LEMMA ReadingEarns ==
    ASSUME TypeOK, CitationsHeld, NEW t \in Terminal, Reads(t)
    PROVE  AnswerEarned(job'[t], artifacts) /\ DraftEarned(job'[t], artifacts)
<1> DEFINE id == job[t].id
<1>1. PICK p \in Prior :
         /\ IsReceipt(p) => \E n \in Name : p = receipts[n]
         /\ job'[t].id = id /\ job'[t].prior = p
         /\ job'[t].answer = Classify(p, id) /\ job'[t].draft = Carry(p, id)
  BY Zenon DEF Reads
<1>2. id \in Identity
  BY DEF TypeOK, Job
<1> HIDE DEF id
<1>3. ASSUME IsReceipt(p), CoverageComplete(p), SameReview(p.of, id),
             NEW of, SameReview(of, id), of.evidence = p.of.evidence
      PROVE  ReviewedBy(of, artifacts)
  <2>1. p \in Receipt /\ Cited(p.coverage) \subseteq artifacts
    BY <1>1, <1>3, Carrying DEF CitationsHeld
  <2>2. WasReviewed(p.of)
    BY <1>3, <2>1, CompleteIsReviewed
  <2>3. SameReview(p.of, of)
    BY <1>3 DEF SameReview
  <2>4. WasReviewed(of)
    BY <1>3, <2>2, <2>3, ReviewedAlike
  <2> QED
    BY <2>4 DEF WasReviewed, ReviewedBy
<1> DEFINE of == [id EXCEPT !.evidence = p.of.evidence]
<1>4. SameReview(of, id) /\ of.evidence = p.of.evidence
  BY <1>2 DEF Identity, SameReview
<1> HIDE DEF of
<1>5. ASSUME IsReceipt(p), CoverageComplete(p), SameReview(p.of, id)
      PROVE  /\ ReviewedBy(of, artifacts)
             /\ p.of.evidence = id.evidence => ReviewedBy(id, artifacts)
  <2>1. SameReview(id, id)
    BY DEF SameReview
  <2> QED
    BY <1>3, <1>4, <1>5, <2>1
<1>6. Classify(p, id) \in {"UNCHANGED", "COMPOSABLE_OPERATIONAL_DELTA"} =>
         IsReceipt(p) /\ CoverageComplete(p) /\ SameReview(p.of, id)
  BY DEF Classify, SameReview
<1>7. Carry(p, id).foundation # None =>
         /\ IsReceipt(p) /\ CoverageComplete(p) /\ SameReview(p.of, id)
         /\ Carry(p, id).disposition # None => p.of.evidence = id.evidence
  BY Carrying
<1>8. AnswerEarned(job'[t], artifacts)
  BY <1>1, <1>5, <1>6 DEF AnswerEarned, of
<1>9. DraftEarned(job'[t], artifacts)
  BY <1>1, <1>5, <1>7 DEF DraftEarned, of
<1> QED
  BY <1>8, <1>9

LEMMA BlankEarnsNothing ==
    ASSUME NEW j, Blank(j), NEW known
    PROVE  AnswerEarned(j, known) /\ DraftEarned(j, known)
  BY Empty DEF Blank, AnswerEarned, DraftEarned

LEMMA ReuseAtFirst == Init => ReuseIsEarned
  BY NoJobIsBlank, BlankEarnsNothing, EarnedByAll DEF Init

LEMMA ReuseStep == TypeOK /\ CitationsHeld /\ ReuseIsEarned /\ [Next]_vars => ReuseIsEarned'
<1> SUFFICES ASSUME TypeOK, CitationsHeld, ReuseIsEarned, [Next]_vars, NEW t \in Terminal
             PROVE  AnswerEarned(job'[t], artifacts') /\ DraftEarned(job'[t], artifacts')
  BY EarnedByAll
<1>1. artifacts \subseteq artifacts'
  BY JobsStep
<1>2. CASE Blank(job'[t])
  BY <1>2, BlankEarnsNothing
<1>3. CASE AnswerEarned(job'[t], artifacts) /\ DraftEarned(job'[t], artifacts)
  BY <1>1, <1>3, MoreArtifacts DEF AnswerEarned, DraftEarned
<1>4. CASE job'[t] = job[t]
  BY <1>3, <1>4, EarnedByAll
<1>5. CASE Reads(t)
  BY <1>3, <1>5, ReadingEarns
<1> QED
  BY <1>2, <1>4, <1>5, JobsStep

(* The rounds of the increment.                                            *)
LEMMA LedgerAtFirst == Init => LedgerSurvives
  BY DEF Init, LedgerSurvives, NoJob, IsReceipt

LEMMA LedgerStep == TypeOK /\ LedgerSurvives /\ [Next]_vars => LedgerSurvives'
<1> SUFFICES ASSUME TypeOK, LedgerSurvives, [Next]_vars, NEW t \in Terminal,
                    IsReceipt(job'[t].prior), job'[t].prior.of.increment = job'[t].id.increment
             PROVE  job'[t].prior.coverage.rounds \subseteq job'[t].draft.rounds
  BY DEF LedgerSurvives
<1>1. CASE job'[t] = job[t]
  BY <1>1 DEF LedgerSurvives
<1>2. CASE Blank(job'[t])
  BY <1>2 DEF Blank, IsReceipt
<1>3. CASE Reads(t)
  BY <1>3, Carrying DEF Reads
<1> QED
  BY <1>1, <1>2, <1>3, JobsStep

-----------------------------------------------------------------------------
(* Whatever the number of commands, names, contents and failures: the      *)
(* variables keep their types, a command leaves neither its receipt nor    *)
(* its temporary file, unless it has reported the receipt, is killed, or   *)
(* fails to remove the file or to close the directory in the end, and no   *)
(* receipt refers to an artifact that is not there (persistReceipt).       *)
THEOREM Invariance == Spec => []CoverageInvariant
<1>1. Init => TypeOK /\ Durable /\ CitationsHeld
  BY TypesAtFirst, DurableAtFirst, CitationsAtFirst
<1>2. TypeOK /\ Durable /\ CitationsHeld /\ [Next]_vars => (TypeOK /\ Durable /\ CitationsHeld)'
  BY TypesStep, DurableStep, CitationsStep
<1>3. TypeOK /\ Durable /\ CitationsHeld => CoverageInvariant
  BY DEF Durable, CoverageInvariant
<1> QED
  BY <1>1, <1>2, <1>3, PTL DEF Spec

(* A receipt that was reported stays under its name for good, whatever     *)
(* other commands do under that name and whenever the power fails          *)
(* (persistReceipt).                                                       *)
THEOREM Retention == Spec => []ReportedReceiptsStay
<1>1. Init => TypeOK /\ Durable
  BY TypesAtFirst, DurableAtFirst
<1>2. TypeOK /\ Durable /\ [Next]_vars => (TypeOK /\ Durable)'
  BY TypesStep, DurableStep
<1>3. Durable => ReportedReceiptsStay
  BY DEF Durable
<1> QED
  BY <1>1, <1>2, <1>3, PTL DEF Spec

(* A command says of an earlier review that it still counts, or carries it *)
(* over, only if somebody has reviewed that content: the foundation and a  *)
(* chain of checks that leads to its evidence (comparisonFor, main).       *)
THEOREM Reuse == Spec => []ReuseIsEarned
<1>1. CoverageInvariant => TypeOK /\ CitationsHeld
  BY DEF CoverageInvariant
<1>2. Init => ReuseIsEarned
  BY ReuseAtFirst
<1>3. TypeOK /\ CitationsHeld /\ ReuseIsEarned /\ [Next]_vars => ReuseIsEarned'
  BY ReuseStep
<1> QED
  BY <1>1, <1>2, <1>3, Invariance, PTL DEF Spec

(* The new receipt has every round of the previous one of the same         *)
(* increment, whatever else has changed (main).                            *)
THEOREM Ledger == Spec => []LedgerSurvives
<1>1. CoverageInvariant => TypeOK
  BY DEF CoverageInvariant
<1>2. Init => LedgerSurvives
  BY LedgerAtFirst
<1>3. TypeOK /\ LedgerSurvives /\ [Next]_vars => LedgerSurvives'
  BY LedgerStep
<1> QED
  BY <1>1, <1>2, <1>3, Invariance, PTL DEF Spec
=============================================================================
