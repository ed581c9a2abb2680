----------------------- MODULE ViabilityWorkflow_proofs -----------------------
(***************************************************************************)
(* Proofs about the review of a canary, for any clerks, criteria, versions   *)
(* of the skill, judgments and numbers of commands and changes.             *)
(*                                                                          *)
(* ReviewInvariant is inductive.  A file is opened by one command only and   *)
(* only while it is absent (OpenFilesHeld), so that no step changes a whole  *)
(* file; hence what was true of a value when a command read its inputs, and  *)
(* depends on other files only through whole ones, is true when the value    *)
(* is written and ever after (ValuesAreSound).                               *)
(***************************************************************************)
EXTENDS ViabilityWorkflow, TLAPS

\* A record of run, changed in one or two fields.
LEMMA Fields ==
  ASSUME NEW r, DOMAIN r = DOMAIN Idle, NEW s, NEW t, NEW l, NEW o
  PROVE  /\ LET q == [r EXCEPT !.pc = s, !.todo = t]
            IN /\ DOMAIN q = DOMAIN Idle /\ q.command = r.command /\ q.pc = s
               /\ q.left = r.left /\ q.todo = t /\ q.opened = r.opened
         /\ LET q == [r EXCEPT !.pc = s, !.left = l]
            IN /\ DOMAIN q = DOMAIN Idle /\ q.command = r.command /\ q.pc = s
               /\ q.left = l /\ q.todo = r.todo /\ q.opened = r.opened
         /\ LET q == [r EXCEPT !.todo = t, !.opened = o]
            IN /\ DOMAIN q = DOMAIN Idle /\ q.command = r.command /\ q.pc = r.pc
               /\ q.left = r.left /\ q.todo = t /\ q.opened = o
         /\ LET q == [r EXCEPT !.opened = o]
            IN /\ DOMAIN q = DOMAIN Idle /\ q.command = r.command /\ q.pc = r.pc
               /\ q.left = r.left /\ q.todo = r.todo /\ q.opened = o
  BY DEF Idle, Command

LEMMA IdleFields ==
  ASSUME NEW name, NEW step
  PROVE  LET q == Command(name, step)
         IN /\ DOMAIN q = DOMAIN Idle /\ q.command = name /\ q.pc = step /\ q.left = {}
            /\ q.todo = <<>> /\ q.opened = {} /\ DOMAIN q.todo = {}
  BY DEF Idle, Command

-----------------------------------------------------------------------------
(* What a step does to the record of its clerk. *)

\* Another record at c, of the right shape, and no other changed.
Moves(c) ==
  /\ DOMAIN run' = Clerk /\ \A d \in Clerk \ {c} : run'[d] = run[d]
  /\ DOMAIN run'[c] = DOMAIN Idle /\ run'[c].command \in Commands \cup {"none"}
  /\ run'[c].left \subseteq Reviews

Fixed == UNCHANGED <<policy, collection>>

\* A command starts, stops or goes on reading: it has nothing to write.
Reads(c) ==
  /\ Moves(c) /\ Fixed /\ UNCHANGED <<skill, file, input, edits>>
  /\ run'[c].pc \in {"IDLE", "READ", "READ_RIGHT"}
  /\ DOMAIN run'[c].todo = {} /\ run'[c].opened = {}
  /\ run'[c].pc = "READ_RIGHT" => PacketsAgree
  /\ started' \in 0 .. MaxCommands

\* It knows what to write, and all of it is sound.
Plans(c) ==
  /\ Moves(c) /\ Fixed /\ UNCHANGED <<skill, file, input, started, edits>>
  /\ run'[c].pc = "WRITE" /\ run'[c].opened = {}
  /\ \E todo :
       /\ run'[c].todo = todo /\ DOMAIN todo \subseteq Files /\ DOMAIN todo # {}
       /\ \A f \in DOMAIN todo : IsSound(f, todo[f])

Opens(c, f) ==
  /\ Moves(c) /\ Fixed /\ UNCHANGED <<skill, input, started, edits>>
  /\ f \in Pending(c) \ run[c].opened /\ file[f] = Absent
  /\ file' = [file EXCEPT ![f] = Torn]
  /\ run'[c].pc = run[c].pc /\ run'[c].todo = run[c].todo
  /\ run'[c].opened = run[c].opened \cup {f}

\* The write of f is over, for good or not.
Closes(c, f) ==
  /\ Moves(c) /\ Fixed /\ UNCHANGED <<skill, input, started, edits>>
  /\ f \in Pending(c)
  /\ \/ UNCHANGED file
     \/ f \in run[c].opened /\ file' = [file EXCEPT ![f] = Whole(run[c].todo[f])]
  /\ run'[c].pc = IF Pending(c) = {f} THEN "IDLE" ELSE "WRITE"
  /\ DOMAIN run'[c].todo = Pending(c) \ {f}
  /\ \A g \in Pending(c) \ {f} : run'[c].todo[g] = run[c].todo[g]
  /\ run'[c].opened = run[c].opened \ {f}

LEMMA MovesTo ==
  ASSUME TypeOK, NEW c \in Clerk, NEW r, Becomes(c, r), DOMAIN r = DOMAIN Idle,
         r.command \in Commands \cup {"none"}, r.left \subseteq Reviews
  PROVE  Moves(c) /\ run'[c] = r
  BY DEF Moves, Becomes, TypeOK

\* Reading and stopping.
LEMMA Reading ==
  ASSUME ReviewInvariant, NEW c \in Clerk, Start(c) \/ Refuse(c) \/ ReadLeft(c) \/ Kill(c)
  PROVE  Reads(c)
<1> USE BoundAssumption DEF ReviewInvariant
<1>1. CASE Start(c)
  <2>1. PICK name \in Commands : Becomes(c, Command(name, "READ"))
    BY <1>1 DEF Start
  <2>2. Moves(c) /\ run'[c] = Command(name, "READ")
    BY <2>1, MovesTo, IdleFields
  <2>3. /\ run'[c].pc = "READ" /\ DOMAIN run'[c].todo = {} /\ run'[c].opened = {}
    BY <2>2, IdleFields
  <2>4. started' \in 0 .. MaxCommands
    BY <1>1 DEF Start, TypeOK
  <2> QED
    BY <1>1, <2>2, <2>3, <2>4 DEF Start, Reads, Fixed
<1>2. CASE Refuse(c) \/ Kill(c)
  <2>1. Becomes(c, Idle) /\ Fixed /\ UNCHANGED <<skill, file, input, started, edits>>
    BY <1>2 DEF Refuse, Kill, Fixed
  <2>2. DOMAIN Idle = DOMAIN Idle /\ Idle.command = "none" /\ Idle.pc = "IDLE" /\ Idle.left = {}
        /\ DOMAIN Idle.todo = {} /\ Idle.opened = {}
    BY DEF Idle, Command
  <2>3. Moves(c) /\ run'[c] = Idle
    BY <2>1, <2>2, MovesTo
  <2> QED
    BY <2>1, <2>2, <2>3 DEF Reads, TypeOK
<1>3. CASE ReadLeft(c)
  <2> DEFINE r == [run[c] EXCEPT !.pc = "READ_RIGHT", !.left = input["A"]]
  <2>1. Becomes(c, r) /\ PacketsAgree /\ run[c].pc = "READ"
        /\ Fixed /\ UNCHANGED <<skill, file, input, started, edits>>
    BY <1>3 DEF ReadLeft, At, Fixed
  <2>2. /\ DOMAIN run[c] = DOMAIN Idle /\ run[c].command \in Commands \cup {"none"}
        /\ input["A"] \subseteq Reviews /\ started \in 0 .. MaxCommands
        /\ DOMAIN run[c].todo = {} /\ run[c].opened = {}
    BY <2>1 DEF TypeOK, Pending
  <2>3. /\ DOMAIN r = DOMAIN Idle /\ r.command = run[c].command /\ r.pc = "READ_RIGHT"
        /\ r.left = input["A"] /\ r.todo = run[c].todo /\ r.opened = run[c].opened
    BY <2>2, Fields
  <2> HIDE DEF r
  <2>4. Moves(c) /\ run'[c] = r
    BY <2>1, <2>2, <2>3, MovesTo
  <2> QED
    BY <2>1, <2>2, <2>3, <2>4 DEF Reads
<1> QED
  BY <1>1, <1>2, <1>3

\* What a command decides to write, once it has something sound to write.
LEMMA Planning ==
  ASSUME ReviewInvariant, NEW c \in Clerk, run[c].pc # "WRITE", NEW todo,
         Writes(c, todo), DOMAIN todo \subseteq Files, DOMAIN todo # {},
         \A f \in DOMAIN todo : IsSound(f, todo[f]),
         Fixed, UNCHANGED <<skill, file, input, started, edits>>
  PROVE  Plans(c)
<1> USE DEF ReviewInvariant
<1> DEFINE r == [run[c] EXCEPT !.pc = "WRITE", !.todo = todo]
<1>1. /\ DOMAIN run[c] = DOMAIN Idle /\ run[c].command \in Commands \cup {"none"}
      /\ run[c].left \subseteq Reviews /\ run[c].opened = {}
  BY DEF TypeOK, Pending
<1>2. /\ DOMAIN r = DOMAIN Idle /\ r.command = run[c].command /\ r.pc = "WRITE"
      /\ r.left = run[c].left /\ r.todo = todo /\ r.opened = run[c].opened
  BY <1>1, Fields
<1>3. Becomes(c, r)
  BY DEF Writes
<1> HIDE DEF r
<1>4. Moves(c) /\ run'[c] = r
  BY <1>1, <1>2, <1>3, MovesTo
<1> QED
  BY <1>1, <1>2, <1>4 DEF Plans

\* The packet is made for a pending decision.
LEMMA Preparing ==
  ASSUME ReviewInvariant, NEW c \in Clerk, Prepare(c)
  PROVE  Plans(c)
<1> DEFINE todo == [f \in Packets |-> skill]
<1>1. /\ run[c].pc # "WRITE" /\ Writes(c, todo)
      /\ Fixed /\ UNCHANGED <<skill, file, input, started, edits>>
  BY DEF Prepare, At, Fixed
<1>2. DOMAIN todo \subseteq Files /\ DOMAIN todo # {}
  BY DEF Packets, Files
<1>3. \A f \in DOMAIN todo : IsSound(f, todo[f])
  BY DEF Prepare, ReviewRequired, ReviewInvariant, TypeOK, IsSound, Packets, Submissions
<1> QED
  BY <1>1, <1>2, <1>3, Planning

\* A whole file holds one value, and that is sound.
LEMMA Content ==
  ASSUME ReviewInvariant, NEW f \in Files, NEW v \in file[f].content
  PROVE  file[f] = Whole(v) /\ IsSound(f, v)
<1>1. v \in Values(f)
  BY DEF Values
<1>2. IsSound(f, v)
  BY <1>1 DEF ReviewInvariant, ValuesAreSound
<1>3. file[f] = Whole(v)
  BY DEF ReviewInvariant, TypeOK, Whole, Absent, Torn
<1> QED
  BY <1>2, <1>3

\* The submissions and what is asked are about the packet both had.
LEMMA Resolving ==
  ASSUME ReviewInvariant, NEW c \in Clerk, ReadRight(c)
  PROVE  Plans(c)
<1>1. /\ run[c].pc = "READ_RIGHT" /\ Fixed /\ UNCHANGED <<skill, file, input, started, edits>>
  BY DEF ReadRight, At, Fixed
<1>2. PICK v \in file["packetA"].content, l \in run[c].left, r \in input["B"] :
        Writes(c, [f \in Submissions |->
          CASE f = "submissionA" -> Submission(v, l)
            [] f = "submissionB" -> Submission(v, r)
            [] f = "resolution" -> ResolutionPacket(v, l, r)])
  BY Zenon DEF ReadRight
<1> DEFINE todo == [f \in Submissions |->
          CASE f = "submissionA" -> Submission(v, l)
            [] f = "submissionB" -> Submission(v, r)
            [] f = "resolution" -> ResolutionPacket(v, l, r)]
<1>3. file["packetA"] = Whole(v) /\ IsSound("packetA", v)
  BY Content DEF Files, Packets
<1>4. PacketsAgree /\ l \in Reviews /\ r \in Reviews
  BY <1>1 DEF ReviewInvariant, OpenFilesHeld, TypeOK
<1>5. file["packetB"] = Whole(v) /\ v \in Version /\ collection.decision = "PENDING"
  BY <1>3, <1>4 DEF PacketsAgree, IsSound, Packets
<1>6. DOMAIN todo \subseteq Files /\ DOMAIN todo # {}
  BY DEF Submissions, Files
<1>7. \A f \in DOMAIN todo :
        /\ f \in Submissions /\ todo[f].packet = v
        /\ f \in {"submissionA", "submissionB"} => todo[f].judgments \in Reviews
  BY <1>4 DEF Submissions, Submission, ResolutionPacket
<1> HIDE DEF todo
<1>8. \A f \in DOMAIN todo : IsSound(f, todo[f])
  BY <1>3, <1>5, <1>7 DEF IsSound, IsOfThePacket, Packets, Submissions
<1>9. Writes(c, todo)
  BY <1>2 DEF todo
<1> QED
  BY <1>1, <1>6, <1>8, <1>9, Planning

\* A mechanical decision is repeated.
LEMMA Repeating ==
  ASSUME ReviewInvariant, NEW c \in Clerk, ScoreMechanically(c)
  PROVE  Plans(c)
<1> DEFINE s == Report(collection.decision, <<>>, {})
           todo == [f \in {"report"} |-> s]
<1>1. /\ run[c].pc # "WRITE" /\ Writes(c, todo)
      /\ Fixed /\ UNCHANGED <<skill, file, input, started, edits>>
  BY DEF ScoreMechanically, At, Fixed
<1>2. /\ IsReviewCampaign /\ collection.state = "WRITTEN" /\ collection.invocations = 1
      /\ collection.decision # "PENDING"
  BY DEF ScoreMechanically
<1>3. s.result = collection.decision
  BY DEF Report
<1>4. collection.decision \in Decisions \ {"NONE", "PENDING"}
  BY <1>2 DEF ReviewInvariant, TypeOK, Collections, IsReviewCampaign, Result, Blank, Decisions,
             Policies
<1>5. RepeatsDecision(s)
  BY <1>2 DEF RepeatsDecision
<1> HIDE DEF s
<1>6. IsSound("report", s)
  BY <1>2, <1>3, <1>4, <1>5 DEF IsSound, Packets, Submissions
<1>7. /\ DOMAIN todo \subseteq Files /\ DOMAIN todo # {}
      /\ \A f \in DOMAIN todo : IsSound(f, todo[f])
  BY <1>6 DEF Files
<1> QED
  BY <1>1, <1>7, Planning

\* The resolver decides what is disputed; nothing else is left to decide.
LEMMA Resolution ==
  ASSUME NEW l \in Reviews, NEW r \in Reviews, NEW resolution,
         Covers(resolution, Disputed(l, r)),
         \A k \in DOMAIN resolution : resolution[k] \in Verdicts
  PROVE  LET j == Judgments(l, resolution)
         IN FollowsFrom(Report(IF Passes(j) THEN "PASSED" ELSE "NOT_PASSED", j,
                               DOMAIN resolution), l, r)
<1> DEFINE j == Judgments(l, resolution)
           s == Report(IF Passes(j) THEN "PASSED" ELSE "NOT_PASSED", j, DOMAIN resolution)
<1>1. /\ s.judgments = j /\ s.resolved = DOMAIN resolution
      /\ s.result = IF Passes(j) THEN "PASSED" ELSE "NOT_PASSED"
  BY DEF Report
<1>2. \A k \in Criterion :
        /\ l[k] \in Verdicts
        /\ j[k] = IF k \in DOMAIN resolution THEN resolution[k] ELSE l[k]
        /\ k \in DOMAIN resolution <=> (l[k] # r[k] \/ l[k] = "NEEDS_ADJUDICATION")
  BY ReviewAssumption DEF Judgments, Covers, Disputed
<1>3. \A k \in Criterion : j[k] \in Verdicts \ {"NEEDS_ADJUDICATION"}
  BY <1>2 DEF Covers
<1>4. Passes(j) <=> ~ \E k \in Critical : j[k] = "REJECT"
  BY <1>3, CriterionAssumption DEF Passes, Verdicts
<1> HIDE DEF j, s
<1> SUFFICES FollowsFrom(s, l, r)
  BY DEF s, j
<1> QED
  BY <1>1, <1>2, <1>3, <1>4 DEF FollowsFrom

\* The report follows from the submissions that are on disk.
LEMMA Scoring ==
  ASSUME ReviewInvariant, NEW c \in Clerk, ScoreReview(c)
  PROVE  Plans(c)
<1>1. /\ run[c].pc # "WRITE" /\ collection.decision = "PENDING"
      /\ Fixed /\ UNCHANGED <<skill, file, input, started, edits>>
  BY DEF ScoreReview, ReviewRequired, At, Fixed
<1>2. PICK v \in file["packetA"].content, a \in file["submissionA"].content,
           b \in file["submissionB"].content, p \in file["resolution"].content :
        /\ IsResolutionOf(p, v, a.judgments, b.judgments)
        /\ \E resolution \in IF DOMAIN p.disputed = {} THEN {<<>>} ELSE input["R"] :
            /\ Covers(resolution, DOMAIN p.disputed)
            /\ LET j == Judgments(a.judgments, resolution)
               IN Writes(c, [f \in {"report"} |->
                    Report(IF Passes(j) THEN "PASSED" ELSE "NOT_PASSED", j, DOMAIN resolution)])
  BY Zenon DEF ScoreReview
<1> DEFINE l == a.judgments
           r == b.judgments
<1>3. l \in Reviews /\ r \in Reviews
  BY Content DEF Files, Submissions, IsSound
<1>4. DOMAIN p.disputed = Disputed(l, r)
  BY <1>2 DEF IsResolutionOf, ResolutionPacket
<1>5. PICK resolution \in IF DOMAIN p.disputed = {} THEN {<<>>} ELSE input["R"] :
            /\ Covers(resolution, DOMAIN p.disputed)
            /\ LET j == Judgments(a.judgments, resolution)
               IN Writes(c, [f \in {"report"} |->
                    Report(IF Passes(j) THEN "PASSED" ELSE "NOT_PASSED", j, DOMAIN resolution)])
  BY <1>2, Zenon
<1> DEFINE j == Judgments(l, resolution)
           s == Report(IF Passes(j) THEN "PASSED" ELSE "NOT_PASSED", j, DOMAIN resolution)
           todo == [f \in {"report"} |-> s]
<1>6. \A k \in DOMAIN resolution : resolution[k] \in Verdicts
  <2>1. CASE DOMAIN p.disputed = {}
    BY <1>5, <2>1 DEF Covers
  <2>2. CASE DOMAIN p.disputed # {}
    <3>1. resolution \in Partial(Criterion)
      BY <1>5, <2>2, ResolutionAssumption DEF ReviewInvariant, TypeOK
    <3> QED
      BY <3>1 DEF Partial
  <2> QED
    BY <2>1, <2>2
<1>7. FollowsFrom(s, l, r)
  BY <1>3, <1>4, <1>5, <1>6, Resolution, Zenon
<1>8. s.result \in Decisions \ {"NONE", "PENDING"}
  BY DEF Report, Decisions
<1>9. Writes(c, todo)
  BY <1>5
<1> HIDE DEF s
<1>10. IsSound("report", s)
  BY <1>1, <1>7, <1>8 DEF IsSound, FollowsReviews, Packets, Submissions
<1>11. /\ DOMAIN todo \subseteq Files /\ DOMAIN todo # {}
       /\ \A f \in DOMAIN todo : IsSound(f, todo[f])
  BY <1>10 DEF Files
<1> QED
  BY <1>1, <1>9, <1>11, Planning

\* Opening and closing one of the files.
LEMMA Opening ==
  ASSUME ReviewInvariant, NEW c \in Clerk, NEW f \in Files, OpenFile(c, f)
  PROVE  Opens(c, f)
<1> DEFINE r == [run[c] EXCEPT !.opened = run[c].opened \cup {f}]
<1>1. /\ Becomes(c, r) /\ Fixed /\ UNCHANGED <<skill, input, started, edits>>
      /\ f \in Pending(c) \ run[c].opened /\ file' = [file EXCEPT ![f] = Torn]
      /\ file[f].state = "ABSENT"
  BY DEF OpenFile, Fixed, ExclusiveCreates
<1>2. /\ DOMAIN run[c] = DOMAIN Idle /\ run[c].command \in Commands \cup {"none"}
      /\ run[c].left \subseteq Reviews
  BY DEF ReviewInvariant, TypeOK
<1>3. /\ DOMAIN r = DOMAIN Idle /\ r.command = run[c].command /\ r.pc = run[c].pc
      /\ r.left = run[c].left /\ r.todo = run[c].todo /\ r.opened = run[c].opened \cup {f}
  BY <1>2, Fields
<1>4. file[f] = Absent
  BY <1>1 DEF ReviewInvariant, TypeOK, Whole, Absent, Torn
<1> HIDE DEF r
<1>5. Moves(c) /\ run'[c] = r
  BY <1>1, <1>2, <1>3, MovesTo DEF ReviewInvariant
<1> QED
  BY <1>1, <1>3, <1>4, <1>5 DEF Opens

LEMMA Closing ==
  ASSUME ReviewInvariant, NEW c \in Clerk, NEW f \in Files, WriteFile(c, f) \/ FailFile(c, f)
  PROVE  Closes(c, f)
<1> DEFINE t == [g \in Pending(c) \ {f} |-> run[c].todo[g]]
           r == [run[c] EXCEPT !.todo = t, !.opened = run[c].opened \ {f}]
<1>1. /\ Settles(c, f) /\ Fixed /\ UNCHANGED <<skill, input, started, edits>>
      /\ f \in Pending(c)
      /\ \/ UNCHANGED file
         \/ f \in run[c].opened /\ file' = [file EXCEPT ![f] = Whole(run[c].todo[f])]
  BY DEF WriteFile, FailFile, Fixed
<1>2. Becomes(c, IF Pending(c) = {f} THEN Idle ELSE r)
  BY <1>1 DEF Settles
<1>3. /\ DOMAIN run[c] = DOMAIN Idle /\ run[c].command \in Commands \cup {"none"}
      /\ run[c].left \subseteq Reviews /\ run[c].opened \subseteq Pending(c)
      /\ run[c].pc = "WRITE"
  BY <1>1 DEF ReviewInvariant, TypeOK
<1>4. DOMAIN t = Pending(c) \ {f} /\ \A g \in Pending(c) \ {f} : t[g] = run[c].todo[g]
  OBVIOUS
<1> HIDE DEF t
<1>5. /\ DOMAIN r = DOMAIN Idle /\ r.command = run[c].command /\ r.pc = run[c].pc
      /\ r.left = run[c].left /\ r.todo = t /\ r.opened = run[c].opened \ {f}
  BY <1>3, Fields
<1> HIDE DEF r
<1>6. CASE Pending(c) = {f}
  <2>1. Idle.command = "none" /\ Idle.pc = "IDLE" /\ Idle.left = {}
        /\ DOMAIN Idle.todo = {} /\ Idle.opened = {}
    BY DEF Idle, Command
  <2>2. Becomes(c, Idle)
    BY <1>2, <1>6
  <2>3. Moves(c) /\ run'[c] = Idle
    BY <2>1, <2>2, MovesTo DEF ReviewInvariant
  <2> QED
    BY <1>1, <1>3, <1>6, <2>1, <2>3 DEF Closes
<1>7. CASE Pending(c) # {f}
  <2>1. Becomes(c, r)
    BY <1>2, <1>7
  <2>2. Moves(c) /\ run'[c] = r
    BY <1>3, <1>5, <2>1, MovesTo DEF ReviewInvariant
  <2> QED
    BY <1>1, <1>3, <1>4, <1>5, <1>7, <2>2 DEF Closes
<1> QED
  BY <1>6, <1>7

\* The rest: people answer, and change the skill.
Happens ==
  /\ Fixed /\ UNCHANGED <<file, run>>
  /\ DOMAIN input' = Writers /\ input'["A"] \subseteq Reviews /\ input'["B"] \subseteq Reviews
  /\ input'["R"] \subseteq Resolutions
  /\ skill' \in Version /\ started' \in 0 .. MaxCommands /\ edits' \in 0 .. MaxEdits

LEMMA Answering ==
  ASSUME TypeOK, Judge \/ Arbitrate \/ Edit \/ UNCHANGED vars
  PROVE  Happens
<1> USE BoundAssumption DEF TypeOK, Happens, Fixed
<1>1. CASE Answer("A", "packetA", Reviews)
  BY <1>1 DEF Answer, Writers
<1>2. CASE Answer("B", "packetB", Reviews)
  BY <1>2 DEF Answer, Writers
<1>3. CASE Answer("R", "resolution", Resolutions)
  BY <1>3 DEF Answer, Writers
<1>4. CASE Edit
  BY <1>4 DEF Edit
<1>5. CASE UNCHANGED vars
  BY <1>5 DEF vars
<1> QED
  BY <1>1, <1>2, <1>3, <1>4, <1>5 DEF Judge, Arbitrate

\* Every step is one of these.
Effects ==
  \/ Happens
  \/ \E c \in Clerk : Reads(c) \/ Plans(c) \/ \E f \in Files : Opens(c, f) \/ Closes(c, f)

LEMMA StepEffects == ReviewInvariant /\ [Next]_vars => Effects
<1> SUFFICES ASSUME ReviewInvariant, [Next]_vars PROVE Effects
  OBVIOUS
<1>1. CASE Judge \/ Arbitrate \/ Edit \/ UNCHANGED vars
  BY <1>1, Answering DEF Effects, ReviewInvariant
<1>2. ASSUME NEW c \in Clerk, Start(c) \/ Step(c) \/ Kill(c) PROVE Effects
  <2>1. CASE Start(c) \/ Refuse(c) \/ ReadLeft(c) \/ Kill(c)
    BY <2>1, Reading DEF Effects
  <2>2. CASE Prepare(c) \/ ReadRight(c) \/ ScoreMechanically(c) \/ ScoreReview(c)
    BY <2>2, Preparing, Resolving, Repeating, Scoring DEF Effects
  <2>3. CASE \E f \in Files : Write(c, f)
    BY <2>3, Opening, Closing DEF Effects, Write
  <2> QED
    BY <1>2, <2>1, <2>2, <2>3 DEF Step, Read
<1> QED
  BY <1>1, <1>2 DEF Next

-----------------------------------------------------------------------------
(* The parts of the invariant. *)

LEMMA TypeStep ==
  ASSUME ReviewInvariant, Effects
  PROVE  TypeOK'
<1> USE DEF ReviewInvariant, TypeOK, Pending
<1>1. CASE Happens
  BY <1>1 DEF Happens, Fixed
<1>2. ASSUME NEW c \in Clerk, Reads(c) PROVE TypeOK'
  BY <1>2 DEF Reads, Moves, Fixed
<1>3. ASSUME NEW c \in Clerk, Plans(c) PROVE TypeOK'
  BY <1>3 DEF Plans, Moves, Fixed
<1>4. ASSUME NEW c \in Clerk, NEW f \in Files, Opens(c, f) PROVE TypeOK'
  BY <1>4 DEF Opens, Moves, Fixed
<1>5. ASSUME NEW c \in Clerk, NEW f \in Files, Closes(c, f) PROVE TypeOK'
  <2>1. /\ DOMAIN file' = Files
        /\ \A g \in Files :
             \/ file'[g] \in {Absent, Torn}
             \/ \E v \in file'[g].content : file'[g] = Whole(v)
    <3>1. CASE UNCHANGED file
      BY <3>1
    <3>2. CASE file' = [file EXCEPT ![f] = Whole(run[c].todo[f])]
      <4>1. DOMAIN file' = Files /\ \A g \in Files \ {f} : file'[g] = file[g]
        BY <3>2
      <4>2. file'[f] = Whole(run[c].todo[f]) /\ run[c].todo[f] \in file'[f].content
        BY <3>2 DEF Whole
      <4> QED
        BY <4>1, <4>2
    <3> QED
      BY <1>5, <3>1, <3>2 DEF Closes
  <2>2. \A d \in Clerk :
          /\ DOMAIN run'[d] = DOMAIN Idle
          /\ run'[d].command \in Commands \cup {"none"}
          /\ run'[d].pc \in {"IDLE", "READ", "READ_RIGHT", "WRITE"}
          /\ run'[d].left \subseteq Reviews
    BY <1>5 DEF Closes, Moves
  <2>3. \A d \in Clerk :
          /\ run'[d].opened \subseteq DOMAIN run'[d].todo /\ DOMAIN run'[d].todo \subseteq Files
          /\ (DOMAIN run'[d].todo # {}) <=> (run'[d].pc = "WRITE")
    BY <1>5 DEF Closes, Moves
  <2> QED
    BY <1>5, <2>1, <2>2, <2>3 DEF Closes, Moves, Fixed
<1> QED
  BY <1>1, <1>2, <1>3, <1>4, <1>5 DEF Effects

\* No step changes a whole file.
LEMMA WholeFilesStay ==
  ASSUME ReviewInvariant, Effects
  PROVE  \A f \in Files : Readable(f) => file'[f] = file[f]
<1> USE DEF ReviewInvariant, TypeOK, Readable
<1>1. CASE Happens
  BY <1>1 DEF Happens
<1>2. ASSUME NEW c \in Clerk, Reads(c) \/ Plans(c) PROVE UNCHANGED file
  BY <1>2 DEF Reads, Plans
<1>3. ASSUME NEW c \in Clerk, NEW f \in Files, Opens(c, f)
      PROVE  \A g \in Files : Readable(g) => file'[g] = file[g]
  BY <1>3 DEF Opens, Absent
<1>4. ASSUME NEW c \in Clerk, NEW f \in Files, Closes(c, f)
      PROVE  \A g \in Files : Readable(g) => file'[g] = file[g]
  BY <1>4 DEF Closes, OpenFilesHeld, Torn
<1> QED
  BY <1>1, <1>2, <1>3, <1>4 DEF Effects

LEMMA OpenFilesStep ==
  ASSUME ReviewInvariant, Effects
  PROVE  OpenFilesHeld'
<1> USE DEF ReviewInvariant, OpenFilesHeld
<1>1. PacketsAgree => PacketsAgree'
  BY WholeFilesStay DEF PacketsAgree, Readable, Files, Packets
<1>2. CASE Happens
  BY <1>1, <1>2 DEF Happens
<1>3. ASSUME NEW c \in Clerk, Reads(c) PROVE OpenFilesHeld'
  BY <1>1, <1>3 DEF Reads, Moves
<1>4. ASSUME NEW c \in Clerk, Plans(c) PROVE OpenFilesHeld'
  BY <1>1, <1>4 DEF Plans, Moves
<1>5. ASSUME NEW c \in Clerk, NEW f \in Files, Opens(c, f) PROVE OpenFilesHeld'
  <2>1. \A d \in Clerk : f \notin run[d].opened
    BY <1>5 DEF Opens, Absent, Torn
  <2>2. /\ DOMAIN file = Files /\ run[c].pc = "WRITE"
    BY <1>5 DEF Opens, TypeOK
  <2>3. /\ \A d \in Clerk : run'[d].opened = IF d = c THEN run[c].opened \cup {f} ELSE run[d].opened
        /\ \A d \in Clerk : run'[d].pc = run[d].pc
        /\ \A g \in Files : file'[g] = IF g = f THEN Torn ELSE file[g]
    BY <1>5, <2>2 DEF Opens, Moves
  <2>4. \A d \in Clerk : run[d].opened \subseteq Files
    BY DEF TypeOK
  <2> QED
    BY <1>1, <2>1, <2>3, <2>4
<1>6. ASSUME NEW c \in Clerk, NEW f \in Files, Closes(c, f) PROVE OpenFilesHeld'
  <2>1. \A d \in Clerk : run[d].opened \subseteq Files
    BY DEF TypeOK
  <2>2. \A g \in Files \ {f} : file'[g] = file[g]
    BY <1>6 DEF Closes, TypeOK
  <2>3. /\ \A d \in Clerk : run'[d].opened = IF d = c THEN run[c].opened \ {f} ELSE run[d].opened
        /\ \A d \in Clerk : run'[d].pc = "READ_RIGHT" => run[d].pc = "READ_RIGHT"
    BY <1>6 DEF Closes, Moves
  <2>4. \A d \in Clerk \ {c} : f \in run[d].opened => UNCHANGED file
    BY <1>6 DEF Closes
  <2> QED
    BY <1>1, <2>1, <2>2, <2>3, <2>4
<1> QED
  BY <1>2, <1>3, <1>4, <1>5, <1>6 DEF Effects

\* No step adds a value that is not sound.
LEMMA NewValues ==
  ASSUME ReviewInvariant, Effects
  PROVE  \A f \in Files : \A v \in Values(f)' : v \in Values(f) \/ IsSound(f, v)
<1> USE DEF ReviewInvariant, TypeOK, Pending, Values
<1>1. CASE Happens
  BY <1>1 DEF Happens
<1>2. ASSUME NEW c \in Clerk, Reads(c), NEW g \in Files PROVE Values(g)' \subseteq Values(g)
  BY <1>2 DEF Reads, Moves
<1>3. ASSUME NEW c \in Clerk, Plans(c), NEW g \in Files, NEW v \in Values(g)'
      PROVE  v \in Values(g) \/ IsSound(g, v)
  BY <1>3 DEF Plans, Moves
<1>4. ASSUME NEW c \in Clerk, NEW f \in Files, Opens(c, f), NEW g \in Files
      PROVE  Values(g)' \subseteq Values(g)
  BY <1>4 DEF Opens, Moves, Absent, Torn
<1>5. ASSUME NEW c \in Clerk, NEW f \in Files, Closes(c, f), NEW g \in Files
      PROVE  Values(g)' \subseteq Values(g)
  <2>1. file'[g].content \subseteq Values(g)
    BY <1>5 DEF Closes, Whole
  <2>2. \A d \in Clerk \ {c} : run'[d] = run[d]
    BY <1>5 DEF Closes, Moves
  <2>3. g \in DOMAIN run'[c].todo =>
           g \in DOMAIN run[c].todo /\ run'[c].todo[g] = run[c].todo[g]
    BY <1>5 DEF Closes
  <2> QED
    BY <2>1, <2>2, <2>3
<1> QED
  BY <1>1, <1>2, <1>3, <1>4, <1>5 DEF Effects

\* What is sound stays sound: it depends on whole files only.
LEMMA SoundStays ==
  ASSUME ReviewInvariant, Effects
  PROVE  \A f \in Files : \A v : IsSound(f, v) => IsSound(f, v)'
<1>1. UNCHANGED collection
  BY DEF Effects, Happens, Reads, Plans, Opens, Closes, Fixed
<1>2. \A f \in Files : \A v : file[f] = Whole(v) => file'[f] = file[f]
  BY WholeFilesStay DEF Readable, Whole
<1>3. \A f \in Files : \A v \in file[f].content : file'[f] = file[f]
  BY <1>2, Content
<1>4. \A v : IsOfThePacket(v) => IsOfThePacket(v)'
  BY <1>2 DEF IsOfThePacket, Files, Packets
<1>5. \A v : FollowsReviews(v) => FollowsReviews(v)'
  BY <1>3 DEF FollowsReviews, Files, Submissions
<1>6. \A v : RepeatsDecision(v) => RepeatsDecision(v)'
  BY <1>1 DEF RepeatsDecision
<1> QED
  BY <1>1, <1>4, <1>5, <1>6 DEF IsSound

LEMMA ValuesStep ==
  ASSUME ReviewInvariant, Effects
  PROVE  ValuesAreSound'
<1> SUFFICES ASSUME NEW f \in Files, NEW v \in Values(f)' PROVE IsSound(f, v)'
  BY DEF ValuesAreSound
<1>1. IsSound(f, v)
  BY NewValues DEF ReviewInvariant, ValuesAreSound
<1> QED
  BY <1>1, SoundStays

\* A file of a review is only opened by a command that has something sound to
\* write there.
LEMMA NothingStep ==
  ASSUME ReviewInvariant, Effects
  PROVE  NothingIsReviewed'
<1> USE DEF NothingIsReviewed, ReviewInvariant
<1>1. CASE Happens
  BY <1>1 DEF Happens, Fixed
<1>2. ASSUME NEW c \in Clerk, Reads(c) \/ Plans(c) PROVE NothingIsReviewed'
  BY <1>2 DEF Reads, Plans, Fixed
<1>3. ASSUME NEW c \in Clerk, NEW f \in Files, f \in Pending(c),
             collection.decision # "PENDING"
      PROVE  f \notin Packets \cup Submissions
  <2>1. run[c].todo[f] \in Values(f)
    BY <1>3 DEF Values
  <2>2. f = "report"
    BY <1>3, <2>1 DEF ValuesAreSound, IsSound
  <2> QED
    BY <2>2 DEF Packets, Submissions
<1>4. ASSUME NEW c \in Clerk, NEW f \in Files, Opens(c, f) PROVE NothingIsReviewed'
  BY <1>3, <1>4 DEF Opens, Fixed, TypeOK
<1>5. ASSUME NEW c \in Clerk, NEW f \in Files, Closes(c, f) PROVE NothingIsReviewed'
  <2>1. \A g \in Files \ {f} : file'[g] = file[g]
    BY <1>5 DEF Closes, TypeOK
  <2>2. UNCHANGED collection /\ f \in Pending(c)
    BY <1>5 DEF Closes, Fixed
  <2>3. Packets \cup Submissions \subseteq Files
    BY DEF Files
  <2> QED
    BY <1>3, <2>1, <2>2, <2>3
<1> QED
  BY <1>1, <1>2, <1>4, <1>5 DEF Effects

\* The submissions are among the sound values.
LEMMA JudgedOnce == ValuesAreSound => OnePacketIsJudged
  BY DEF ValuesAreSound, Values, IsSound, OnePacketIsJudged, Submissions, Files

-----------------------------------------------------------------------------
(* The theorems. *)

LEMMA Beginning == Init => ReviewInvariant
<1> SUFFICES ASSUME Init PROVE ReviewInvariant
  OBVIOUS
<1> USE DEF Init
<1>1. /\ Idle.command = "none" /\ Idle.pc = "IDLE" /\ Idle.left = {}
      /\ DOMAIN Idle.todo = {} /\ Idle.opened = {}
  BY DEF Idle, Command
<1>2. TypeOK
  BY <1>1, BoundAssumption DEF TypeOK, Pending, Writers
<1>3. \A f \in Files : Values(f) = {}
  BY <1>1 DEF Values, Pending, Absent
<1>4. ValuesAreSound
  BY <1>3 DEF ValuesAreSound
<1>5. NothingIsReviewed
  BY DEF NothingIsReviewed, Files
<1>6. OpenFilesHeld
  BY <1>1 DEF OpenFilesHeld
<1> QED
  BY <1>2, <1>4, <1>5, <1>6, JudgedOnce DEF ReviewInvariant

LEMMA Induction == ReviewInvariant /\ [Next]_vars => ReviewInvariant'
<1> SUFFICES ASSUME ReviewInvariant, [Next]_vars PROVE ReviewInvariant'
  OBVIOUS
<1>1. Effects
  BY StepEffects
<1>2. TypeOK' /\ OpenFilesHeld' /\ ValuesAreSound' /\ NothingIsReviewed'
  BY <1>1, TypeStep, OpenFilesStep, ValuesStep, NothingStep
<1>3. OnePacketIsJudged'
  BY <1>2 DEF ValuesAreSound, Values, IsSound, OnePacketIsJudged, Submissions, Files
<1> QED
  BY <1>2, <1>3 DEF ReviewInvariant

\* Every variable has its type, and whatever was submitted or asked is about
\* the one packet that both reviewers have, in every reachable state: two
\* clerks may prepare the review of different skills, resolve it from inputs
\* that are rewritten between two reads, and be killed between two writes.
THEOREM Invariance == Spec => []ReviewInvariant
  BY Beginning, Induction, PTL DEF Spec

\* A report repeats a mechanical decision, which nobody is asked about, or
\* follows from the two submissions that are on disk and from a resolver who
\* decided what they left open and nothing else (scoreAuthorViability).
THEOREM Standing == Spec => []ReportStands
<1>1. ReviewInvariant => ReportStands
  <2> SUFFICES ASSUME ReviewInvariant PROVE ReportStands
    OBVIOUS
  <2>1. \A s \in file["report"].content : IsSound("report", s)
    BY Content DEF Files
  <2> QED
    BY <2>1 DEF ReviewInvariant, ReportStands, MechanicalDecisionStands, ReportFollowsReviews,
               IsSound
<1> QED
  BY <1>1, Invariance, PTL

\* No file of a review changes once it is whole, whichever commands run at the
\* same time or again (the exclusive creation of author-viability-workflow.ts).
THEOREM Finality == Spec => ReviewIsFinal
<1>1. ASSUME ReviewInvariant, [Next]_vars
      PROVE  [\A f \in Files : Readable(f) => UNCHANGED file[f]]_vars
  <2>1. \A f \in Files : Readable(f) => file'[f] = file[f]
    BY <1>1, StepEffects, WholeFilesStay
  <2> QED
    BY <2>1
<1> QED
  BY <1>1, Invariance, PTL DEF Spec, ReviewIsFinal
=============================================================================
