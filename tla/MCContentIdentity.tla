------------------------- MODULE MCContentIdentity -------------------------
EXTENDS ContentIdentity, TLC

CONSTANTS index, planA, planB, code, root, docs

RankValue == (index :> 1) @@ (planA :> 2) @@ (planB :> 3) @@ (code :> 4)
ParentValue == (code :> root) @@ [p \in {index, planA, planB} |-> docs]
AboveValue == (code :> {root}) @@ [p \in {index, planA, planB} |-> {root, docs}]

File(mode, material) ==
    [mode |-> mode, material |-> material, context |-> 0, log |-> 0,
     revision |-> 0, sections |-> "some", names |-> NoPlan]
PlanFile(material, context, log, revision) ==
    [File("100644", material) EXCEPT !.context = context, !.log = log,
                                     !.revision = revision, !.sections = "each"]
IndexFile(p) == [File("100644", 1) EXCEPT !.names = p]

BaseValue == (index :> IndexFile(planA)) @@ (planA :> PlanFile(1, 1, 1, 1))
          @@ (planB :> PlanFile(2, 1, 1, 1)) @@ (code :> Nothing)

(* The index turns to the other plan; one plan records progress and is     *)
(* then revised, the other is deleted; an executable appears and is        *)
(* replaced by a link.                                                     *)
HistoryValue ==
    (index :> <<IndexFile(planA), IndexFile(planB)>>)
    @@ (planA :> <<PlanFile(1, 1, 1, 1), PlanFile(1, 1, 2, 1), PlanFile(1, 1, 3, 2)>>)
    @@ (planB :> <<PlanFile(3, 1, 1, 1), Nothing>>)
    @@ (code :> <<Nothing, File("100755", 1), File("120000", 2)>>)

(* TLC evaluates what a constant is replaced by at every use, but a         *)
(* definition like those above only once.                                  *)
MCRank == RankValue
MCParent == ParentValue
MCAbove == AboveValue
MCBase == BaseValue
MCHistory == HistoryValue
=============================================================================
