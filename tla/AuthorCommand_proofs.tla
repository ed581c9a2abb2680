------------------------ MODULE AuthorCommand_proofs ------------------------
(***************************************************************************)
(* Proofs about the author command for any number of processes, campaigns   *)
(* and outputs.  CommandInvariant is inductive; it is proved in four        *)
(* independent parts (who owns an output, who owns a campaign, what a       *)
(* delivery keeps, how long a workspace lives), each from type correctness  *)
(* and the parts it names.  The promises and the refinement follow.         *)
(***************************************************************************)
EXTENDS AuthorCommand, TLAPS

\* Steps that move a process and change no file.
Moves(p) ==
  \/ PassChecks(p) \/ FailChecks(p) \/ RefuseClaim(p) \/ FailWorkspace(p)
  \/ RefuseReservation(p) \/ FailReservation(p) \/ RunCompleted(p) \/ RunError(p)
  \/ FailWrite(p) \/ CloseOutput(p) \/ FailClose(p) \/ FailUnlink(p)
  \/ Cleanup(p) \/ FailCleanup(p) \/ CreateWorkspace(p) \/ Kill(p)

\* Steps that change the output file.
Writes(p) ==
  ClaimBlueprintOutput(p) \/ BeginWrite(p) \/ FinishWrite(p) \/ UnlinkOutput(p)

\* Steps that change the reservation or the count of invocations.
Reserves(p) == OpenReservation(p) \/ WriteReservation(p) \/ Invoke(p)

\* A step of the specification is one of these or changes nothing.
LEMMA StepKinds ==
  ASSUME [Next]_vars
  PROVE  (\E p \in Process : Moves(p) \/ Writes(p) \/ Reserves(p)) \/ UNCHANGED vars
BY DEF Next, Run, Succeed, Fail, Epilogue, Moves, Writes, Reserves

\* No step leaves the types of the variables.
LEMMA TypeStep == ASSUME TypeOK, [Next]_vars PROVE TypeOK'
<1>1. ASSUME NEW p \in Process, Moves(p) PROVE TypeOK'
  <2>1. CASE PassChecks(p) \/ RunCompleted(p) \/ CloseOutput(p) \/ Kill(p)
    BY <2>1 DEF PassChecks, RunCompleted, CloseOutput, Kill, Goto, TypeOK, Steps,
                args, files, reservations
  <2>2. CASE FailChecks(p) \/ RefuseClaim(p)
    BY <2>2 DEF FailChecks, RefuseClaim, Reject, Goto, TypeOK, Steps,
                args, files, reservations
  <2>3. CASE FailWorkspace(p) \/ RefuseReservation(p) \/ FailReservation(p)
             \/ RunError(p) \/ FailWrite(p)
    BY <2>3 DEF FailWorkspace, RefuseReservation, FailReservation, RunError,
                FailWrite, Throw, Goto, TypeOK, Steps, args, files, reservations
  <2>4. CASE FailClose(p) \/ FailUnlink(p) \/ FailCleanup(p)
    BY <2>4 DEF FailClose, FailUnlink, FailCleanup, Goto, TypeOK, Steps,
                args, files, reservations
  <2>5. CASE Cleanup(p) \/ CreateWorkspace(p)
    BY <2>5 DEF Cleanup, TryOutcome, CreateWorkspace, Goto, TypeOK, Steps,
                args, files, reservations
  <2> QED
    BY <1>1, <2>1, <2>2, <2>3, <2>4, <2>5 DEF Moves
<1>2. ASSUME NEW p \in Process, Writes(p) PROVE TypeOK'
  <2>1. CASE ClaimBlueprintOutput(p)
    BY <2>1 DEF ClaimBlueprintOutput, Goto, TypeOK, Steps, args, reservations
  <2>2. CASE BeginWrite(p)
    BY <2>2 DEF BeginWrite, Goto, TypeOK, Steps, args, reservations
  <2>3. CASE FinishWrite(p)
    BY <2>3 DEF FinishWrite, Goto, TypeOK, Steps, args, reservations
  <2>4. CASE UnlinkOutput(p)
    BY <2>4 DEF UnlinkOutput, Goto, TypeOK, Steps, args, reservations
  <2> QED
    BY <1>2, <2>1, <2>2, <2>3, <2>4 DEF Writes
<1>3. ASSUME NEW p \in Process, Reserves(p) PROVE TypeOK'
  BY <1>3 DEF Reserves, OpenReservation, WriteReservation, Invoke, Goto, TypeOK,
              Steps, args, files, reservations
<1>4. CASE UNCHANGED vars
  BY <1>4 DEF vars, TypeOK, args, files, reservations
<1> QED
  BY StepKinds, <1>1, <1>2, <1>3, <1>4

\* Ownership of an output: 'wx' gives the file to one process, and only steps
\* of that process change it before it is closed.
LEMMA ClaimStep == ASSUME TypeOK, ClaimHeld, [Next]_vars PROVE ClaimHeld'
<1>1. ASSUME NEW p \in Process, Moves(p) PROVE ClaimHeld'
  BY <1>1 DEF Moves, PassChecks, FailChecks, RefuseClaim, FailWorkspace,
              RefuseReservation, FailReservation, RunCompleted, RunError, FailWrite,
              CloseOutput, FailClose, FailUnlink, Cleanup, FailCleanup,
              CreateWorkspace, Kill, Reject, Throw, Goto, Discards,
              TypeOK, Steps, ClaimHeld, args, files
<1>2. ASSUME NEW p \in Process, Writes(p) PROVE ClaimHeld'
  <2>1. CASE ClaimBlueprintOutput(p)
    BY <2>1 DEF ClaimBlueprintOutput, ExclusiveCreates, Goto, TypeOK, ClaimHeld, args
  <2>2. CASE BeginWrite(p)
    BY <2>2 DEF BeginWrite, Goto, TypeOK, ClaimHeld, args
  <2>3. CASE FinishWrite(p)
    BY <2>3 DEF FinishWrite, Goto, TypeOK, ClaimHeld, args
  <2>4. CASE UnlinkOutput(p)
    BY <2>4 DEF UnlinkOutput, Goto, TypeOK, ClaimHeld, args
  <2> QED
    BY <1>2, <2>1, <2>2, <2>3, <2>4 DEF Writes
<1>3. ASSUME NEW p \in Process, Reserves(p) PROVE ClaimHeld'
  BY <1>3 DEF Reserves, OpenReservation, WriteReservation, Invoke, Goto, TypeOK,
              ClaimHeld, args, files
<1>4. CASE UNCHANGED vars
  BY <1>4 DEF vars, ClaimHeld, args, files
<1> QED
  BY StepKinds, <1>1, <1>2, <1>3, <1>4

\* What is known of the campaigns at every step.
CampaignPart ==
  CampaignHeld /\ CampaignFresh /\ AtMostOneInvocation /\ InvocationIsRecorded

\* Ownership of a campaign: a second process cannot pass the reservation, so
\* the one that did is the only one to count an invocation.
LEMMA CampaignStep ==
  ASSUME TypeOK, CampaignPart, [Next]_vars
  PROVE  CampaignPart'
<1> USE DEF CampaignPart, CampaignHeld, CampaignFresh, AtMostOneInvocation,
            InvocationIsRecorded
<1>1. ASSUME NEW p \in Process, Moves(p) PROVE CampaignPart'
  BY <1>1 DEF Moves, PassChecks, FailChecks, RefuseClaim, FailWorkspace,
              RefuseReservation, FailReservation, RunCompleted, RunError, FailWrite,
              CloseOutput, FailClose, FailUnlink, Cleanup, FailCleanup,
              CreateWorkspace, Kill, Reject, Throw, Goto, TypeOK, Steps, args,
              reservations
<1>2. ASSUME NEW p \in Process, Writes(p) PROVE CampaignPart'
  BY <1>2 DEF Writes, ClaimBlueprintOutput, BeginWrite, FinishWrite, UnlinkOutput,
              Goto, TypeOK, args, reservations
<1>3. ASSUME NEW p \in Process, Reserves(p) PROVE CampaignPart'
  <2>1. CASE OpenReservation(p)
    BY <2>1, NoOneAssumption DEF OpenReservation, ExclusiveCreates, Goto, TypeOK, args
  <2>2. CASE WriteReservation(p)
    BY <2>2, NoOneAssumption DEF WriteReservation, Goto, TypeOK, args
  <2>3. CASE Invoke(p)
    BY <2>3, NoOneAssumption DEF Invoke, Goto, TypeOK, args, reservations
  <2> QED
    BY <1>3, <2>1, <2>2, <2>3 DEF Reserves
<1>4. CASE UNCHANGED vars
  BY <1>4 DEF vars, args, reservations
<1> QED
  BY StepKinds, <1>1, <1>2, <1>3, <1>4

\* A delivered blueprint stays: no process but its owner may write or unlink
\* the path, no other process may spend the campaign, and the owner has done
\* with both.
LEMMA DeliveryStep ==
  ASSUME TypeOK, ClaimHeld, CampaignPart, DeliveryKept, [Next]_vars
  PROVE  DeliveryKept'
<1>1. ASSUME NEW p \in Process, Moves(p) PROVE DeliveryKept'
  BY <1>1 DEF Moves, PassChecks, FailChecks, RefuseClaim, FailWorkspace,
              RefuseReservation, FailReservation, RunCompleted, RunError, FailWrite,
              CloseOutput, FailClose, FailUnlink, Cleanup, FailCleanup,
              CreateWorkspace, Kill, Reject, Throw, Goto, Discards, TypeOK, Steps,
              DeliveryKept, args, files, reservations
<1>2. ASSUME NEW p \in Process, Writes(p) PROVE DeliveryKept'
  <2>1. CASE ClaimBlueprintOutput(p)
    BY <2>1 DEF ClaimBlueprintOutput, ExclusiveCreates, Goto, TypeOK, ClaimHeld,
                DeliveryKept, args, reservations
  <2>2. CASE BeginWrite(p)
    BY <2>2 DEF BeginWrite, Goto, TypeOK, ClaimHeld, DeliveryKept, args, reservations
  <2>3. CASE FinishWrite(p)
    BY <2>3 DEF FinishWrite, Goto, TypeOK, ClaimHeld, CampaignPart, CampaignHeld,
                DeliveryKept, args, reservations
  <2>4. CASE UnlinkOutput(p)
    BY <2>4 DEF UnlinkOutput, Goto, TypeOK, ClaimHeld, DeliveryKept, args, reservations
  <2> QED
    BY <1>2, <2>1, <2>2, <2>3, <2>4 DEF Writes
<1>3. ASSUME NEW p \in Process, Reserves(p) PROVE DeliveryKept'
  <2> USE NoOneAssumption
          DEF Goto, TypeOK, CampaignPart, CampaignHeld, CampaignFresh, DeliveryKept,
              args, files
  <2>1. CASE OpenReservation(p)
    BY <2>1 DEF OpenReservation, ExclusiveCreates
  <2>2. CASE WriteReservation(p)
    BY <2>2 DEF WriteReservation
  <2>3. CASE Invoke(p)
    BY <2>3 DEF Invoke, reservations
  <2> QED
    BY <1>3, <2>1, <2>2, <2>3 DEF Reserves
<1>4. CASE UNCHANGED vars
  BY <1>4 DEF vars, DeliveryKept, args, files, reservations
<1> QED
  BY StepKinds, <1>1, <1>2, <1>3, <1>4

\* Only a process that committed can end as COMPLETED, and it does so in the
\* step that removes its workspace.
LEMMA WorkspaceStep ==
  ASSUME TypeOK, DeliveryKept, WorkspaceHeld, [Next]_vars
  PROVE  WorkspaceHeld'
<1>1. ASSUME NEW p \in Process, Moves(p) PROVE WorkspaceHeld'
  <2>1. CASE Cleanup(p) \/ FailCleanup(p) \/ CreateWorkspace(p)
    BY <2>1 DEF Cleanup, TryOutcome, FailCleanup, CreateWorkspace, Goto, TypeOK,
                DeliveryKept, WorkspaceHeld
  <2>2. CASE ~(Cleanup(p) \/ FailCleanup(p) \/ CreateWorkspace(p))
    BY <1>1, <2>2
       DEF Moves, PassChecks, FailChecks, RefuseClaim, FailWorkspace,
           RefuseReservation, FailReservation, RunCompleted, RunError, FailWrite,
           CloseOutput, FailClose, FailUnlink, Kill, Reject, Throw, Goto, Discards,
           TypeOK, Steps, DeliveryKept, WorkspaceHeld
  <2> QED
    BY <2>1, <2>2
<1>2. ASSUME NEW p \in Process, Writes(p) PROVE WorkspaceHeld'
  BY <1>2 DEF Writes, ClaimBlueprintOutput, BeginWrite, FinishWrite, UnlinkOutput,
              Goto, TypeOK, DeliveryKept, WorkspaceHeld
<1>3. ASSUME NEW p \in Process, Reserves(p) PROVE WorkspaceHeld'
  BY <1>3 DEF Reserves, OpenReservation, WriteReservation, Invoke, Goto, TypeOK,
              WorkspaceHeld
<1>4. CASE UNCHANGED vars
  BY <1>4 DEF vars, WorkspaceHeld
<1> QED
  BY StepKinds, <1>1, <1>2, <1>3, <1>4

-----------------------------------------------------------------------------

\* The inductive invariant holds in every reachable state of the command,
\* whatever the interleaving of its processes and wherever they are killed.
THEOREM Invariance == Spec => []CommandInvariant
<1>1. Init => CommandInvariant
  BY DEF Init, CommandInvariant, TypeOK, Steps, ClaimHeld, CampaignHeld,
         CampaignFresh, DeliveryKept, WorkspaceHeld, AtMostOneInvocation,
         InvocationIsRecorded
<1>2. CommandInvariant /\ [Next]_vars => CommandInvariant'
  BY TypeStep, ClaimStep, CampaignStep, DeliveryStep, WorkspaceStep
     DEF CommandInvariant, CampaignPart
<1> QED
  BY <1>1, <1>2, PTL DEF Spec

\* A campaign pays for at most one provider invocation, and for none whose
\* reservation is not wholly on disk.
THEOREM BudgetSafety == Spec => [](AtMostOneInvocation /\ InvocationIsRecorded)
<1>1. CommandInvariant => AtMostOneInvocation /\ InvocationIsRecorded
  BY DEF CommandInvariant
<1> QED
  BY Invariance, <1>1, PTL

\* A campaign is spent only by a process that owns the output it is spent for.
THEOREM ClaimSafety == Spec => []SpendsOnlyUnderClaim
<1>1. CommandInvariant => SpendsOnlyUnderClaim
  BY DEF CommandInvariant, ClaimHeld, SpendsOnlyUnderClaim
<1> QED
  BY Invariance, <1>1, PTL

\* COMPLETED is reported only for a blueprint that is there, and stays there.
THEOREM DeliverySafety == Spec => []CompletedMeansDelivered
<1>1. CommandInvariant => CompletedMeansDelivered
  BY DEF CommandInvariant, DeliveryKept, WorkspaceHeld, CompletedMeansDelivered
<1> QED
  BY Invariance, <1>1, PTL

\* What a command promises while it runs and after it ended, in every reachable
\* state: the invariant, the claim it pays under and the delivery it reports.
THEOREM Safety == Spec => []CommandIsSafe
  BY Invariance, ClaimSafety, DeliverySafety, PTL DEF CommandIsSafe

\* No process changes a file it did not create, a delivered blueprint, or a
\* file that was there before.
THEOREM OwnershipSafety == Spec => FilesAreOwned
<1> DEFINE Kept(o) == blueprint[o] # "ABSENT" /\ blueprint'[o] # blueprint[o] =>
                        /\ blueprint[o] \in {"EMPTY", "PARTIAL"}
                        /\ pc'[claimant[o]] # pc[claimant[o]]
<1>1. ASSUME CommandInvariant, [Next]_vars PROVE \A o \in Output : Kept(o)
  <2>1. ASSUME NEW p \in Process, Moves(p) PROVE UNCHANGED blueprint
    BY <2>1 DEF Moves, PassChecks, FailChecks, RefuseClaim, FailWorkspace,
                RefuseReservation, FailReservation, RunCompleted, RunError,
                FailWrite, CloseOutput, FailClose, FailUnlink, Cleanup, FailCleanup,
                CreateWorkspace, Kill, Reject, Throw, files
  <2>2. ASSUME NEW p \in Process, Writes(p) PROVE \A o \in Output : Kept(o)
    BY <1>1, <2>2 DEF Writes, ClaimBlueprintOutput, ExclusiveCreates, BeginWrite,
                      FinishWrite, UnlinkOutput, Goto, CommandInvariant, TypeOK,
                      ClaimHeld
  <2>3. ASSUME NEW p \in Process, Reserves(p) PROVE UNCHANGED blueprint
    BY <2>3 DEF Reserves, OpenReservation, WriteReservation, Invoke, files
  <2>4. CASE UNCHANGED vars
    BY <2>4 DEF vars, files
  <2> QED
    BY <1>1, StepKinds, <2>1, <2>2, <2>3, <2>4
<1>2. CommandInvariant /\ [Next]_vars => [\A o \in Output : Kept(o)]_vars
  BY <1>1
<1> QED
  BY <1>2, Invariance, PTL DEF Spec, FilesAreOwned

\* What LeftoverHasACause needs to be inductive: an unfinished file is the
\* output of the process that created it, which is still inside its try block
\* or about to undo it, unless it was killed or failed to.
LeftoverHeld ==
  \A o \in Output :
    blueprint[o] \in {"EMPTY", "PARTIAL"} =>
      /\ claimant[o] \in Process /\ out[claimant[o]] = o
      /\ \/ pc[claimant[o]] \in {"WORKSPACE", "RESERVE", "RECORD", "INVOKE", "AWAIT", "WRITE",
                                "FLUSH", "CLOSE", "UNLINK", "KILLED"}
         \/ fault[claimant[o]] \cap {"CLOSE", "UNLINK"} # {}

LEMMA LeftoverStep ==
  ASSUME CommandInvariant, LeftoverHeld, [Next]_vars
  PROVE  LeftoverHeld'
<1> USE DEF Goto, CommandInvariant, TypeOK, LeftoverHeld, args, files, reservations
<1>1. ASSUME NEW p \in Process, Moves(p) PROVE LeftoverHeld'
  <2>1. CASE PassChecks(p) \/ FailChecks(p) \/ RefuseClaim(p)
    BY <2>1 DEF PassChecks, FailChecks, RefuseClaim, Reject
  <2>2. CASE FailWorkspace(p) \/ RefuseReservation(p) \/ FailReservation(p) \/ RunError(p)
             \/ FailWrite(p) \/ RunCompleted(p) \/ CreateWorkspace(p) \/ Kill(p)
    BY <2>2 DEF FailWorkspace, RefuseReservation, FailReservation, RunError, FailWrite, Throw,
                RunCompleted, CreateWorkspace, Kill
  <2>3. CASE CloseOutput(p)
    BY <2>3 DEF CloseOutput, Discards, DeliveryKept
  <2>4. CASE FailClose(p) \/ FailUnlink(p)
    <3>1. \A q \in Process \ {p} : pc'[q] = pc[q] /\ fault'[q] = fault[q]
      BY <2>4 DEF FailClose, FailUnlink
    <3>2. "CLOSE" \in fault'[p] \/ "UNLINK" \in fault'[p]
      BY <2>4 DEF FailClose, FailUnlink
    <3>3. UNCHANGED <<blueprint, claimant, out>>
      BY <2>4 DEF FailClose, FailUnlink
    <3> QED
      BY <3>1, <3>2, <3>3
  <2>5. CASE Cleanup(p) \/ FailCleanup(p)
    BY <2>5 DEF Cleanup, FailCleanup
  <2> QED
    BY <1>1, <2>1, <2>2, <2>3, <2>4, <2>5 DEF Moves
<1>2. ASSUME NEW p \in Process, Writes(p) PROVE LeftoverHeld'
  <2>1. CASE ClaimBlueprintOutput(p)
    BY <2>1 DEF ClaimBlueprintOutput
  <2>2. CASE BeginWrite(p)
    BY <2>2 DEF BeginWrite, ClaimHeld
  <2>3. CASE FinishWrite(p) \/ UnlinkOutput(p)
    BY <2>3 DEF FinishWrite, UnlinkOutput
  <2> QED
    BY <1>2, <2>1, <2>2, <2>3 DEF Writes
<1>3. ASSUME NEW p \in Process, Reserves(p) PROVE LeftoverHeld'
  BY <1>3 DEF Reserves, OpenReservation, WriteReservation, Invoke
<1>4. CASE UNCHANGED vars
  BY <1>4 DEF vars
<1> QED
  BY StepKinds, <1>1, <1>2, <1>3, <1>4

\* An unfinished output survives its process only when the process was killed
\* or failed to close or to unlink it: no other error path leaves one.
THEOREM LeftoverSafety == Spec => []LeftoverHasACause
<1>1. Init => LeftoverHeld
  BY DEF Init, LeftoverHeld
<1>2. CommandInvariant /\ LeftoverHeld /\ [Next]_vars => LeftoverHeld'
  BY LeftoverStep
<1>3. LeftoverHeld => LeftoverHasACause
  BY DEF LeftoverHeld, LeftoverHasACause, Stopped
<1> QED
  BY <1>1, <1>2, <1>3, Invariance, PTL DEF Spec

\* The command implements the invocation budget: opening a reservation is
\* Take, calling the provider is Spend, everything else is a stutter.
THEOREM Implementation == Spec => ImplementsBudget
<1>1. Init => Budget!Init
  BY DEF Init, Budget!Init
<1>2. ASSUME CommandInvariant, [Next]_vars PROVE [Budget!Next]_<<reserver, invocations>>
  <2>1. ASSUME NEW p \in Process, Moves(p) \/ Writes(p)
        PROVE UNCHANGED <<reserver, invocations>>
    BY <2>1 DEF Moves, PassChecks, FailChecks, RefuseClaim, FailWorkspace,
                RefuseReservation, FailReservation, RunCompleted, RunError,
                FailWrite, CloseOutput, FailClose, FailUnlink, Cleanup, FailCleanup,
                CreateWorkspace, Kill, Reject, Throw, Writes, ClaimBlueprintOutput,
                BeginWrite, FinishWrite, UnlinkOutput, reservations
  <2>2. ASSUME NEW p \in Process, OpenReservation(p)
        PROVE Budget!Take(p, campaign[p])
    BY <1>2, <2>2 DEF OpenReservation, ExclusiveCreates, Budget!Take,
                      CommandInvariant, TypeOK, CampaignFresh
  <2>3. ASSUME NEW p \in Process, WriteReservation(p)
        PROVE UNCHANGED <<reserver, invocations>>
    BY <2>3 DEF WriteReservation
  <2>4. ASSUME NEW p \in Process, Invoke(p)
        PROVE Budget!Spend(p, campaign[p])
    <3>1. reserver[campaign[p]] = p /\ invocations[campaign[p]] = 0
      BY <1>2, <2>4 DEF Invoke, Goto, CommandInvariant, CampaignHeld
    <3>2. invocations' = [invocations EXCEPT ![campaign[p]] = 0 + 1]
      BY <2>4, <3>1 DEF Invoke
    <3> QED
      BY <2>4, <3>1, <3>2 DEF Invoke, Budget!Spend, reservations
  <2>5. \A p \in Process : campaign[p] \in Campaign
    BY <1>2 DEF CommandInvariant, TypeOK
  <2>6. CASE UNCHANGED vars
    BY <2>6 DEF vars, reservations
  <2> QED
    BY <1>2, StepKinds, <2>1, <2>2, <2>3, <2>4, <2>5, <2>6 DEF Budget!Next, Reserves
<1> QED
  BY <1>1, <1>2, Invariance, PTL
     DEF Spec, ImplementsBudget, Budget!Spec, Budget!budget

\* What the budget promises, for any keys and actors: a key is never spent
\* twice, and only by the actor that took it.
THEOREM BudgetKept == Budget!Spec => [](Budget!TypeOK /\ Budget!WithinBudget)
<1> DEFINE Kept == Budget!TypeOK /\ Budget!WithinBudget
<1> USE DEF Budget!TypeOK, Budget!WithinBudget
<1>1. Budget!Init => Kept
  BY DEF Budget!Init
<1>2. ASSUME Kept, [Budget!Next]_<<reserver, invocations>> PROVE Kept'
  <2>1. ASSUME NEW p \in Process, NEW c \in Campaign, Budget!Take(p, c) PROVE Kept'
    BY <1>2, <2>1 DEF Budget!Take
  <2>2. ASSUME NEW p \in Process, NEW c \in Campaign, Budget!Spend(p, c) PROVE Kept'
    BY <1>2, <2>2 DEF Budget!Spend
  <2>3. CASE UNCHANGED <<reserver, invocations>>
    BY <1>2, <2>3
  <2> QED
    BY <1>2, <2>1, <2>2, <2>3 DEF Budget!Next
<1> HIDE DEF Kept
<1>3. Budget!Spec => []Kept
  BY <1>1, <1>2, PTL DEF Budget!Spec, Budget!budget
<1> QED
  BY <1>3 DEF Kept

\* No campaign of the command is paid for twice, or by a process that has not
\* reserved it.
THEOREM PaidOnce == Spec => []Budget!WithinBudget
  BY Implementation, BudgetKept, PTL DEF ImplementsBudget

=============================================================================
