---------------------------- MODULE AuthorCommand ----------------------------
(***************************************************************************)
(* The "author" command: src/cli.ts with src/author/reservation.ts.         *)
(*                                                                          *)
(* Each run of the command is an operating-system process of its own; all   *)
(* processes share one file system.  A process claims its blueprint output, *)
(* reserves its campaign, makes the single approved provider invocation and *)
(* writes the blueprint through the handle of its claim.  Both files are    *)
(* created with O_EXCL ('wx').  Every await is a point where another        *)
(* process may run and where this one may be killed.                        *)
(***************************************************************************)
EXTENDS Naturals

CONSTANTS Process,          \* runs of the command
          Campaign,         \* values of --campaign
          PathSafeCampaign, \* those the path-safe pattern accepts
          Output,           \* resolved values of --out
          NoOne             \* the mark of a file nobody created

ASSUME PathSafeAssumption == PathSafeCampaign \subseteq Campaign
ASSUME NoOneAssumption == NoOne \notin Process

VARIABLES
  pc,          \* pc[p]: the await at which p stands
  campaign,    \* campaign[p]: --campaign of p
  out,         \* out[p]: --out of p
  committed,   \* committed[p]: outputCommitted
  workspace,   \* workspace[p]: the temporary directory of the invocation
  exit,        \* exit[p]: how the command of p ended
  blueprint,   \* blueprint[o]: what the file at o holds; FOREIGN if it was
               \* there before any run of the command
  record,      \* record[c]: what the reservation file of c holds
  \* History, which no guard reads:
  claimant,    \* claimant[o]: the process that created the file at o
  reserver,    \* reserver[c]: the process that created the reservation of c
  invocations, \* invocations[c]: provider invocations started for c
  fault        \* fault[p]: the steps of the finally block of p that failed

args == <<campaign, out>>
files == <<blueprint, claimant>>
reservations == <<record, reserver>>
vars == <<pc, args, committed, workspace, exit, files, reservations, invocations, fault>>

Steps == {"START", "CLAIM", "WORKSPACE", "RESERVE", "RECORD", "INVOKE", "AWAIT",
          "WRITE", "FLUSH", "CLOSE", "UNLINK", "CLEANUP", "ENDED", "KILLED"}

TypeOK ==
  /\ pc \in [Process -> Steps]
  /\ campaign \in [Process -> Campaign]
  /\ out \in [Process -> Output]
  /\ committed \in [Process -> BOOLEAN]
  /\ workspace \in [Process -> {"NONE", "LIVE", "REMOVED"}]
  /\ exit \in [Process -> {"NONE", "COMPLETED", "ERROR"}]
  /\ blueprint \in [Output -> {"ABSENT", "FOREIGN", "EMPTY", "PARTIAL", "COMPLETE"}]
  /\ record \in [Campaign -> {"ABSENT", "EMPTY", "WRITTEN"}]
  /\ claimant \in [Output -> Process \cup {NoOne}]
  /\ reserver \in [Campaign -> Process \cup {NoOne}]
  /\ invocations \in [Campaign -> Nat]
  /\ fault \in [Process -> SUBSET {"CLOSE", "UNLINK", "CLEANUP"}]

Init ==
  /\ pc = [p \in Process |-> "START"]
  /\ campaign \in [Process -> Campaign]
  /\ out \in [Process -> Output]
  /\ committed = [p \in Process |-> FALSE]
  /\ workspace = [p \in Process |-> "NONE"]
  /\ exit = [p \in Process |-> "NONE"]
  /\ blueprint \in [Output -> {"ABSENT", "FOREIGN"}]
  /\ record = [c \in Campaign |-> "ABSENT"]
  /\ claimant = [o \in Output |-> NoOne]
  /\ reserver = [c \in Campaign |-> NoOne]
  /\ invocations = [c \in Campaign |-> 0]
  /\ fault = [p \in Process |-> {}]

-----------------------------------------------------------------------------
(* Moving a process on. *)

Goto(p, from, to) == pc[p] = from /\ pc' = [pc EXCEPT ![p] = to]

\* The command ends with an error before the try block: nothing to undo.
Reject(p, from) ==
  /\ Goto(p, from, "ENDED")
  /\ exit' = [exit EXCEPT ![p] = "ERROR"]
  /\ UNCHANGED <<args, committed, workspace, files, reservations, invocations, fault>>

\* An error inside the try block: the finally block runs next.
Throw(p, from) ==
  /\ Goto(p, from, "CLOSE")
  /\ UNCHANGED <<args, committed, workspace, exit, files, reservations, invocations, fault>>

-----------------------------------------------------------------------------
(* Before the try block. *)

\* Approval, arguments, protocol, authoring context, Codex home, clean
\* worktree, version, snapshot and packet: all of it reads only.
PassChecks(p) ==
  /\ Goto(p, "START", "CLAIM")
  /\ UNCHANGED <<args, committed, workspace, exit, files, reservations, invocations, fault>>

FailChecks(p) == Reject(p, "START")

AlwaysCreates(file) == TRUE

\* open(path, 'wx') succeeds only where nothing stands.
ExclusiveCreates(file) == file = "ABSENT"

\* claimBlueprintOutput creates the output...
ClaimBlueprintOutput(p) ==
  /\ ExclusiveCreates(blueprint[out[p]])
  /\ Goto(p, "CLAIM", "WORKSPACE")
  /\ blueprint' = [blueprint EXCEPT ![out[p]] = "EMPTY"]
  /\ claimant' = [claimant EXCEPT ![out[p]] = p]
  /\ UNCHANGED <<args, committed, workspace, exit, reservations, invocations, fault>>

\* ...or ends the command: AUTHOR_OUTPUT_EXISTS, or a directory that cannot
\* be written.
RefuseClaim(p) == Reject(p, "CLAIM")

-----------------------------------------------------------------------------
(* The try block. *)

CreateWorkspace(p) ==
  /\ Goto(p, "WORKSPACE", "RESERVE")
  /\ workspace' = [workspace EXCEPT ![p] = "LIVE"]
  /\ UNCHANGED <<args, committed, exit, files, reservations, invocations, fault>>

AbandonsClaim(p) == Reject(p, "WORKSPACE")

FailWorkspace(p) == Throw(p, "WORKSPACE")

\* reserveAuthorInvocation up to its open(..., 'wx').
OpenReservation(p) ==
  /\ campaign[p] \in PathSafeCampaign
  /\ ExclusiveCreates(record[campaign[p]])
  /\ Goto(p, "RESERVE", "RECORD")
  /\ record' = [record EXCEPT ![campaign[p]] = "EMPTY"]
  /\ reserver' = [reserver EXCEPT ![campaign[p]] = p]
  /\ UNCHANGED <<args, committed, workspace, exit, files, invocations, fault>>

WaitsForReservation(p) ==
  /\ Goto(p, "RESERVE", "RESERVE")
  /\ UNCHANGED <<args, committed, workspace, exit, files, reservations, invocations, fault>>

\* CAMPAIGN_ID_INVALID, CAMPAIGN_ALREADY_RESERVED, or mkdir or open failing.
RefuseReservation(p) == Throw(p, "RESERVE")

\* The rest of reserveAuthorInvocation: writeFile and close.
WriteReservation(p) ==
  /\ Goto(p, "RECORD", "INVOKE")
  /\ record' = [record EXCEPT ![campaign[p]] = "WRITTEN"]
  /\ UNCHANGED <<args, committed, workspace, exit, files, reserver, invocations, fault>>

\* writeFile or close fails: the file stays, so the campaign stays reserved.
FailReservation(p) == Throw(p, "RECORD")

\* authorEvaluationBlueprint up to its one call of invoke.
Invoke(p) ==
  /\ Goto(p, "INVOKE", "AWAIT")
  /\ invocations' = [invocations EXCEPT ![campaign[p]] = @ + 1]
  /\ UNCHANGED <<args, committed, workspace, exit, files, reservations, fault>>

RetriesProviderError(p) ==
  /\ Goto(p, "AWAIT", "INVOKE")
  /\ UNCHANGED <<args, committed, workspace, exit, files, reservations, invocations, fault>>

\* The provider fails, or its answer is not JSON, not a structurally valid
\* candidate, or composes into an invalid blueprint: AUTHOR_RUN_ERROR.
RunError(p) == Throw(p, "AWAIT")

\* The run is COMPLETED for the packet that was reserved.
RunCompleted(p) ==
  /\ Goto(p, "AWAIT", "WRITE")
  /\ UNCHANGED <<args, committed, workspace, exit, files, reservations, invocations, fault>>

\* outputHandle.writeFile reaches the disk in pieces.
BeginWrite(p) ==
  /\ Goto(p, "WRITE", "FLUSH")
  /\ blueprint' = [blueprint EXCEPT ![out[p]] = "PARTIAL"]
  /\ UNCHANGED <<args, committed, workspace, exit, claimant, reservations, invocations, fault>>

FinishWrite(p) ==
  /\ Goto(p, "FLUSH", "CLOSE")
  /\ blueprint' = [blueprint EXCEPT ![out[p]] = "COMPLETE"]
  /\ committed' = [committed EXCEPT ![p] = TRUE]
  /\ UNCHANGED <<args, workspace, exit, claimant, reservations, invocations, fault>>

FailWrite(p) == Throw(p, "WRITE") \/ Throw(p, "FLUSH")

-----------------------------------------------------------------------------
(* The finally block. *)

ForgetsToKeep(p) == TRUE

\* if (!outputCommitted)
Discards(p) == ~committed[p]

CloseOutput(p) ==
  /\ Goto(p, "CLOSE", IF Discards(p) THEN "UNLINK" ELSE "CLEANUP")
  /\ UNCHANGED <<args, committed, workspace, exit, files, reservations, invocations, fault>>

\* close rejects: what remains of the finally block is skipped.
FailClose(p) ==
  /\ Goto(p, "CLOSE", "ENDED")
  /\ exit' = [exit EXCEPT ![p] = "ERROR"]
  /\ fault' = [fault EXCEPT ![p] = @ \cup {"CLOSE"}]
  /\ UNCHANGED <<args, committed, workspace, files, reservations, invocations>>

UnlinkOutput(p) ==
  /\ Goto(p, "UNLINK", "CLEANUP")
  /\ blueprint' = [blueprint EXCEPT ![out[p]] = "ABSENT"]
  /\ claimant' = [claimant EXCEPT ![out[p]] = NoOne]
  /\ UNCHANGED <<args, committed, workspace, exit, reservations, invocations, fault>>

\* .catch(() => undefined): a failing unlink is not reported.
FailUnlink(p) ==
  /\ Goto(p, "UNLINK", "CLEANUP")
  /\ fault' = [fault EXCEPT ![p] = @ \cup {"UNLINK"}]
  /\ UNCHANGED <<args, committed, workspace, exit, files, reservations, invocations>>

\* The value the try block returned, or the error it threw.
TryOutcome(p) == IF committed[p] THEN "COMPLETED" ELSE "ERROR"

\* workspace?.cleanup(), then the command ends.
Cleanup(p) ==
  /\ Goto(p, "CLEANUP", "ENDED")
  /\ workspace' = [workspace EXCEPT ![p] = IF @ = "LIVE" THEN "REMOVED" ELSE @]
  /\ exit' = [exit EXCEPT ![p] = TryOutcome(p)]
  /\ UNCHANGED <<args, committed, files, reservations, invocations, fault>>

\* A cleanup that fails replaces the outcome of the try block by its error.
FailCleanup(p) ==
  /\ workspace[p] = "LIVE"
  /\ Goto(p, "CLEANUP", "ENDED")
  /\ exit' = [exit EXCEPT ![p] = "ERROR"]
  /\ fault' = [fault EXCEPT ![p] = @ \cup {"CLEANUP"}]
  /\ UNCHANGED <<args, committed, workspace, files, reservations, invocations>>

\* The process is killed between two steps: no finally block runs.
Kill(p) ==
  /\ pc[p] \notin {"ENDED", "KILLED"}
  /\ pc' = [pc EXCEPT ![p] = "KILLED"]
  /\ UNCHANGED <<args, committed, workspace, exit, files, reservations, invocations, fault>>

-----------------------------------------------------------------------------

Succeed(p) ==
  \/ PassChecks(p) \/ ClaimBlueprintOutput(p) \/ CreateWorkspace(p)
  \/ OpenReservation(p) \/ WriteReservation(p) \/ Invoke(p) \/ RunCompleted(p)
  \/ BeginWrite(p) \/ FinishWrite(p)

Fail(p) ==
  \/ FailChecks(p) \/ RefuseClaim(p) \/ FailWorkspace(p) \/ RefuseReservation(p)
  \/ FailReservation(p) \/ RunError(p) \/ FailWrite(p)

Epilogue(p) ==
  \/ CloseOutput(p) \/ FailClose(p) \/ UnlinkOutput(p) \/ FailUnlink(p)
  \/ Cleanup(p) \/ FailCleanup(p)

Run(p) == Succeed(p) \/ Fail(p) \/ Epilogue(p)

Next == \E p \in Process : Run(p) \/ Kill(p)

Spec == Init /\ [][Next]_vars

\* A process that is not killed is scheduled until its command ends: Node
\* settles every await, and the provider call is bounded by its timeout.
FairSpec == Spec /\ \A p \in Process : WF_vars(Run(p))

-----------------------------------------------------------------------------
(* What the command promises. *)

Stopped(p) == pc[p] \in {"ENDED", "KILLED"}

\* A campaign pays for one provider invocation, however many processes are
\* given it, wherever they fail and whenever they are killed.
AtMostOneInvocation == \A c \in Campaign : invocations[c] <= 1

\* The provider is called only after the whole reservation of a path-safe
\* campaign is on disk: a kill during the call cannot lose the fact.
InvocationIsRecorded ==
  \A c \in Campaign :
    invocations[c] > 0 => c \in PathSafeCampaign /\ record[c] = "WRITTEN"

\* A process spends a campaign only while the file that is to receive the
\* blueprint exists and is its own: budget is never paid for an output that
\* another process, or an earlier file, already occupies.
SpendsOnlyUnderClaim ==
  \A p \in Process :
    pc[p] \in {"RECORD", "INVOKE", "AWAIT", "WRITE", "FLUSH"} =>
      /\ claimant[out[p]] = p
      /\ blueprint[out[p]] \in {"EMPTY", "PARTIAL"}

\* A command that reports COMPLETED has delivered: the whole blueprint is at
\* its output, written by itself, paid for by its own reservation, and its
\* workspace is gone.  No later command takes any of that back.
CompletedMeansDelivered ==
  \A p \in Process :
    exit[p] = "COMPLETED" =>
      /\ blueprint[out[p]] = "COMPLETE" /\ claimant[out[p]] = p
      /\ reserver[campaign[p]] = p /\ invocations[campaign[p]] = 1
      /\ workspace[p] = "REMOVED"

\* An unfinished output survives its process only when the process was killed
\* or its close or its (silent) unlink failed: every other error path, from
\* the workspace to the write, removes the claim again.
LeftoverHasACause ==
  \A o \in Output :
    blueprint[o] \in {"EMPTY", "PARTIAL"} =>
      \/ ~Stopped(claimant[o])
      \/ pc[claimant[o]] = "KILLED"
      \/ fault[claimant[o]] \cap {"CLOSE", "UNLINK"} # {}

\* A file is written and removed only by the process that created it, and
\* neither a delivered blueprint nor a file that was there before any command
\* is ever touched, although unlink goes by path and not by handle.
FilesAreOwned ==
  [][\A o \in Output :
       blueprint[o] # "ABSENT" /\ blueprint'[o] # blueprint[o] =>
         /\ blueprint[o] \in {"EMPTY", "PARTIAL"}
         /\ pc'[claimant[o]] # pc[claimant[o]]]_vars

\* Every command ends unless it is killed; a failing provider call does not
\* make it call again.
EveryCommandEnds == \A p \in Process : <>Stopped(p)

\* The command implements the invocation budget: a reservation file is the
\* holder of a campaign and outlives its process.
Budget == INSTANCE InvocationBudget WITH
  Key <- Campaign, Actor <- Process, Nobody <- NoOne,
  holder <- reserver, spent <- invocations

ImplementsBudget == Budget!Spec

-----------------------------------------------------------------------------
(* The inductive invariant behind the safety properties. *)

\* A process inside its try block, or about to undo it, owns its output.
ClaimHeld ==
  \A p \in Process :
    /\ pc[p] \in {"START", "CLAIM", "WORKSPACE", "RESERVE", "RECORD", "INVOKE",
                  "AWAIT", "WRITE", "FLUSH", "UNLINK"} => ~committed[p]
    /\ \/ pc[p] \in {"WORKSPACE", "RESERVE", "RECORD", "INVOKE", "AWAIT", "WRITE",
                     "FLUSH", "UNLINK"}
       \/ pc[p] = "CLOSE" /\ ~committed[p]
       => claimant[out[p]] = p /\ blueprint[out[p]] \in {"EMPTY", "PARTIAL"}

\* A process past its reservation owns its campaign and has spent it no more
\* often than its position says.
CampaignHeld ==
  \A p \in Process :
    /\ pc[p] \in {"RECORD", "INVOKE", "AWAIT", "WRITE", "FLUSH"} =>
         reserver[campaign[p]] = p /\ campaign[p] \in PathSafeCampaign
    /\ pc[p] \in {"RECORD", "INVOKE"} => invocations[campaign[p]] = 0
    /\ pc[p] = "INVOKE" => record[campaign[p]] = "WRITTEN"
    /\ pc[p] \in {"AWAIT", "WRITE", "FLUSH"} => invocations[campaign[p]] = 1

\* A campaign without a reservation file was never reserved nor spent.
CampaignFresh ==
  \A c \in Campaign :
    record[c] = "ABSENT" => reserver[c] = NoOne /\ invocations[c] = 0

\* What a process committed stays as it left it.
DeliveryKept ==
  \A p \in Process :
    committed[p] =>
      /\ pc[p] \in {"CLOSE", "CLEANUP", "ENDED", "KILLED"}
      /\ blueprint[out[p]] = "COMPLETE" /\ claimant[out[p]] = p
      /\ reserver[campaign[p]] = p /\ invocations[campaign[p]] = 1

\* A workspace lives from its creation to the cleanup.
WorkspaceHeld ==
  \A p \in Process :
    /\ pc[p] \in {"RESERVE", "RECORD", "INVOKE", "AWAIT", "WRITE", "FLUSH"} =>
         workspace[p] = "LIVE"
    /\ pc[p] \in {"CLOSE", "CLEANUP"} /\ committed[p] => workspace[p] = "LIVE"
    /\ exit[p] # "NONE" => pc[p] = "ENDED"
    /\ exit[p] = "COMPLETED" => committed[p] /\ workspace[p] = "REMOVED"

\* The conjunction that every step of every process preserves; the safety
\* properties above follow from it.
CommandInvariant ==
  /\ TypeOK
  /\ ClaimHeld /\ CampaignHeld /\ CampaignFresh /\ DeliveryKept /\ WorkspaceHeld
  /\ AtMostOneInvocation /\ InvocationIsRecorded

\* What a command promises while it runs and after it ended: one recorded
\* invocation of a campaign, paid under a claim, and delivered if reported.
CommandIsSafe == CommandInvariant /\ SpendsOnlyUnderClaim /\ CompletedMeansDelivered
=============================================================================
