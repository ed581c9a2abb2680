--------------------------- MODULE ContentIdentity ---------------------------
(***************************************************************************)
(* The reviewed-content identity: one command collects what a working tree *)
(* shows against a base commit twice, file by file, beside an editor that  *)
(* goes on writing and staging, and emits the second pair of manifests     *)
(* when both collections agree.                                            *)
(*                                                                         *)
(* A path has a history: the contents it shows one after the other, each   *)
(* with metadata of its own (the change time moves with every write).      *)
(* Ignored files, submodules and unmerged entries are left out: the first  *)
(* are never listed, the others make the command fail at once.             *)
(***************************************************************************)
EXTENDS Integers, Sequences

CONSTANTS
    Path,       \* every path that is ever listed
    IndexPath,  \* docs/execplans/README.md, which names the active plan
    Plans,      \* the direct children of docs/execplans that are plans
    Rank,       \* the bytewise order of the paths
    Directory,  \* the directories of the working tree
    Parent,     \* Parent[p]: the directory that holds p
    Above,      \* Above[p]: every directory on the way to p
    Base,       \* Base[p]: the content of p in the base commit
    History,    \* History[p]: what the working tree shows at p, in turn
    Restaged,   \* bound: the paths the editor stages and unstages
    Nothing,    \* no entry
    NoPlan      \* an index without exactly one canonical Active row

(***************************************************************************)
(* What an entry shows.  Of a plan: the text outside the four partitioned  *)
(* sections (material), the Existing Context (context), the other three    *)
(* (log), the revision the whole text declares (0 for none), and whether   *)
(* the four headings are there once each, at most once each, or repeated.  *)
(* Of the index: the plan it names.  Of any other path only mode and       *)
(* material tell two contents apart.                                       *)
(***************************************************************************)
Modes == {"100644", "100755", "120000", "unsupported"}
Content == [mode : Modes, material : Nat, context : Nat, log : Nat,
            revision : Nat, sections : {"each", "some", "repeated"},
            names : Plans \cup {NoPlan}]
Shown == Content \cup {Nothing}

ASSUME NothingAssumption == Nothing \notin Content /\ NoPlan \notin Path
ASSUME PathAssumption ==
    /\ IndexPath \in Path /\ Plans \subseteq Path \ {IndexPath}
    /\ Parent \in [Path -> Directory]
    /\ Above \in [Path -> SUBSET Directory]
    /\ \A p \in Path : Parent[p] \in Above[p]
ASSUME RankAssumption ==
    /\ Rank \in [Path -> Nat]
    /\ \A p, q \in Path : Rank[p] = Rank[q] => p = q
ASSUME HistoryAssumption ==
    /\ Base \in [Path -> Shown]
    /\ History \in [Path -> Seq(Shown)]
    /\ \A p \in Path : Len(History[p]) >= 1

(* A mutant: the index is not part of the material manifest.               *)
MaterialWithoutIndex(p, active, c) ==
    IF c = Nothing \/ p = IndexPath THEN Nothing
    ELSE IF p \notin Plans THEN c
    ELSE [c EXCEPT !.context = 0, !.log = 0, !.revision = 0,
                   !.sections = IF p = active THEN "each" ELSE "some"]

(***************************************************************************)
(* The two manifests, entry by entry.  In the material text of the active  *)
(* plan a marker stands where each section was, in that of another plan    *)
(* nothing does.  In the active plan the log is identity-neutral; in every *)
(* other plan it is operational evidence.                                  *)
(***************************************************************************)
Material(p, active, c) ==
    IF c = Nothing \/ p \notin Plans THEN c
    ELSE [c EXCEPT !.context = 0, !.log = 0, !.revision = 0,
                   !.sections = IF p = active THEN "each" ELSE "some"]

Operational(p, active, c) ==
    IF c = Nothing \/ p \notin Plans THEN Nothing
    ELSE [c EXCEPT !.mode = "100644", !.material = 0, !.revision = 0,
                   !.log = IF p = active THEN 0 ELSE c.log]

Revision(c) == IF c = Nothing THEN 0 ELSE c.revision

(* A content that was replaced does not come back: the command promises    *)
(* an observable stability, not protection from an A-B-A change.           *)
ASSUME NoReturn ==
    \A p \in Path, active \in Plans : \A i, j, n \in 1 .. Len(History[p]) :
        i <= j /\ j <= n =>
            LET a == History[p][i]
                b == History[p][j]
                c == History[p][n]
            IN /\ Material(p, active, a) = Material(p, active, c)
                    => Material(p, active, a) = Material(p, active, b)
               /\ Operational(p, active, a) = Operational(p, active, c)
                    => Operational(p, active, a) = Operational(p, active, b)
               /\ Revision(a) = Revision(c) => Revision(a) = Revision(b)

VARIABLES
    at,       \* at[p]: how far the history of p has come
    staged,   \* the paths in the git index
    pc,       \* the step the command takes next
    k,        \* 1 or 2: the collection under way
    listed,   \* the candidate paths of this collection
    todo,     \* those whose entry is still to be read
    look,     \* the version the first stat of the entry found
    bytes,    \* the version the bytes came from
    stale,    \* the entry or a directory above it changed since that stat
    plan,     \* plan[c]: the active plan collection c discovered
    seen,     \* seen[c][p]: the versions collection c took mode and bytes from
    between,  \* history: the tree when the first collection ended
    slipped   \* history: staged after the index and before the rest was listed

tree == <<at, staged>>
reading == <<look, bytes, stale>>
vars == <<at, staged, pc, k, listed, todo, look, bytes, stale, plan, seen,
          between, slipped>>

Now(p) == History[p][at[p]]

(* The mode comes from the stat, everything else from the bytes.           *)
Entry(p, s, b) ==
    IF History[p][b] = Nothing THEN Nothing
    ELSE [History[p][b] EXCEPT !.mode = History[p][s].mode]

IsRead(c, p) == seen[c][p].stat # 0
Candidate(c, p) ==
    IF ~IsRead(c, p) THEN Nothing ELSE Entry(p, seen[c][p].stat, seen[c][p].bytes)

(* An entry that is as in the base commit is not part of a manifest.       *)
Delta(base, candidate) == {candidate} \ {base}

MaterialManifest(c) ==
    [p \in Path |-> Delta(Material(p, plan[c], Base[p]),
                          Material(p, plan[c], Candidate(c, p)))]
OperationalManifest(c) ==
    [p \in Path |-> Delta(Operational(p, plan[c], Base[p]),
                          Operational(p, plan[c], Candidate(c, p)))]

(* A mutant: the revision is not compared.                                 *)
AgreeButForRevision ==
    /\ plan[1] = plan[2]
    /\ MaterialManifest(1) = MaterialManifest(2)
    /\ OperationalManifest(1) = OperationalManifest(2)

CollectionsAgree ==
    /\ plan[1] = plan[2]
    /\ MaterialManifest(1) = MaterialManifest(2)
    /\ OperationalManifest(1) = OperationalManifest(2)
    /\ Revision(Candidate(1, plan[1])) = Revision(Candidate(2, plan[2]))

(* A plan must be a regular file; the active one has the four sections     *)
(* once each and a revision, an inactive one repeats none.  The base's     *)
(* version of a plan is partitioned in the same way.                       *)
Partitions(p, active, c) ==
    \/ c = Nothing \/ p \notin Plans
    \/ /\ c.sections = IF p = active THEN "each" ELSE c.sections
       /\ c.sections # "repeated"
Acceptable(p, active, c) ==
    /\ Partitions(p, active, Base[p])
    /\ Partitions(p, active, c)
    /\ p \in Plans /\ c # Nothing =>
          /\ c.mode # "120000"
          /\ p = active => c.revision > 0

(***************************************************************************)
(* The command.                                                            *)
(***************************************************************************)
Unread == [p \in Path |-> [stat |-> 0, bytes |-> 0]]

Init ==
    /\ at = [p \in Path |-> 1]
    /\ staged = {p \in Path : Base[p] # Nothing}
    /\ pc = "start" /\ k = 1
    /\ listed = {} /\ todo = {}
    /\ look = 0 /\ bytes = 0 /\ stale = FALSE
    /\ plan = [c \in {1, 2} |-> NoPlan]
    /\ seen = [c \in {1, 2} |-> Unread]
    /\ between = at
    /\ slipped = {}

Forget == look' = 0 /\ bytes' = 0 /\ stale' = FALSE

(* No manifest is emitted; what was collected is gone with the process.    *)
Fail ==
    /\ pc' = "failed"
    /\ listed' = {} /\ todo' = {}
    /\ Forget
    /\ plan' = [c \in {1, 2} |-> NoPlan]
    /\ seen' = [c \in {1, 2} |-> Unread]
    /\ UNCHANGED <<tree, k, between, slipped>>

(* The arguments, the root of the worktree, the base commit and the        *)
(* identity contract are those the command knows, or it gives up.          *)
Begin ==
    /\ pc = "start" /\ pc' = "index"
    /\ UNCHANGED <<tree, k, listed, todo, reading, plan, seen, between, slipped>>

Refuse == pc = "start" /\ Fail

(* git ls-tree of the base and git ls-files --stage.                       *)
ListIndex ==
    /\ pc = "index"
    /\ listed' = {p \in Path : Base[p] # Nothing} \cup staged
    /\ pc' = "untracked"
    /\ UNCHANGED <<tree, k, todo, reading, plan, seen, between, slipped>>

(* git ls-files --others, then the check that the index file is there.     *)
ListUntracked ==
    /\ pc = "untracked"
    /\ LET all == listed \cup {p \in Path \ staged : Now(p) # Nothing}
       IN IF IndexPath \notin all THEN Fail
          ELSE /\ listed' = all
               /\ pc' = "look"
               /\ UNCHANGED <<tree, k, todo, reading, plan, seen, between, slipped>>

(* The entry being read: first the index, to discover the active plan,     *)
(* then every listed path in order, the index once more among them.        *)
Discovering == plan[k] = NoPlan
IsNext(p) == IF Discovering THEN p = IndexPath
             ELSE p \in todo /\ \A q \in todo : Rank[p] <= Rank[q]

(* The stat of the entry, after one of every directory above it.  The      *)
(* descriptor is opened without following a link and stat'ed again: a      *)
(* change before that makes the command fail as a later one does.          *)
Look(p) ==
    /\ pc = "look" /\ IsNext(p)
    /\ CASE Now(p) = Nothing /\ ~Discovering ->
                /\ IF Acceptable(p, plan[k], Nothing)
                   THEN /\ seen' = [seen EXCEPT ![k][p] = [stat |-> at[p], bytes |-> at[p]]]
                        /\ todo' = todo \ {p}
                        /\ UNCHANGED <<tree, pc, k, listed, reading, plan, between, slipped>>
                   ELSE Fail
         [] Now(p) = Nothing /\ Discovering -> Fail
         [] Now(p) # Nothing /\ Now(p).mode = "unsupported" -> Fail
         [] OTHER ->
                /\ look' = at[p] /\ stale' = FALSE
                /\ pc' = "read"
                /\ UNCHANGED <<tree, k, listed, todo, bytes, plan, seen, between, slipped>>

(* An entry that was replaced under the open descriptor still yields the   *)
(* old bytes, one that was rewritten in place yields the new ones.  A link *)
(* has no descriptor: it must still be one.                                *)
Read(p) ==
    /\ pc = "read" /\ IsNext(p)
    /\ IF History[p][look].mode = "120000"
       THEN IF Now(p) = Nothing THEN Fail
            ELSE IF Now(p).mode # "120000" THEN Fail
            ELSE /\ bytes' = at[p] /\ pc' = "confirm"
                 /\ UNCHANGED <<tree, k, listed, todo, look, stale, plan, seen, between, slipped>>
       ELSE /\ bytes' \in {v \in {look, at[p]} : History[p][v] # Nothing}
            /\ pc' = "confirm"
            /\ UNCHANGED <<tree, k, listed, todo, look, stale, plan, seen, between, slipped>>

(* A mutant: the metadata are not compared after the read.                 *)
NeverStale == TRUE
(* The entry and every directory above it must still have the metadata of  *)
(* the first stat.                                                         *)
Confirmed == ~stale

Discover(c) ==
    IF \/ c.mode = "120000"
       \/ c.names \notin listed
    THEN Fail
    ELSE /\ plan' = [plan EXCEPT ![k] = c.names]
         /\ todo' = listed
         /\ pc' = "look" /\ Forget
         /\ UNCHANGED <<tree, k, listed, seen, between, slipped>>

Accept(p, c) ==
    IF Acceptable(p, plan[k], c)
    THEN /\ seen' = [seen EXCEPT ![k][p] = [stat |-> look, bytes |-> bytes]]
         /\ todo' = todo \ {p}
         /\ pc' = "look" /\ Forget
         /\ UNCHANGED <<tree, k, listed, plan, between, slipped>>
    ELSE Fail

Confirm(p) ==
    /\ pc = "confirm" /\ IsNext(p)
    /\ IF ~Confirmed THEN Fail
       ELSE IF Discovering THEN Discover(Entry(p, look, bytes))
       ELSE Accept(p, Entry(p, look, bytes))

(* The end of a collection: the plan the index named must have been read.  *)
Finish ==
    /\ pc = "look" /\ ~Discovering /\ todo = {}
    /\ IF Candidate(k, plan[k]) = Nothing THEN Fail
       ELSE /\ IF k = 1
               THEN k' = 2 /\ pc' = "index" /\ between' = at /\ listed' = {}
               ELSE pc' = "compare" /\ UNCHANGED <<k, between, listed>>
            /\ UNCHANGED <<tree, todo, reading, plan, seen, slipped>>

Compare ==
    /\ pc = "compare"
    /\ IF CollectionsAgree
       THEN /\ pc' = "emitted"
            /\ UNCHANGED <<tree, k, listed, todo, reading, plan, seen, between, slipped>>
       ELSE Fail

Command ==
    \/ Begin \/ Refuse \/ ListIndex \/ ListUntracked \/ Finish \/ Compare
    \/ \E p \in Path : Look(p) \/ Read(p) \/ Confirm(p)

(***************************************************************************)
(* The editor.  A file that is created, removed or replaced changes the    *)
(* directory that holds it; one that is rewritten in place need not.  The  *)
(* second look at the entry and at every directory above it detects both.  *)
(***************************************************************************)
Touches(p, moved) ==
    \E q \in Path : IsNext(q) /\ (q = p \/ (moved /\ Parent[p] \in Above[q]))

Edit(p) ==
    /\ at[p] < Len(History[p])
    /\ at' = [at EXCEPT ![p] = @ + 1]
    /\ \E moved \in BOOLEAN :
         /\ (Now(p) = Nothing \/ History[p][at[p] + 1] = Nothing) => moved
         /\ stale' = \/ stale
                     \/ pc \in {"read", "confirm"} /\ Touches(p, moved)
    /\ UNCHANGED <<staged, pc, k, listed, todo, look, bytes, plan, seen, between, slipped>>

(* git add and git rm --cached.                                            *)
Stage(p) ==
    /\ p \in Restaged \ staged /\ Now(p) # Nothing
    /\ staged' = staged \cup {p}
    /\ slipped' = IF pc = "untracked" THEN slipped \cup {p} ELSE slipped
    /\ UNCHANGED <<at, pc, k, listed, todo, reading, plan, seen, between>>

Unstage(p) ==
    /\ p \in Restaged \cap staged
    /\ staged' = staged \ {p}
    /\ UNCHANGED <<at, pc, k, listed, todo, reading, plan, seen, between, slipped>>

(* What happens after the command ended is of no account here.             *)
Editor ==
    /\ pc \notin {"emitted", "failed"}
    /\ \E p \in Path : Edit(p) \/ Stage(p) \/ Unstage(p)

Next == Command \/ Editor

Spec == Init /\ [][Next]_vars

(***************************************************************************)
(* Properties.                                                             *)
(***************************************************************************)
Steps == {"start", "index", "untracked", "look", "read", "confirm", "compare",
          "emitted", "failed"}
Versions(p) == 1 .. Len(History[p])

TypeOK ==
    /\ at \in [Path -> Nat] /\ \A p \in Path : at[p] \in Versions(p)
    /\ between \in [Path -> Nat] /\ \A p \in Path : between[p] \in 1 .. at[p]
    /\ staged \subseteq Path /\ listed \subseteq Path /\ todo \subseteq listed
    /\ slipped \subseteq Path
    /\ pc \in Steps /\ k \in {1, 2} /\ stale \in BOOLEAN
    /\ plan \in [{1, 2} -> Plans \cup {NoPlan}]
    /\ look \in Nat /\ bytes \in Nat
    /\ seen \in [{1, 2} -> [Path -> [stat : Nat, bytes : Nat]]]

(***************************************************************************)
(* The collector's invariant.                                              *)
(***************************************************************************)
(* Where the versions of collection c lie in the history of p.             *)
Earliest(c, p) == IF c = 1 THEN 1 ELSE between[p]
Latest(c, p) == IF c = 1 /\ k = 2 THEN between[p] ELSE at[p]
Period(c, p) == Earliest(c, p) .. Latest(c, p)

Listing == {"look", "read", "confirm", "compare", "emitted"}

(* Mode and bytes of an entry are of one version.                          *)
EntriesAreWhole ==
    \A c \in {1, 2} : \A p \in Path :
        IsRead(c, p) =>
            /\ seen[c][p].stat = seen[c][p].bytes
            /\ seen[c][p].stat \in Period(c, p)

(* An entry whose metadata are still those of the stat is as it was then.  *)
FreshMeansCurrent ==
    pc \in {"read", "confirm"} /\ ~stale =>
        \A p \in Path : IsNext(p) =>
            /\ look = at[p] /\ Now(p) # Nothing
            /\ pc = "confirm" => bytes = at[p]

(* A path that is not listed was not there at some moment of the listing,  *)
(* unless it slipped through.                                              *)
UnlistedWasAbsent ==
    /\ pc = "untracked" =>
          \A p \in Path \ listed : p \in staged => p \in slipped
    /\ pc \in Listing =>
          /\ IndexPath \in listed
          /\ \A p \in Path \ (listed \cup slipped) :
                \E v \in Period(k, p) : History[p][v] = Nothing

(* Whatever is listed and no longer to do has been read.                   *)
ReadSoFar ==
    /\ pc \in Listing /\ ~Discovering =>
          \A p \in listed \ todo : IsRead(k, p)
    /\ \A c \in {1, 2} : plan[c] = NoPlan => seen[c] = Unread
    /\ k = 1 => plan[2] = NoPlan /\ pc \notin {"compare", "emitted"}
    /\ pc \in {"start", "index", "untracked"} => todo = {} /\ Discovering
    /\ pc \in {"compare", "emitted"} => plan[2] # NoPlan /\ todo = {}

(* What a collection that has ended shows of a path was in the tree during *)
(* that collection.                                                        *)
Ended(c) == pc # "failed" /\ (k > c \/ pc \in {"compare", "emitted"})
EndedCollectionsAreReal ==
    \A c \in {1, 2} : Ended(c) =>
        /\ IsRead(c, IndexPath)
        /\ \A p \in Path \ slipped :
              \E v \in Period(c, p) : History[p][v] = Candidate(c, p)

(* The second collection discovers the plan before it reads the index.     *)
DiscoveredFromTheIndex ==
    plan[2] # NoPlan =>
        \E d \in between[IndexPath] .. at[IndexPath] :
            /\ History[IndexPath][d] # Nothing
            /\ History[IndexPath][d].names = plan[2]
            /\ IsRead(2, IndexPath) => d <= seen[2][IndexPath].stat

(* The mode and the bytes of an entry are of one version, a version of the *)
(* period of its collection, and what was not listed was absent then       *)
(* (candidateEntry, collectManifests).  With every type and with where the *)
(* collector stands, this is the inductive strengthening of the            *)
(* properties below.                                                       *)
CollectorInvariant ==
    /\ TypeOK
    /\ EntriesAreWhole /\ FreshMeansCurrent
    /\ UnlistedWasAbsent /\ ReadSoFar
    /\ EndedCollectionsAreReal /\ DiscoveredFromTheIndex

(* What EntriesAreWhole means for a reader, and what is proved from it:    *)
(* every entry of a collection is a content the path really had; the mode  *)
(* and the bytes are never those of two different moments, though the      *)
(* entry is read in steps beside the editor.                               *)
EntryIsWhole ==
    \A c \in {1, 2} : \A p \in Path :
        IsRead(c, p) =>
            \E v \in 1 .. at[p] : Candidate(c, p) = History[p][v]

(* What is emitted is what the whole tree showed at one instant, the one   *)
(* between the two collections, although no step reads more than one file: *)
(* same material and operational evidence at every path, and the revision  *)
(* the active plan had then.  Only a path that was staged after the index  *)
(* and before the untracked files were listed can be missing.              *)
EmittedIsASnapshot ==
    pc = "emitted" =>
        /\ \A p \in Path \ slipped :
              LET then == History[p][between[p]]
              IN /\ Material(p, plan[2], Candidate(2, p)) = Material(p, plan[2], then)
                 /\ Operational(p, plan[2], Candidate(2, p)) = Operational(p, plan[2], then)
        /\ plan[2] \notin slipped =>
              Revision(Candidate(2, plan[2])) = Revision(History[plan[2]][between[plan[2]]])

(* The plan the identity is bound to is the one that the emitted index     *)
(* names: discovery reads the index, the collection reads it again, and an *)
(* index that is switched in between is never mixed with the other plan's  *)
(* partitions.                                                             *)
BoundToListedPlan ==
    pc = "emitted" => Candidate(2, IndexPath).names = plan[2]
=============================================================================
