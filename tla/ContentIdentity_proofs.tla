------------------------ MODULE ContentIdentity_proofs ------------------------
(***************************************************************************)
(* Proofs about the reviewed-content identity: the collector's invariant   *)
(* holds for any tree, history and order of paths, hence an emitted        *)
(* identity is that of one instant and bound to the plan its index names.  *)
(***************************************************************************)
EXTENDS ContentIdentity, TLAPS

USE PathAssumption

(* A manifest determines the projection of every entry, whether the entry  *)
(* is listed in it or is as in the base commit.                            *)
LEMMA DeltaDetermines ==
    ASSUME NEW base, NEW a, NEW b, Delta(base, a) = Delta(base, b)
    PROVE  a = b
BY DEF Delta

(* An entry whose mode and bytes are of one version is that version.       *)
LEMMA EntryOfOneVersion ==
    ASSUME NEW p \in Path, NEW v \in Versions(p)
    PROVE  Entry(p, v, v) = History[p][v]
<1>1. History[p][v] \in Shown
  BY HistoryAssumption DEF Versions
<1>2. History[p][v] = Nothing \/ History[p][v] \in Content
  BY <1>1 DEF Shown
<1>3. CASE History[p][v] = Nothing
  BY <1>3 DEF Entry
<1>4. CASE History[p][v] \in Content
  BY <1>4 DEF Entry, Content
<1>5. QED  BY <1>2, <1>3, <1>4

(* The rank leaves one path to read next.                                  *)
LEMMA NextIsUnique ==
    ASSUME TypeOK, NEW p \in Path, NEW q \in Path, IsNext(p), IsNext(q)
    PROVE  p = q
<1>1. CASE Discovering
  BY <1>1 DEF IsNext
<1>2. CASE ~Discovering
  <2>1. Rank[p] <= Rank[q] /\ Rank[q] <= Rank[p]
    BY <1>2 DEF IsNext
  <2>2. Rank[p] \in Nat /\ Rank[q] \in Nat
    BY RankAssumption
  <2>3. Rank[p] = Rank[q]
    BY <2>1, <2>2
  <2>4. QED  BY <2>3, RankAssumption
<1>3. QED  BY <1>1, <1>2

LEMMA InitInvariant == Init => CollectorInvariant
<1> SUFFICES ASSUME Init PROVE CollectorInvariant
  OBVIOUS
<1>1. TypeOK
  <2>1. at \in [Path -> Nat] /\ \A p \in Path : at[p] = 1 /\ at[p] \in Versions(p)
    BY HistoryAssumption DEF Init, Versions
  <2>2. between \in [Path -> Nat] /\ \A p \in Path : between[p] \in 1 .. at[p]
    BY <2>1 DEF Init
  <2>3. seen \in [{1, 2} -> [Path -> [stat : Nat, bytes : Nat]]]
    BY DEF Init, Unread
  <2>4. plan \in [{1, 2} -> Plans \cup {NoPlan}]
    BY DEF Init
  <2>5. staged \subseteq Path /\ listed \subseteq Path /\ todo \subseteq listed /\ slipped \subseteq Path
    BY DEF Init
  <2>6. pc \in Steps /\ k \in {1, 2} /\ stale \in BOOLEAN /\ look \in Nat /\ bytes \in Nat
    BY DEF Init, Steps
  <2>7. QED  BY <2>1, <2>2, <2>3, <2>4, <2>5, <2>6 DEF TypeOK
<1>2. EntriesAreWhole
  BY DEF Init, EntriesAreWhole, IsRead, Unread
<1>3. FreshMeansCurrent /\ UnlistedWasAbsent /\ ReadSoFar
  BY DEF Init, FreshMeansCurrent, UnlistedWasAbsent, Listing, ReadSoFar, Discovering
<1>4. EndedCollectionsAreReal
  BY DEF Init, EndedCollectionsAreReal, Ended
<1>5. DiscoveredFromTheIndex
  BY DEF Init, DiscoveredFromTheIndex
<1>6. QED  BY <1>1, <1>2, <1>3, <1>4, <1>5 DEF CollectorInvariant

(* A command that gives up keeps the invariant: nothing it collected is    *)
(* left.                                                                   *)
LEMMA FailKeeps ==
    ASSUME CollectorInvariant, Fail
    PROVE  CollectorInvariant'
<1> USE DEF CollectorInvariant
<1>1. TypeOK'
  BY DEF TypeOK, Fail, Forget, Unread, Steps, tree, Versions
<1>2. EntriesAreWhole'
  BY DEF EntriesAreWhole, IsRead, Fail, Unread
<1>3. FreshMeansCurrent' /\ UnlistedWasAbsent'
  BY DEF Fail, FreshMeansCurrent, UnlistedWasAbsent, Listing
<1>4. ReadSoFar'
  BY DEF Fail, ReadSoFar, Listing, TypeOK
<1>5. EndedCollectionsAreReal'
  BY DEF Fail, EndedCollectionsAreReal, Ended
<1>6. DiscoveredFromTheIndex'
  BY DEF Fail, DiscoveredFromTheIndex
<1>7. QED  BY <1>1, <1>2, <1>3, <1>4, <1>5, <1>6

LEMMA BeginKeeps ==
    ASSUME CollectorInvariant, Begin
    PROVE  CollectorInvariant'
<1> USE DEF CollectorInvariant
<1>0. /\ pc = "start" /\ pc' = "index"
      /\ UNCHANGED <<at, staged, k, listed, todo, look, bytes, stale, plan, seen, between, slipped>>
  BY DEF Begin, tree, reading
<1>1. TypeOK'
  BY <1>0 DEF TypeOK, Steps, Versions
<1>2. EntriesAreWhole' /\ FreshMeansCurrent' /\ UnlistedWasAbsent'
  BY <1>0 DEF EntriesAreWhole, IsRead, Period, Earliest, Latest, FreshMeansCurrent, UnlistedWasAbsent, Listing
<1>3. ReadSoFar' /\ DiscoveredFromTheIndex'
  BY <1>0 DEF ReadSoFar, Listing, Discovering, IsRead, DiscoveredFromTheIndex
<1>4. EndedCollectionsAreReal'
  BY <1>0 DEF EndedCollectionsAreReal, Ended, IsRead, Candidate, Entry, Period, Earliest, Latest
<1>5. QED  BY <1>1, <1>2, <1>3, <1>4

LEMMA ListIndexKeeps ==
    ASSUME CollectorInvariant, ListIndex
    PROVE  CollectorInvariant'
<1> USE DEF CollectorInvariant
<1>0. /\ pc = "index" /\ pc' = "untracked"
      /\ listed' = {p \in Path : Base[p] # Nothing} \cup staged
      /\ UNCHANGED <<at, staged, k, todo, look, bytes, stale, plan, seen, between, slipped>>
  BY DEF ListIndex, tree, reading
<1>1. TypeOK'
  BY <1>0 DEF TypeOK, Steps, Versions, ReadSoFar
<1>2. EntriesAreWhole'
  BY <1>0 DEF EntriesAreWhole, IsRead, Period, Earliest, Latest
<1>3. FreshMeansCurrent' /\ UnlistedWasAbsent'
  BY <1>0 DEF FreshMeansCurrent, UnlistedWasAbsent, Listing
<1>4. ReadSoFar'
  BY <1>0 DEF ReadSoFar, Listing, Discovering
<1>5. EndedCollectionsAreReal'
  BY <1>0 DEF EndedCollectionsAreReal, Ended, IsRead, Candidate, Entry, Period, Earliest, Latest
<1>6. DiscoveredFromTheIndex'
  BY <1>0 DEF DiscoveredFromTheIndex, IsRead
<1>7. QED  BY <1>1, <1>2, <1>3, <1>4, <1>5, <1>6

LEMMA ListUntrackedKeeps ==
    ASSUME CollectorInvariant, ListUntracked
    PROVE  CollectorInvariant'
<1> USE DEF CollectorInvariant
<1> DEFINE all == listed \cup {p \in Path \ staged : Now(p) # Nothing}
<1>a. CASE IndexPath \notin all
  BY <1>a, FailKeeps DEF ListUntracked
<1>b. CASE IndexPath \in all
  <2>0. /\ pc = "untracked" /\ pc' = "look" /\ listed' = all
        /\ UNCHANGED <<at, staged, k, todo, look, bytes, stale, plan, seen, between, slipped>>
    BY <1>b DEF ListUntracked, tree, reading
  <2>1. TypeOK'
    BY <2>0 DEF TypeOK, Steps, Versions
  <2>2. EntriesAreWhole'
    BY <2>0 DEF EntriesAreWhole, IsRead, Period, Earliest, Latest
  <2>3. FreshMeansCurrent'
    BY <2>0 DEF FreshMeansCurrent
  <2>4. UnlistedWasAbsent'
    <3> SUFFICES ASSUME NEW p \in Path, p \notin all, p \notin slipped
                 PROVE  \E v \in Period(k, p)' : History[p][v] = Nothing
      BY <1>b, <2>0 DEF UnlistedWasAbsent, Listing
    <3>1. p \notin staged
      BY <2>0 DEF UnlistedWasAbsent
    <3>2. History[p][at[p]] = Nothing
      BY <3>1 DEF Now
    <3>3. at[p] \in Period(k, p)'
      BY <2>0 DEF Period, Earliest, Latest, TypeOK, ReadSoFar
    <3>4. QED  BY <3>2, <3>3
  <2>5. ReadSoFar'
    BY <2>0 DEF ReadSoFar, Listing, Discovering
  <2>6. EndedCollectionsAreReal'
    BY <2>0 DEF EndedCollectionsAreReal, Ended, IsRead, Candidate, Entry, Period, Earliest, Latest
  <2>7. DiscoveredFromTheIndex'
    BY <2>0 DEF DiscoveredFromTheIndex, IsRead
  <2>8. QED  BY <2>1, <2>2, <2>3, <2>4, <2>5, <2>6, <2>7
<1>c. QED  BY <1>a, <1>b

(* The entry of one path is recorded as it now is: common to a missing     *)
(* entry and to one whose read was confirmed.                              *)
LEMMA RecordKeeps ==
    ASSUME CollectorInvariant, NEW p \in Path, IsNext(p), ~Discovering,
           pc \in {"look", "confirm"}, pc' = "look",
           seen' = [seen EXCEPT ![k][p] = [stat |-> at[p], bytes |-> at[p]]],
           todo' = todo \ {p},
           look' \in Nat, bytes' \in Nat, stale' \in BOOLEAN,
           UNCHANGED <<at, staged, k, listed, plan, between, slipped>>
    PROVE  CollectorInvariant'
<1> USE DEF CollectorInvariant
<1>0. /\ ~Discovering /\ pc \in {"look", "confirm"} /\ pc' = "look" /\ IsNext(p)
      /\ seen' = [seen EXCEPT ![k][p] = [stat |-> at[p], bytes |-> at[p]]]
      /\ todo' = todo \ {p}
      /\ look' \in Nat /\ bytes' \in Nat /\ stale' \in BOOLEAN
      /\ UNCHANGED <<at, staged, k, listed, plan, between, slipped>>
  OBVIOUS
<1>1. TypeOK'
  <2>1. seen' \in [{1, 2} -> [Path -> [stat : Nat, bytes : Nat]]]
    BY <1>0 DEF TypeOK
  <2>2. todo' \subseteq listed' /\ pc' \in Steps
    BY <1>0 DEF TypeOK, Steps
  <2>3. QED  BY <1>0, <2>1, <2>2 DEF TypeOK, Versions
<1>2. at[p] \in Nat /\ at[p] # 0 /\ between[p] \in Nat /\ between[p] <= at[p] /\ k \in {1, 2}
  BY DEF TypeOK, Versions
<1>3. /\ \A c \in {1, 2}, q \in Path : ~(c = k /\ q = p) => seen'[c][q] = seen[c][q]
      /\ seen'[k][p] = [stat |-> at[p], bytes |-> at[p]]
  BY <1>0 DEF TypeOK
<1>4. EntriesAreWhole'
  <2> SUFFICES ASSUME NEW c \in {1, 2}, NEW q \in Path, IsRead(c, q)'
               PROVE  /\ seen'[c][q].stat = seen'[c][q].bytes
                      /\ seen'[c][q].stat \in Period(c, q)'
    BY DEF EntriesAreWhole
  <2>1. Period(c, q)' = Period(c, q)
    BY <1>0 DEF Period, Earliest, Latest
  <2>2. CASE c = k /\ q = p
    <3>1. at[p] \in Period(k, p)
      BY <1>2 DEF Period, Earliest, Latest, TypeOK, Versions
    <3>2. QED  BY <1>3, <2>1, <2>2, <3>1
  <2>3. CASE ~(c = k /\ q = p)
    BY <1>3, <2>1, <2>3 DEF EntriesAreWhole, IsRead
  <2>4. QED  BY <2>2, <2>3
<1>5. FreshMeansCurrent'
  BY <1>0 DEF FreshMeansCurrent
<1>6. UnlistedWasAbsent'
  BY <1>0 DEF UnlistedWasAbsent, Listing, Period, Earliest, Latest
<1>7. ReadSoFar'
  BY <1>0, <1>2, <1>3 DEF ReadSoFar, Listing, Discovering, IsRead, TypeOK
<1>8. EndedCollectionsAreReal'
  <2> SUFFICES ASSUME NEW c \in {1, 2}, Ended(c)
               PROVE  /\ IsRead(c, IndexPath)'
                      /\ \A q \in Path \ slipped :
                            \E v \in Period(c, q)' : History[q][v] = Candidate(c, q)'
    BY <1>0 DEF EndedCollectionsAreReal, Ended
  <2>1. c # k
    BY <1>0, <1>2 DEF Ended
  <2>2. \A q \in Path : seen'[c][q] = seen[c][q] /\ Candidate(c, q)' = Candidate(c, q) /\ Period(c, q)' = Period(c, q)
    BY <1>0, <1>3, <2>1 DEF Candidate, IsRead, Entry, Period, Earliest, Latest
  <2>3. QED  BY <1>0, <2>2 DEF EndedCollectionsAreReal, IsRead
<1>9. DiscoveredFromTheIndex'
  <2> SUFFICES ASSUME plan[2] # NoPlan
               PROVE  \E d \in between[IndexPath] .. at[IndexPath] :
                         /\ History[IndexPath][d] # Nothing
                         /\ History[IndexPath][d].names = plan[2]
                         /\ IsRead(2, IndexPath)' => d <= seen'[2][IndexPath].stat
    BY <1>0 DEF DiscoveredFromTheIndex
  <2>1. PICK d \in between[IndexPath] .. at[IndexPath] :
           /\ History[IndexPath][d] # Nothing
           /\ History[IndexPath][d].names = plan[2]
           /\ IsRead(2, IndexPath) => d <= seen[2][IndexPath].stat
    BY DEF DiscoveredFromTheIndex
  <2>2. IsRead(2, IndexPath)' => d <= seen'[2][IndexPath].stat
    <3>1. CASE k = 2 /\ p = IndexPath
      BY <1>2, <1>3, <2>1, <3>1
    <3>2. CASE ~(k = 2 /\ p = IndexPath)
      BY <1>3, <2>1, <3>2 DEF IsRead
    <3>3. QED  BY <3>1, <3>2
  <2>3. QED  BY <2>1, <2>2
<1>10. QED  BY <1>1, <1>4, <1>5, <1>6, <1>7, <1>8, <1>9

(* An entry has been stat'ed, or found missing.                            *)
LEMMA LookKeeps ==
    ASSUME CollectorInvariant, NEW p \in Path, Look(p)
    PROVE  CollectorInvariant'
<1> USE DEF CollectorInvariant
<1>a. CASE Fail
  BY <1>a, FailKeeps
<1>b. CASE /\ ~Discovering /\ pc = "look" /\ pc' = "look" /\ IsNext(p)
           /\ seen' = [seen EXCEPT ![k][p] = [stat |-> at[p], bytes |-> at[p]]]
           /\ todo' = todo \ {p}
           /\ UNCHANGED <<at, staged, k, listed, look, bytes, stale, plan, between, slipped>>
  <2>1. look' \in Nat /\ bytes' \in Nat /\ stale' \in BOOLEAN
    BY <1>b DEF TypeOK
  <2>2. QED  BY <1>b, <2>1, RecordKeeps
<1>c. CASE /\ pc = "look" /\ pc' = "read" /\ IsNext(p) /\ Now(p) # Nothing
           /\ look' = at[p] /\ stale' = FALSE
           /\ UNCHANGED <<at, staged, k, listed, todo, bytes, plan, seen, between, slipped>>
  <2>1. TypeOK'
    BY <1>c DEF TypeOK, Steps, Versions
  <2>2. FreshMeansCurrent'
    <3> SUFFICES ASSUME NEW q \in Path, IsNext(q)
                 PROVE  look' = at[q] /\ Now(q) # Nothing
      BY <1>c DEF FreshMeansCurrent, IsNext, Discovering, Now
    <3>1. QED  BY <1>c, NextIsUnique
  <2>3. EntriesAreWhole' /\ UnlistedWasAbsent'
    BY <1>c DEF EntriesAreWhole, IsRead, UnlistedWasAbsent, Listing, Period, Earliest, Latest
  <2>4. ReadSoFar' /\ DiscoveredFromTheIndex'
    BY <1>c DEF ReadSoFar, Listing, Discovering, IsRead, DiscoveredFromTheIndex
  <2>5. EndedCollectionsAreReal'
    BY <1>c DEF EndedCollectionsAreReal, Ended, IsRead, Candidate, Entry, Period, Earliest, Latest
  <2>6. QED  BY <2>1, <2>2, <2>3, <2>4, <2>5
<1>d. QED
  BY <1>a, <1>b, <1>c DEF Look, tree, reading

(* The bytes have been read: still those of the stat, or not confirmed.    *)
LEMMA ReadKeeps ==
    ASSUME CollectorInvariant, NEW p \in Path, Read(p)
    PROVE  CollectorInvariant'
<1> USE DEF CollectorInvariant
<1>a. CASE Fail
  BY <1>a, FailKeeps
<1>b. CASE ~Fail
  <2>0. /\ pc = "read" /\ pc' = "confirm" /\ IsNext(p)
        /\ bytes' \in {look, at[p]}
        /\ UNCHANGED <<at, staged, k, listed, todo, look, stale, plan, seen, between, slipped>>
    BY <1>b DEF Read, tree
  <2>1. TypeOK'
    <3>1. look \in Nat /\ at[p] \in Nat
      BY DEF TypeOK
    <3>2. bytes' \in Nat
      BY <2>0, <3>1
    <3>3. QED  BY <2>0, <3>2 DEF TypeOK, Steps, Versions
  <2>2. FreshMeansCurrent'
    <3> SUFFICES ASSUME ~stale, NEW q \in Path, IsNext(q)
                 PROVE  look = at[q] /\ Now(q) # Nothing /\ bytes' = at[q]
      BY <2>0 DEF FreshMeansCurrent, IsNext, Discovering, Now
    <3>1. q = p
      BY <2>0, NextIsUnique
    <3>2. QED  BY <2>0, <3>1 DEF FreshMeansCurrent
  <2>3. EntriesAreWhole' /\ UnlistedWasAbsent'
    BY <2>0 DEF EntriesAreWhole, IsRead, UnlistedWasAbsent, Listing, Period, Earliest, Latest
  <2>4. ReadSoFar' /\ DiscoveredFromTheIndex'
    BY <2>0 DEF ReadSoFar, Listing, Discovering, IsRead, DiscoveredFromTheIndex
  <2>5. EndedCollectionsAreReal'
    BY <2>0 DEF EndedCollectionsAreReal, Ended, IsRead, Candidate, Entry, Period, Earliest, Latest
  <2>6. QED  BY <2>1, <2>2, <2>3, <2>4, <2>5
<1>c. QED  BY <1>a, <1>b

(* The active plan has been discovered from the index as it now is.        *)
LEMMA DiscoverKeeps ==
    ASSUME CollectorInvariant, pc = "confirm", Discovering, ~stale,
           Discover(Entry(IndexPath, look, bytes)), ~Fail
    PROVE  CollectorInvariant'
<1> USE DEF CollectorInvariant
<1> DEFINE c0 == Entry(IndexPath, look, bytes)
<1>0. /\ pc' = "look" /\ c0.names \in listed
      /\ plan' = [plan EXCEPT ![k] = c0.names]
      /\ todo' = listed
      /\ look' = 0 /\ bytes' = 0 /\ stale' = FALSE
      /\ UNCHANGED <<at, staged, k, listed, seen, between, slipped>>
  BY DEF Discover, Forget, tree
<1>1. look = at[IndexPath] /\ bytes = at[IndexPath]
  BY DEF FreshMeansCurrent, IsNext
<1>2. at[IndexPath] \in Versions(IndexPath) /\ between[IndexPath] \in 1 .. at[IndexPath] /\ k \in {1, 2}
  BY DEF TypeOK
<1>3. c0 = History[IndexPath][at[IndexPath]]
  BY <1>1, <1>2, EntryOfOneVersion
<1>4. History[IndexPath][at[IndexPath]] \in Shown
  BY <1>2, HistoryAssumption DEF Versions
<1>5. History[IndexPath][at[IndexPath]] # Nothing
  BY <1>1, <1>0 DEF FreshMeansCurrent, IsNext, Now
<1>6. c0.names \in Plans
  <2>1. c0.names \in Plans \cup {NoPlan}
    BY <1>3, <1>4, <1>5 DEF Shown, Content
  <2>2. c0.names \in Path
    BY <1>0 DEF TypeOK
  <2>3. QED  BY <2>1, <2>2, NothingAssumption
<1>7. TypeOK'
  <2>1. plan' \in [{1, 2} -> Plans \cup {NoPlan}]
    BY <1>0, <1>6 DEF TypeOK
  <2>2. QED  BY <1>0, <2>1 DEF TypeOK, Steps, Versions
<1>8. EntriesAreWhole' /\ FreshMeansCurrent' /\ UnlistedWasAbsent'
  BY <1>0 DEF EntriesAreWhole, IsRead, FreshMeansCurrent, UnlistedWasAbsent, Listing, Period, Earliest, Latest
<1>9. ReadSoFar'
  BY <1>0, <1>2 DEF ReadSoFar, Listing, Discovering, IsRead, TypeOK
<1>10. EndedCollectionsAreReal'
  BY <1>0 DEF EndedCollectionsAreReal, Ended, IsRead, Candidate, Entry, Period, Earliest, Latest
<1>11. DiscoveredFromTheIndex'
  <2>1. CASE k = 1
    BY <1>0, <2>1 DEF DiscoveredFromTheIndex, ReadSoFar, TypeOK
  <2>2. CASE k = 2
    <3>1. ~IsRead(2, IndexPath)'
      BY <1>0, <2>2 DEF ReadSoFar, Discovering, IsRead, Unread
    <3>2. plan'[2] = History[IndexPath][at[IndexPath]].names
      BY <1>0, <1>3, <2>2 DEF TypeOK
    <3>3. at[IndexPath] \in between[IndexPath] .. at[IndexPath]
      BY <1>2 DEF TypeOK
    <3>4. QED  BY <1>0, <1>5, <3>1, <3>2, <3>3 DEF DiscoveredFromTheIndex
  <2>3. QED  BY <1>2, <2>1, <2>2
<1>12. QED  BY <1>7, <1>8, <1>9, <1>10, <1>11

LEMMA ConfirmKeeps ==
    ASSUME CollectorInvariant, NEW p \in Path, Confirm(p)
    PROVE  CollectorInvariant'
<1>a. CASE Fail
  BY <1>a, FailKeeps
<1>b. CASE ~Fail /\ Discovering
  BY <1>b, DiscoverKeeps DEF Confirm, Confirmed, IsNext
<1>c. CASE ~Fail /\ ~Discovering
  <2>1. pc = "confirm" /\ IsNext(p) /\ ~stale
    BY <1>c DEF Confirm, Confirmed
  <2>2. look = at[p] /\ bytes = at[p]
    BY <2>1 DEF CollectorInvariant, FreshMeansCurrent
  <2>3. /\ seen' = [seen EXCEPT ![k][p] = [stat |-> at[p], bytes |-> at[p]]]
        /\ todo' = todo \ {p} /\ pc' = "look"
        /\ look' = 0 /\ bytes' = 0 /\ stale' = FALSE
        /\ UNCHANGED <<at, staged, k, listed, plan, between, slipped>>
    BY <1>c, <2>1, <2>2 DEF Confirm, Confirmed, Accept, Forget, tree
  <2>4. QED  BY <1>c, <2>1, <2>3, RecordKeeps
<1>d. QED  BY <1>a, <1>b, <1>c

(* A collection that ends has read every path it listed.                   *)
LEMMA EndOfCollection ==
    ASSUME CollectorInvariant, pc = "look", ~Discovering, todo = {}
    PROVE  /\ IsRead(k, IndexPath)
           /\ \A p \in Path \ slipped :
                 \E v \in Period(k, p) : History[p][v] = Candidate(k, p)
<1> USE DEF CollectorInvariant
<1>1. \A p \in listed : IsRead(k, p)
  BY DEF ReadSoFar, Listing
<1>2. IndexPath \in listed
  BY DEF UnlistedWasAbsent, Listing
<1>3. ASSUME NEW p \in Path, p \notin slipped
      PROVE  \E v \in Period(k, p) : History[p][v] = Candidate(k, p)
  <2>1. CASE IsRead(k, p)
    <3>1. /\ seen[k][p].stat = seen[k][p].bytes
          /\ seen[k][p].stat \in Period(k, p)
      BY <2>1 DEF EntriesAreWhole, TypeOK
    <3>2. seen[k][p].stat \in Versions(p)
      <4>1. /\ at[p] \in Versions(p) /\ between[p] \in 1 .. at[p] /\ k \in {1, 2}
            /\ at[p] \in Nat /\ between[p] \in Nat
        BY DEF TypeOK
      <4>2. Len(History[p]) \in Nat
        BY HistoryAssumption
      <4>3. Period(k, p) \subseteq 1 .. at[p]
        BY <4>1 DEF Period, Earliest, Latest
      <4>4. QED  BY <3>1, <4>1, <4>2, <4>3 DEF Versions
    <3>3. Candidate(k, p) = History[p][seen[k][p].stat]
      BY <2>1, <3>1, <3>2, EntryOfOneVersion DEF Candidate
    <3>4. QED  BY <3>1, <3>3
  <2>2. CASE ~IsRead(k, p)
    <3>1. p \notin listed
      BY <1>1, <2>2
    <3>2. \E v \in Period(k, p) : History[p][v] = Nothing
      BY <1>3, <3>1 DEF UnlistedWasAbsent, Listing
    <3>3. QED  BY <2>2, <3>2 DEF Candidate
  <2>3. QED  BY <2>1, <2>2
<1>4. QED  BY <1>1, <1>2, <1>3

LEMMA FinishKeeps ==
    ASSUME CollectorInvariant, Finish
    PROVE  CollectorInvariant'
<1> USE DEF CollectorInvariant
<1>a. CASE Fail
  BY <1>a, FailKeeps
<1>b. CASE ~Fail /\ k = 1
  <2>0. /\ pc = "look" /\ ~Discovering /\ todo = {}
        /\ k = 1 /\ k' = 2 /\ pc' = "index" /\ between' = at /\ listed' = {}
        /\ UNCHANGED <<at, staged, todo, look, bytes, stale, plan, seen, slipped>>
    BY <1>b DEF Finish, tree, reading
  <2>1. TypeOK'
    <3>1. ASSUME NEW p \in Path PROVE at[p] \in 1 .. at[p]
      <4>1. at[p] \in Nat /\ at[p] \in 1 .. Len(History[p])
        BY DEF TypeOK, Versions
      <4>2. QED  BY <4>1
    <3>2. between' \in [Path -> Nat] /\ \A p \in Path : between'[p] \in 1 .. at'[p]
      BY <2>0, <3>1 DEF TypeOK
    <3>3. listed' \subseteq Path /\ todo' \subseteq listed' /\ pc' \in Steps /\ k' \in {1, 2}
      BY <2>0 DEF Steps
    <3>4. QED  BY <2>0, <3>2, <3>3 DEF TypeOK, Versions
  <2>2. \A c \in {1, 2}, p \in Path : IsRead(c, p) => c = 1
    BY <2>0 DEF ReadSoFar, IsRead, Unread
  <2>3. \A p \in Path : Period(1, p)' = Period(1, p)
    BY <2>0 DEF Period, Earliest, Latest
  <2>4. EntriesAreWhole'
    BY <2>0, <2>2, <2>3 DEF EntriesAreWhole, IsRead
  <2>5. FreshMeansCurrent' /\ UnlistedWasAbsent'
    BY <2>0 DEF FreshMeansCurrent, UnlistedWasAbsent, Listing
  <2>6. ReadSoFar' /\ DiscoveredFromTheIndex'
    BY <2>0 DEF ReadSoFar, Listing, Discovering, DiscoveredFromTheIndex
  <2>7. EndedCollectionsAreReal'
    <3>1. /\ IsRead(1, IndexPath)'
          /\ \A p \in Path \ slipped :
                \E v \in Period(1, p)' : History[p][v] = Candidate(1, p)'
      BY <2>0, <2>3, EndOfCollection DEF IsRead, Candidate, Entry
    <3>2. ~Ended(2)'
      BY <2>0 DEF Ended
    <3>3. QED  BY <2>0, <3>1, <3>2 DEF EndedCollectionsAreReal
  <2>8. QED  BY <2>1, <2>4, <2>5, <2>6, <2>7
<1>c. CASE ~Fail /\ k = 2
  <2>0. /\ pc = "look" /\ ~Discovering /\ todo = {}
        /\ k = 2 /\ pc' = "compare"
        /\ UNCHANGED <<at, staged, k, listed, todo, look, bytes, stale, plan, seen, between, slipped>>
    BY <1>c DEF Finish, tree, reading
  <2>1. TypeOK'
    BY <2>0 DEF TypeOK, Steps, Versions
  <2>2. EntriesAreWhole' /\ FreshMeansCurrent' /\ UnlistedWasAbsent'
    BY <2>0 DEF EntriesAreWhole, IsRead, FreshMeansCurrent, UnlistedWasAbsent, Listing, Period, Earliest, Latest
  <2>3. ReadSoFar' /\ DiscoveredFromTheIndex'
    BY <2>0 DEF ReadSoFar, Listing, Discovering, IsRead, DiscoveredFromTheIndex
  <2>4. EndedCollectionsAreReal'
    <3> SUFFICES ASSUME NEW c \in {1, 2}
                 PROVE  /\ IsRead(c, IndexPath)
                        /\ \A p \in Path \ slipped :
                              \E v \in Period(c, p) : History[p][v] = Candidate(c, p)
      BY <2>0 DEF EndedCollectionsAreReal, IsRead, Candidate, Entry, Period, Earliest, Latest
    <3>1. CASE c = 1
      BY <2>0, <3>1 DEF EndedCollectionsAreReal, Ended
    <3>2. CASE c = 2
      BY <2>0, <3>2, EndOfCollection
    <3>3. QED  BY <3>1, <3>2
  <2>5. QED  BY <2>1, <2>2, <2>3, <2>4
<1>d. QED  BY <1>a, <1>b, <1>c DEF TypeOK

LEMMA CompareKeeps ==
    ASSUME CollectorInvariant, Compare
    PROVE  CollectorInvariant'
<1> USE DEF CollectorInvariant
<1>a. CASE Fail
  BY <1>a, FailKeeps
<1>b. CASE ~Fail
  <2>0. /\ pc = "compare" /\ pc' = "emitted"
        /\ UNCHANGED <<at, staged, k, listed, todo, look, bytes, stale, plan, seen, between, slipped>>
    BY <1>b DEF Compare, tree, reading
  <2>1. TypeOK'
    BY <2>0 DEF TypeOK, Steps, Versions
  <2>2. EntriesAreWhole' /\ FreshMeansCurrent' /\ UnlistedWasAbsent'
    BY <2>0 DEF EntriesAreWhole, IsRead, FreshMeansCurrent, UnlistedWasAbsent, Listing, Period, Earliest, Latest
  <2>3. ReadSoFar' /\ DiscoveredFromTheIndex'
    BY <2>0 DEF ReadSoFar, Listing, Discovering, IsRead, DiscoveredFromTheIndex
  <2>4. EndedCollectionsAreReal'
    BY <2>0 DEF EndedCollectionsAreReal, Ended, IsRead, Candidate, Entry, Period, Earliest, Latest
  <2>5. QED  BY <2>1, <2>2, <2>3, <2>4
<1>c. QED  BY <1>a, <1>b

(* The editor moves one path on: versions already taken stay where they    *)
(* were, and an entry being read is no longer fresh.                       *)
LEMMA EditKeeps ==
    ASSUME CollectorInvariant, NEW p \in Path, Edit(p),
           pc \notin {"emitted", "failed"}
    PROVE  CollectorInvariant'
<1> USE DEF CollectorInvariant
<1>0. /\ at[p] < Len(History[p])
      /\ at' = [at EXCEPT ![p] = @ + 1]
      /\ UNCHANGED <<staged, pc, k, listed, todo, look, bytes, plan, seen, between, slipped>>
  BY DEF Edit
<1>1. ~stale' => ~stale /\ (pc \in {"read", "confirm"} => ~IsNext(p))
  BY DEF Edit, Touches
<1>2. stale' \in BOOLEAN
  BY DEF Edit, TypeOK
<1>3. \A q \in Path : /\ at[q] \in Nat /\ at'[q] \in Nat /\ at[q] <= at'[q]
                      /\ between[q] \in Nat /\ between[q] <= at[q] /\ 1 <= between[q]
                      /\ at'[q] = IF q = p THEN at[q] + 1 ELSE at[q]
  <2> TAKE q \in Path
  <2>1. at \in [Path -> Nat] /\ between \in [Path -> Nat] /\ between[q] \in 1 .. at[q]
    BY DEF TypeOK
  <2>2. at[q] \in Nat /\ between[q] \in Nat
    BY <2>1
  <2>3. at'[q] = IF q = p THEN at[q] + 1 ELSE at[q]
    BY <1>0, <2>1
  <2>4. QED  BY <2>1, <2>2, <2>3
<1>4. TypeOK'
  <2>1. at' \in [Path -> Nat]
    <3>1. at \in [Path -> Nat]
      BY DEF TypeOK
    <3>2. at[p] + 1 \in Nat
      BY <3>1
    <3>3. QED  BY <1>0, <3>1, <3>2
  <2>2. ASSUME NEW q \in Path PROVE at'[q] \in Versions(q) /\ between[q] \in 1 .. at'[q]
    <3>1. at[q] \in 1 .. Len(History[q])
      BY DEF TypeOK, Versions
    <3>2. Len(History[q]) \in Nat
      BY HistoryAssumption
    <3>3. at'[q] <= Len(History[q])
      <4>1. at[q] \in Nat /\ at[q] <= Len(History[q])
        BY <1>3, <3>1
      <4>2. CASE q = p
        BY <1>0, <1>3, <3>2, <4>1, <4>2
      <4>3. CASE q # p
        BY <1>3, <4>1, <4>3
      <4>4. QED  BY <4>2, <4>3
    <3>4. QED  BY <1>3, <3>1, <3>2, <3>3 DEF Versions
  <2>3. QED  BY <1>0, <1>2, <2>1, <2>2 DEF TypeOK, Versions
<1>5. \A c \in {1, 2}, q \in Path : Period(c, q) \subseteq Period(c, q)'
  BY <1>0, <1>3 DEF Period, Earliest, Latest
<1>6. EntriesAreWhole'
  BY <1>0, <1>5 DEF EntriesAreWhole, IsRead
<1>7. FreshMeansCurrent'
  <2> SUFFICES ASSUME pc \in {"read", "confirm"}, ~stale', NEW q \in Path, IsNext(q)
               PROVE  /\ look = at'[q] /\ History[q][at'[q]] # Nothing
                      /\ pc = "confirm" => bytes = at'[q]
    BY <1>0 DEF FreshMeansCurrent, IsNext, Discovering, Now
  <2>1. q # p
    BY <1>1
  <2>2. at'[q] = at[q]
    BY <1>3, <2>1
  <2>3. look = at[q] /\ Now(q) # Nothing /\ (pc = "confirm" => bytes = at[q])
    BY <1>1 DEF FreshMeansCurrent
  <2>4. QED  BY <2>2, <2>3 DEF Now
<1>8. UnlistedWasAbsent'
  <2>1. pc \in Listing => \A q \in Path \ (listed \cup slipped) :
                            \E v \in Period(k, q)' : History[q][v] = Nothing
    <3>1. k \in {1, 2} /\ k' = k
      BY <1>0 DEF TypeOK
    <3>2. \A q \in Path : Period(k, q) \subseteq Period(k, q)'
      BY <1>0, <1>3, <3>1 DEF Period, Earliest, Latest
    <3>3. QED  BY <3>2 DEF UnlistedWasAbsent
  <2>2. QED  BY <1>0, <2>1 DEF UnlistedWasAbsent
<1>9. ReadSoFar'
  BY <1>0 DEF ReadSoFar, Listing, Discovering, IsRead
<1>10. EndedCollectionsAreReal'
  <2> SUFFICES ASSUME NEW c \in {1, 2}, Ended(c)
               PROVE  /\ IsRead(c, IndexPath)
                      /\ \A q \in Path \ slipped :
                            \E v \in Period(c, q)' : History[q][v] = Candidate(c, q)
    BY <1>0 DEF EndedCollectionsAreReal, Ended, IsRead, Candidate, Entry
  <2>1. QED  BY <1>5 DEF EndedCollectionsAreReal
<1>11. DiscoveredFromTheIndex'
  <2>1. between[IndexPath] .. at[IndexPath] \subseteq between[IndexPath] .. at'[IndexPath]
    BY <1>3
  <2>2. QED  BY <1>0, <2>1 DEF DiscoveredFromTheIndex, IsRead
<1>12. QED  BY <1>4, <1>6, <1>7, <1>8, <1>9, <1>10, <1>11

LEMMA StagingKeeps ==
    ASSUME CollectorInvariant, NEW p \in Path, Stage(p) \/ Unstage(p)
    PROVE  CollectorInvariant'
<1> USE DEF CollectorInvariant
<1>0. /\ UNCHANGED <<at, pc, k, listed, todo, look, bytes, stale, plan, seen, between>>
      /\ staged' \subseteq Path /\ slipped' \subseteq Path /\ slipped \subseteq slipped'
      /\ pc = "untracked" => staged' \subseteq staged \cup slipped'
  BY DEF Stage, Unstage, reading, TypeOK
<1>1. TypeOK'
  BY <1>0 DEF TypeOK, Versions
<1>2. EntriesAreWhole' /\ FreshMeansCurrent'
  BY <1>0 DEF EntriesAreWhole, IsRead, Period, Earliest, Latest, FreshMeansCurrent, IsNext, Discovering, Now
<1>3. UnlistedWasAbsent'
  BY <1>0 DEF UnlistedWasAbsent, Period, Earliest, Latest
<1>4. ReadSoFar' /\ DiscoveredFromTheIndex'
  BY <1>0 DEF ReadSoFar, Listing, Discovering, IsRead, DiscoveredFromTheIndex
<1>5. EndedCollectionsAreReal'
  BY <1>0 DEF EndedCollectionsAreReal, Ended, IsRead, Candidate, Entry, Period, Earliest, Latest
<1>6. QED  BY <1>1, <1>2, <1>3, <1>4, <1>5

LEMMA StepKeeps == CollectorInvariant /\ [Next]_vars => CollectorInvariant'
<1> SUFFICES ASSUME CollectorInvariant, [Next]_vars PROVE CollectorInvariant'
  OBVIOUS
<1>0. CASE Begin \/ Refuse
  BY <1>0, BeginKeeps, FailKeeps DEF Refuse
<1>1. CASE ListIndex
  BY <1>1, ListIndexKeeps
<1>2. CASE ListUntracked
  BY <1>2, ListUntrackedKeeps
<1>3. CASE Finish
  BY <1>3, FinishKeeps
<1>4. CASE Compare
  BY <1>4, CompareKeeps
<1>5. ASSUME NEW p \in Path, Look(p) \/ Read(p) \/ Confirm(p) PROVE CollectorInvariant'
  BY <1>5, LookKeeps, ReadKeeps, ConfirmKeeps
<1>6. CASE Editor
  BY <1>6, EditKeeps, StagingKeeps DEF Editor
<1>7. CASE UNCHANGED vars
  <2>1. UNCHANGED <<at, staged, pc, k, listed, todo, look, bytes, stale, plan, seen, between, slipped>>
    BY <1>7 DEF vars
  <2>2. TypeOK' /\ EntriesAreWhole' /\ FreshMeansCurrent'
    BY <2>1 DEF CollectorInvariant, TypeOK, Versions, EntriesAreWhole, IsRead, Period, Earliest, Latest, FreshMeansCurrent, IsNext, Discovering, Now
  <2>3. UnlistedWasAbsent' /\ ReadSoFar' /\ DiscoveredFromTheIndex'
    BY <2>1 DEF CollectorInvariant, UnlistedWasAbsent, Period, Earliest, Latest, ReadSoFar, Discovering, IsRead, DiscoveredFromTheIndex
  <2>4. EndedCollectionsAreReal'
    BY <2>1 DEF CollectorInvariant, EndedCollectionsAreReal, Ended, IsRead, Candidate, Entry, Period, Earliest, Latest
  <2>5. QED  BY <2>2, <2>3, <2>4 DEF CollectorInvariant
<1>8. QED
  BY <1>0, <1>1, <1>2, <1>3, <1>4, <1>5, <1>6, <1>7 DEF Next, Command

(* The collector's bookkeeping is right in every reachable state, for any  *)
(* tree, any history of its contents and any interleaving with the editor. *)
THEOREM CollectorIsRight == Spec => []CollectorInvariant
<1>1. Init => CollectorInvariant
  BY InitInvariant
<1>2. CollectorInvariant /\ [Next]_vars => CollectorInvariant'
  BY StepKeeps
<1>3. QED  BY <1>1, <1>2, PTL DEF Spec

(* No entry mixes the mode of one moment with the bytes of another.        *)
THEOREM EntriesAreOfOneMoment == Spec => []EntryIsWhole
<1>1. CollectorInvariant => EntryIsWhole
  <2> SUFFICES ASSUME CollectorInvariant, NEW c \in {1, 2}, NEW p \in Path, IsRead(c, p)
               PROVE  \E v \in 1 .. at[p] : Candidate(c, p) = History[p][v]
    BY DEF EntryIsWhole
  <2>1. /\ seen[c][p].stat = seen[c][p].bytes
        /\ seen[c][p].stat \in Period(c, p)
    BY DEF CollectorInvariant, EntriesAreWhole
  <2>2. /\ at[p] \in Nat /\ at[p] \in 1 .. Len(History[p]) /\ between[p] \in Nat
        /\ between[p] \in 1 .. at[p] /\ Len(History[p]) \in Nat
    BY HistoryAssumption DEF CollectorInvariant, TypeOK, Versions
  <2>3. seen[c][p].stat \in 1 .. at[p]
    BY <2>1, <2>2 DEF Period, Earliest, Latest
  <2>4. seen[c][p].stat \in Versions(p)
    BY <2>2, <2>3 DEF Versions
  <2>5. Candidate(c, p) = History[p][seen[c][p].stat]
    BY <2>1, <2>4, EntryOfOneVersion DEF Candidate
  <2>6. QED  BY <2>3, <2>5
<1>2. QED  BY <1>1, CollectorIsRight, PTL

(* What both collections show of a path that did not slip is what the tree *)
(* showed between them.                                                    *)
LEMMA AgreeingCollections ==
    ASSUME CollectorInvariant, pc \in {"compare", "emitted"}, CollectionsAgree,
           NEW p \in Path, p \notin slipped
    PROVE  LET then == History[p][between[p]]
           IN /\ Material(p, plan[2], Candidate(2, p)) = Material(p, plan[2], then)
              /\ Operational(p, plan[2], Candidate(2, p)) = Operational(p, plan[2], then)
              /\ p = plan[2] => Revision(Candidate(2, p)) = Revision(then)
<1> USE DEF CollectorInvariant
<1>1. plan[2] \in Plans /\ plan[1] = plan[2] /\ k = 2
  BY DEF CollectionsAgree, ReadSoFar, TypeOK
<1>2. /\ at[p] \in Nat /\ at[p] \in 1 .. Len(History[p]) /\ between[p] \in Nat
      /\ between[p] \in 1 .. at[p] /\ Len(History[p]) \in Nat
  BY HistoryAssumption DEF TypeOK, Versions
<1>3. PICK i \in Period(1, p) : History[p][i] = Candidate(1, p)
  BY <1>1 DEF EndedCollectionsAreReal, Ended
<1>4. PICK j \in Period(2, p) : History[p][j] = Candidate(2, p)
  BY <1>1 DEF EndedCollectionsAreReal, Ended
<1>5. /\ i \in 1 .. Len(History[p]) /\ j \in 1 .. Len(History[p])
      /\ between[p] \in 1 .. Len(History[p]) /\ i <= between[p] /\ between[p] <= j
  BY <1>1, <1>2, <1>3, <1>4 DEF Period, Earliest, Latest
<1>6. /\ Material(p, plan[2], History[p][i]) = Material(p, plan[2], History[p][j])
      /\ Operational(p, plan[2], History[p][i]) = Operational(p, plan[2], History[p][j])
  <2>1. /\ MaterialManifest(1)[p] = MaterialManifest(2)[p]
        /\ OperationalManifest(1)[p] = OperationalManifest(2)[p]
    BY DEF CollectionsAgree
  <2>2. /\ Delta(Material(p, plan[2], Base[p]), Material(p, plan[2], Candidate(1, p)))
             = Delta(Material(p, plan[2], Base[p]), Material(p, plan[2], Candidate(2, p)))
        /\ Delta(Operational(p, plan[2], Base[p]), Operational(p, plan[2], Candidate(1, p)))
             = Delta(Operational(p, plan[2], Base[p]), Operational(p, plan[2], Candidate(2, p)))
    BY <1>1, <2>1 DEF MaterialManifest, OperationalManifest
  <2>3. QED  BY <1>3, <1>4, <2>2, DeltaDetermines
<1>7. p = plan[2] => Revision(History[p][i]) = Revision(History[p][j])
  BY <1>1, <1>3, <1>4 DEF CollectionsAgree
<1>8. QED  BY <1>1, <1>4, <1>5, <1>6, <1>7, NoReturn

(* The comparison still holds when the identity has been emitted.          *)
LEMMA AgreedWhenEmitted == Spec => [](pc = "emitted" => CollectionsAgree)
<1> DEFINE Agreed == pc = "emitted" => CollectionsAgree
<1>1. Init => Agreed
  BY DEF Init
<1>2. Agreed /\ [Next]_vars => Agreed'
  <2> SUFFICES ASSUME Agreed, [Next]_vars, pc' = "emitted" PROVE CollectionsAgree'
    OBVIOUS
  <2>1. CollectionsAgree /\ UNCHANGED <<plan, seen>>
    <3>1. CASE Compare
      BY <3>1 DEF Compare, Fail
    <3>2. CASE UNCHANGED vars
      BY <3>2 DEF vars
    <3>3. CASE Begin \/ Refuse \/ ListIndex \/ ListUntracked \/ Finish
      BY <3>3 DEF Begin, Refuse, ListIndex, ListUntracked, Finish, Fail
    <3>4. CASE \E p \in Path : Look(p)
      BY <3>4 DEF Look, Fail
    <3>5. CASE \E p \in Path : Read(p) \/ Confirm(p)
      BY <3>5 DEF Read, Confirm, Discover, Accept, Fail
    <3>6. CASE Editor
      BY <3>6 DEF Editor, Edit, Stage, Unstage
    <3>7. QED  BY <3>1, <3>2, <3>3, <3>4, <3>5, <3>6 DEF Next, Command
  <2>2. QED
    BY <2>1 DEF CollectionsAgree, MaterialManifest, OperationalManifest, Candidate, IsRead, Entry
<1>3. QED  BY <1>1, <1>2, PTL DEF Spec

(* An emitted identity is that of the whole tree at the instant between    *)
(* the two collections.                                                    *)
THEOREM EmittedTreeWasThere == Spec => []EmittedIsASnapshot
<1> DEFINE Agreed == pc = "emitted" => CollectionsAgree
<1>1. Spec => []Agreed
  BY AgreedWhenEmitted
<1>2. CollectorInvariant /\ Agreed => EmittedIsASnapshot
  <2> SUFFICES ASSUME CollectorInvariant, pc = "emitted", CollectionsAgree
               PROVE  EmittedIsASnapshot
    BY DEF EmittedIsASnapshot
  <2>1. plan[2] \in Path
    BY DEF CollectorInvariant, ReadSoFar, TypeOK
  <2>2. QED  BY <2>1, AgreeingCollections DEF EmittedIsASnapshot
<1>3. QED  BY <1>1, <1>2, CollectorIsRight, PTL

(* The plan an identity is bound to is the one its own index names.        *)
THEOREM PlanIsTheListedOne == Spec => []BoundToListedPlan
<1> DEFINE Agreed == pc = "emitted" => CollectionsAgree
<1>1. Spec => []Agreed
  BY AgreedWhenEmitted
<1>2. CollectorInvariant /\ Agreed => BoundToListedPlan
  <2> SUFFICES ASSUME CollectorInvariant, pc = "emitted", CollectionsAgree
               PROVE  Candidate(2, IndexPath).names = plan[2]
    BY DEF BoundToListedPlan
  <2> USE DEF CollectorInvariant
  <2> DEFINE H == History[IndexPath]
             i == seen[1][IndexPath].stat
             j == seen[2][IndexPath].stat
  <2>1. plan[2] \in Plans /\ plan[2] # NoPlan /\ plan[1] = plan[2] /\ k = 2
    BY DEF CollectionsAgree, ReadSoFar, TypeOK
  <2>2. /\ at[IndexPath] \in Nat /\ between[IndexPath] \in Nat /\ Len(H) \in Nat
        /\ at[IndexPath] \in 1 .. Len(H) /\ between[IndexPath] \in 1 .. at[IndexPath]
    BY HistoryAssumption DEF TypeOK, Versions
  <2>3. IsRead(1, IndexPath) /\ IsRead(2, IndexPath)
    BY <2>1 DEF EndedCollectionsAreReal, Ended
  <2>4. /\ seen[1][IndexPath].bytes = i /\ i \in 1 .. between[IndexPath]
        /\ seen[2][IndexPath].bytes = j /\ j \in between[IndexPath] .. at[IndexPath]
    BY <2>1, <2>3 DEF EntriesAreWhole, Period, Earliest, Latest
  <2>5. PICK d \in between[IndexPath] .. at[IndexPath] :
           H[d] # Nothing /\ H[d].names = plan[2] /\ d <= j
    BY <2>1, <2>3 DEF DiscoveredFromTheIndex
  <2>6. /\ i \in 1 .. Len(H) /\ d \in 1 .. Len(H) /\ j \in 1 .. Len(H)
        /\ i <= d /\ d <= j
    BY <2>2, <2>4, <2>5
  <2>7. Candidate(1, IndexPath) = H[i] /\ Candidate(2, IndexPath) = H[j]
    BY <2>3, <2>4, <2>6, EntryOfOneVersion DEF Candidate, Versions
  <2>8. H[i] = H[j]
    <3>1. MaterialManifest(1)[IndexPath] = MaterialManifest(2)[IndexPath]
      BY DEF CollectionsAgree
    <3>2. Material(IndexPath, plan[2], H[i]) = Material(IndexPath, plan[2], H[j])
      BY <2>1, <2>7, <3>1, DeltaDetermines DEF MaterialManifest
    <3>3. QED  BY <3>2 DEF Material
  <2>9. H[d] = H[j]
    <3>1. Material(IndexPath, plan[2], H[i]) = Material(IndexPath, plan[2], H[d])
      <4>1. Material(IndexPath, plan[2], H[i]) = Material(IndexPath, plan[2], H[j])
        BY <2>8
      <4>2. QED  BY <2>1, <2>6, <4>1, NoReturn
    <3>2. QED  BY <2>8, <3>1 DEF Material
  <2>10. QED  BY <2>5, <2>7, <2>9
<1>3. QED  BY <1>1, <1>2, CollectorIsRight, PTL
=============================================================================
