---------------------------- MODULE ItemsProofs ----------------------------
(***************************************************************************)
(* Proofs about Items, for every set of items, slugs and blocker IDs and   *)
(* every value of the bounds, and about the search for a cycle of waits,   *)
(* for every graph.  Liveness of the sweep stays with TLC.                 *)
(***************************************************************************)
EXTENDS Items, WaitSearch, FiniteSetTheorems, SequenceTheorems, TLAPS

----------------------------------------------------------------------------
(* Type correctness *)

\* A slug handed out on reopening is a canonical slug that no other open item
\* holds (uniqueCanonicalSlug).
LEMMA UniqueSlugIsFree ==
    ASSUME NEW i \in Items, NEW base \in Slugs, NEW s \in UniqueSlug(base, i)
    PROVE  s \in Slugs /\ s \notin UsedSlugs(i)
<1>1. CASE base \notin UsedSlugs(i)
  BY <1>1 DEF UniqueSlug
<1>2. CASE base \in UsedSlugs(i)
  <2>1. PICK k \in FreeSuffixes(base, i) : s = Numbered[base][k]
    BY <1>2 DEF UniqueSlug
  <2> QED BY <2>1, SlugAssumption DEF FreeSuffixes
<1> QED BY <1>1, <1>2

\* laterTime returns a time no earlier than either of its arguments.
LEMMA LaterType ==
    ASSUME NEW a \in Nat, NEW b \in Nat
    PROVE  Later(a, b) \in Nat /\ Later(a, b) >= a /\ Later(a, b) >= b
BY DEF Later

\* Whatever its kind, a requested blocker has well-typed fields.
LEMMA RequestFields ==
    ASSUME NEW r \in Requests
    PROVE  /\ r.kind \in {"time", "item", "external"}
           /\ r.until \in Nat
           /\ r.item \in Items \cup {None}
           /\ r.kind = "item" => r.item \in Items
<1>1. CASE r \in TimeRequests
  BY <1>1, BoundsAssumption DEF TimeRequests
<1>2. CASE r \in ItemRequests
  BY <1>2 DEF ItemRequests
<1>3. CASE r \in ExternalRequests
  BY <1>3 DEF ExternalRequests
<1> QED BY <1>1, <1>2, <1>3 DEF Requests

\* One step per action.
LEMMA TypeOKInductive ==
    ASSUME TypeOK, [Next]_vars
    PROVE  TypeOK'
<1> USE DEF TypeOK
<1>1. CASE Tick
  BY <1>1, BoundsAssumption DEF Tick, attention, Open
<1>2. CASE SweepBlockers
  BY <1>2 DEF SweepBlockers, attention, Open
<1>3. ASSUME NEW i \in Items, LifecycleNext(i) PROVE TypeOK'
  <2>1. ASSUME NEW s \in Slugs, NEW t \in Titles, NEW d \in BOOLEAN, Create(i, s, t, d)
        PROVE TypeOK'
    BY <2>1 DEF Create, attention, Open
  <2>2. ASSUME NEW t \in Titles, NEW d \in BOOLEAN, Edit(i, t, d) PROVE TypeOK'
    BY <2>2 DEF Edit, attention, Open
  <2>3. ASSUME NEW force \in BOOLEAN, Activate(i, force) PROVE TypeOK'
    BY <2>3 DEF Activate, attention, Open
  <2>4. CASE Deactivate(i)
    BY <2>4 DEF Deactivate, attention, Open
  <2>5. CASE Close(i)
    BY <2>5 DEF Close, attention, Open
  <2>6. CASE Reopen(i)
    <3>1. PICK s \in UniqueSlug(Slugify[title[i]], i) : slug' = [slug EXCEPT ![i] = s]
      BY <2>6 DEF Reopen
    <3>2. s \in Slugs
      BY <3>1, UniqueSlugIsFree, SlugAssumption
    <3> QED BY <2>6, <3>1, <3>2 DEF Reopen, attention, Open
  <2>7. CASE Delete(i)
    BY <2>7 DEF Delete, Open
  <2> QED BY <1>3, <2>1, <2>2, <2>3, <2>4, <2>5, <2>6, <2>7 DEF LifecycleNext
<1>4. ASSUME NEW i \in Items, BlockerNext(i) PROVE TypeOK'
  <2>1. ASSUME NEW R \in SUBSET Requests, NEW at \in CreationTimes, AddBlockers(i, R, at)
        PROVE TypeOK'
    <3> DEFINE new == NewRequests(i, R)
    <3>1. PICK ids \in FreshIDs(i, new) :
            blockers' = [blockers EXCEPT ![i] = @ \cup
              {[id |-> ids[r], kind |-> r.kind, until |-> r.until,
                item |-> r.item, at |-> at] : r \in new}]
      BY <2>1 DEF AddBlockers
    <3>2. at \in Nat
      BY DEF CreationTimes
    <3>3. ASSUME NEW r \in new
          PROVE  /\ ids[r] \in BlockerIDs
                 /\ r.kind \in {"time", "item", "external"}
                 /\ r.until \in Nat
                 /\ r.item \in Items \cup {None}
      <4>1. ids[r] \in BlockerIDs
        BY DEF FreshIDs
      <4>2. r \in Requests
        BY DEF NewRequests
      <4>3. r.kind \in {"time", "item", "external"} /\ r.until \in Nat /\ r.item \in Items \cup {None}
        BY <4>2, RequestFields
      <4> QED BY <4>1, <4>3
    <3>4. blockers' \in [Items -> SUBSET Blocker]
      BY <3>1, <3>2, <3>3 DEF Blocker
    <3>5. read' \in [Items -> Nat]
      BY <2>1, <3>2 DEF AddBlockers, Later
    <3> QED BY <2>1, <3>4, <3>5 DEF AddBlockers
  <2>2. ASSUME NEW id \in BlockerIDs, ClearBlocker(i, id) PROVE TypeOK'
    BY <2>2 DEF ClearBlocker, attention
  <2>3. CASE ClearAllBlockers(i)
    BY <2>3 DEF ClearAllBlockers, attention
  <2> QED BY <1>4, <2>1, <2>2, <2>3 DEF BlockerNext
<1>5. ASSUME NEW i \in Attended, AttentionNext(i) PROVE TypeOK'
  <2>1. PICK at \in 1..now : \/ ImportPrompt(i, at) \/ ImportResponse(i, at)
                             \/ MarkRead(i, at) \/ MarkUnread(i, at)
    BY <1>5 DEF AttentionNext
  <2>2. at \in Nat /\ i \in Items
    BY BoundsAssumption
  <2>3. CASE ImportPrompt(i, at)
    BY <2>2, <2>3, LaterType DEF ImportPrompt
  <2>4. CASE ImportResponse(i, at)
    BY <2>2, <2>4, LaterType DEF ImportResponse
  <2>5. CASE MarkRead(i, at)
    BY <2>2, <2>5, LaterType DEF MarkRead
  <2>6. CASE MarkUnread(i, at)
    BY <2>2, <2>6, LaterType DEF MarkUnread
  <2> QED BY <2>1, <2>3, <2>4, <2>5, <2>6
<1>6. CASE UNCHANGED vars
  BY <1>6 DEF vars, attention
<1> QED BY <1>1, <1>2, <1>3, <1>4, <1>5, <1>6 DEF Next

\* The fields hold values of their kinds in every reachable state.
THEOREM TypeCorrect == Spec => []TypeOK
<1>1. Init => TypeOK
  BY SlugAssumption DEF Init, TypeOK, Open, Blocker
<1>2. TypeOK /\ [Next]_vars => TypeOK'
  BY TypeOKInductive
<1> QED BY <1>1, <1>2, PTL DEF Spec

----------------------------------------------------------------------------
(* The wait graph *)

\* Only AddBlockers adds a blocker to an item.
LEMMA OnlyAddBlockersAdds ==
    ASSUME TypeOK, [Next]_vars
    PROVE  \/ \A x \in Items : blockers'[x] \subseteq blockers[x]
           \/ \E i \in Items, R \in SUBSET Requests, at \in CreationTimes : AddBlockers(i, R, at)
<1> DEFINE Shrinks == \A x \in Items : blockers'[x] \subseteq blockers[x]
<1>1. CASE Tick
  BY <1>1 DEF Tick
<1>2. CASE SweepBlockers
  BY <1>2 DEF SweepBlockers
<1>3. ASSUME NEW i \in Items, LifecycleNext(i) PROVE Shrinks
  BY <1>3 DEF LifecycleNext, Create, Edit, Activate, Deactivate, Close, Reopen, Delete, TypeOK
<1>4. ASSUME NEW i \in Items, BlockerNext(i),
             ~ \E R \in SUBSET Requests, at \in CreationTimes : AddBlockers(i, R, at)
      PROVE  Shrinks
  BY <1>4 DEF BlockerNext, ClearBlocker, ClearAllBlockers, TypeOK
<1>5. ASSUME NEW i \in Attended, AttentionNext(i) PROVE Shrinks
  BY <1>5 DEF AttentionNext, ImportPrompt, ImportResponse, MarkRead, MarkUnread
<1>6. CASE UNCHANGED vars
  BY <1>6 DEF vars
<1> QED BY <1>1, <1>2, <1>3, <1>4, <1>5, <1>6 DEF Next

\* Waiting on fewer items cannot close a cycle.
LEMMA ShrinkingKeepsAcyclic ==
    ASSUME WaitGraphAcyclic, \A x \in Items : blockers'[x] \subseteq blockers[x]
    PROVE  WaitGraphAcyclic'
<1> SUFFICES ASSUME NEW S \in SUBSET Items, S # {}
             PROVE  \E x \in S : WaitsOn(x)' \cap S = {}
  BY DEF WaitGraphAcyclic
<1>1. PICK x \in S : WaitsOn(x) \cap S = {}
  BY DEF WaitGraphAcyclic
<1>2. WaitsOn(x)' \subseteq WaitsOn(x)
  BY DEF WaitsOn
<1> QED BY <1>1, <1>2

\* What AddBlockers does to the edges: the item now also waits on items that
\* do not wait on it, directly or indirectly; nobody else's waits change.
LEMMA AddedEdges ==
    ASSUME TypeOK, NEW i \in Items, NEW R \in SUBSET Requests, NEW at \in CreationTimes,
           AddBlockers(i, R, at)
    PROVE  /\ \A x \in Items \ {i} : WaitsOn(x)' = WaitsOn(x)
           /\ \A t \in WaitsOn(i)' \ WaitsOn(i) :
                 t \in Items /\ t # i /\ ~BlocksTransitively(t, i)
<1> DEFINE new == NewRequests(i, R)
<1>1. PICK ids \in FreshIDs(i, new) :
        blockers' = [blockers EXCEPT ![i] = @ \cup
          {[id |-> ids[r], kind |-> r.kind, until |-> r.until,
            item |-> r.item, at |-> at] : r \in new}]
  BY DEF AddBlockers
<1>2. ASSUME NEW x \in Items \ {i} PROVE WaitsOn(x)' = WaitsOn(x)
  <2>1. blockers'[x] = blockers[x]
    BY <1>1 DEF TypeOK
  <2> QED BY <2>1 DEF WaitsOn
<1>3. ASSUME NEW t \in WaitsOn(i)' \ WaitsOn(i)
      PROVE  t \in Items /\ t # i /\ ~BlocksTransitively(t, i)
  <2>1. PICK b \in blockers'[i] : b.kind = "item" /\ b.item = t
    BY DEF WaitsOn
  <2>2. b \notin blockers[i]
    BY <2>1 DEF WaitsOn
  <2>3. PICK r \in new : b = [id |-> ids[r], kind |-> r.kind, until |-> r.until,
                              item |-> r.item, at |-> at]
    BY <1>1, <2>1, <2>2 DEF TypeOK
  <2>4. r \in R /\ r.kind = "item" /\ r.item = t
    BY <2>1, <2>3 DEF NewRequests
  <2>5. t \in Items
    BY <2>4, RequestFields
  <2>6. t # i
    BY <2>4 DEF AddBlockers, ValidRequest
  <2>7. ~BlocksTransitively(t, i)
    BY <2>4 DEF AddBlockers, NoCycle
  <2> QED BY <2>5, <2>6, <2>7
<1> QED BY <1>2, <1>3

\* The refusal of applyBlockerAddCommand keeps the graph acyclic.
LEMMA AddingKeepsAcyclic ==
    ASSUME TypeOK, WaitGraphAcyclic,
           NEW i \in Items, NEW R \in SUBSET Requests, NEW at \in CreationTimes,
           AddBlockers(i, R, at)
    PROVE  WaitGraphAcyclic'
<1> SUFFICES ASSUME NEW S \in SUBSET Items, S # {}
             PROVE  \E x \in S : WaitsOn(x)' \cap S = {}
  BY DEF WaitGraphAcyclic
<1>1. PICK x \in S : WaitsOn(x) \cap S = {}
  BY DEF WaitGraphAcyclic
<1>2. CASE x # i
  BY <1>1, <1>2, AddedEdges
<1>3. CASE x = i /\ WaitsOn(i)' \cap S = {}
  BY <1>3
<1>4. CASE x = i /\ WaitsOn(i)' \cap S # {}
  <2>1. PICK t \in WaitsOn(i)' \cap S : t \notin WaitsOn(i)
    BY <1>1, <1>4
  <2>2. t \in Items /\ t # i /\ ~BlocksTransitively(t, i)
    BY <2>1, AddedEdges
  <2>3. PICK seen \in SUBSET Items :
          /\ t \in seen
          /\ \A y \in seen : WaitsOn(y) \subseteq seen /\ i \notin WaitsOn(y)
    BY <2>2 DEF BlocksTransitively
  <2> DEFINE C == (seen \ {i}) \cap S
  <2>4. C \in SUBSET Items /\ C # {}
    BY <2>1, <2>2, <2>3
  <2>5. PICK y \in C : WaitsOn(y) \cap C = {}
    BY <2>4 DEF WaitGraphAcyclic
  <2>6. WaitsOn(y) \cap S = {}
    BY <2>3, <2>5
  <2>7. WaitsOn(y)' = WaitsOn(y)
    BY <2>5, AddedEdges
  <2> QED BY <2>5, <2>6, <2>7
<1> QED BY <1>2, <1>3, <1>4

\* No sequence of commands and sweeps makes items wait on each other in a ring,
\* so every set of waiting items has one that only the world can release.
THEOREM NoWaitCycles == Spec => []WaitGraphAcyclic
<1>1. Init => WaitGraphAcyclic
  BY DEF Init, WaitGraphAcyclic, WaitsOn
<1>2. TypeOK /\ WaitGraphAcyclic /\ [Next]_vars => WaitGraphAcyclic'
  BY OnlyAddBlockersAdds, ShrinkingKeepsAcyclic, AddingKeepsAcyclic
<1> QED BY <1>1, <1>2, TypeCorrect, PTL DEF Spec

----------------------------------------------------------------------------
(* Slugs *)

\* An item that takes a slug no other open item holds keeps slugs unique.
LEMMA TakingAFreeSlug ==
    ASSUME TypeOK, SlugsIdentifyOpenItems, NEW i \in Items, NEW s \in Slugs,
           s \notin UsedSlugs(i),
           state' = [state EXCEPT ![i] = "backlog"],
           slug' = [slug EXCEPT ![i] = s],
           blockers' = blockers
    PROVE  SlugsIdentifyOpenItems'
BY DEF SlugsIdentifyOpenItems, UsedSlugs, TypeOK, Open

\* One slug, one open item; nothing else holds a slug or a blocker.
THEOREM SlugsStayUnique == Spec => []SlugsIdentifyOpenItems
<1>1. Init => SlugsIdentifyOpenItems
  BY DEF Init, SlugsIdentifyOpenItems, Open
<1>2. TypeOK /\ SlugsIdentifyOpenItems /\ [Next]_vars => SlugsIdentifyOpenItems'
  <2> SUFFICES ASSUME TypeOK, SlugsIdentifyOpenItems, [Next]_vars
               PROVE  SlugsIdentifyOpenItems'
    OBVIOUS
  <2>1. CASE Tick
    BY <2>1 DEF Tick, SlugsIdentifyOpenItems
  <2>2. CASE SweepBlockers
    BY <2>2 DEF SweepBlockers, SlugsIdentifyOpenItems, Sweepable
  <2>3. ASSUME NEW i \in Items, LifecycleNext(i) PROVE SlugsIdentifyOpenItems'
    <3>1. ASSUME NEW s \in Slugs, NEW t \in Titles, NEW d \in BOOLEAN, Create(i, s, t, d)
          PROVE SlugsIdentifyOpenItems'
      BY <3>1, TakingAFreeSlug DEF Create
    <3>2. ASSUME NEW t \in Titles, NEW d \in BOOLEAN, Edit(i, t, d)
          PROVE SlugsIdentifyOpenItems'
      BY <3>2 DEF Edit, SlugsIdentifyOpenItems
    <3>3. ASSUME NEW force \in BOOLEAN, Activate(i, force) PROVE SlugsIdentifyOpenItems'
      BY <3>3 DEF Activate, SlugsIdentifyOpenItems, TypeOK, Open
    <3>4. CASE Deactivate(i)
      BY <3>4 DEF Deactivate, SlugsIdentifyOpenItems, TypeOK, Open
    <3>5. CASE Close(i)
      BY <3>5 DEF Close, SlugsIdentifyOpenItems, TypeOK, Open
    <3>6. CASE Reopen(i)
      <4>1. PICK s \in UniqueSlug(Slugify[title[i]], i) : slug' = [slug EXCEPT ![i] = s]
        BY <3>6 DEF Reopen
      <4>2. s \in Slugs /\ s \notin UsedSlugs(i)
        BY <4>1, UniqueSlugIsFree, SlugAssumption DEF TypeOK
      <4> QED BY <3>6, <4>1, <4>2, TakingAFreeSlug DEF Reopen
    <3>7. CASE Delete(i)
      BY <3>7 DEF Delete, SlugsIdentifyOpenItems, TypeOK, Open
    <3> QED BY <2>3, <3>1, <3>2, <3>3, <3>4, <3>5, <3>6, <3>7 DEF LifecycleNext
  <2>4. ASSUME NEW i \in Items, BlockerNext(i) PROVE SlugsIdentifyOpenItems'
    <3>1. state' = state /\ slug' = slug
      BY <2>4 DEF BlockerNext, AddBlockers, ClearBlocker, ClearAllBlockers
    <3>2. \A x \in Items : state[x] \notin Open => blockers'[x] = {}
      <4>1. \A x \in Items \ {i} : blockers'[x] = blockers[x]
        BY <2>4 DEF BlockerNext, AddBlockers, ClearBlocker, ClearAllBlockers, TypeOK
      <4>2. state[i] \notin Open => blockers'[i] = {}
        BY <2>4 DEF BlockerNext, AddBlockers, ClearBlocker, ClearAllBlockers, TypeOK, SlugsIdentifyOpenItems
      <4> QED BY <4>1, <4>2 DEF SlugsIdentifyOpenItems
    <3> QED BY <3>1, <3>2 DEF SlugsIdentifyOpenItems
  <2>5. ASSUME NEW i \in Attended, AttentionNext(i) PROVE SlugsIdentifyOpenItems'
    BY <2>5 DEF AttentionNext, ImportPrompt, ImportResponse, MarkRead, MarkUnread,
                SlugsIdentifyOpenItems
  <2>6. CASE UNCHANGED vars
    BY <2>6 DEF vars, SlugsIdentifyOpenItems
  <2> QED BY <2>1, <2>2, <2>3, <2>4, <2>5, <2>6 DEF Next
<1> QED BY <1>1, <1>2, TypeCorrect, PTL DEF Spec

----------------------------------------------------------------------------
(* Attention *)

\* The strengthening of ParkedStaysParked: parking marked the item read.
ReadSinceParked == \A i \in Items : \A b \in blockers[i] : read[i] >= b.at

\* An attention step never moves a read mark back, and touches no blocker.
LEMMA AttentionKeepsReadMarks ==
    ASSUME TypeOK, NEW i \in Attended, AttentionNext(i)
    PROVE  blockers' = blockers /\ \A x \in Items : read'[x] >= read[x]
<1>1. PICK at \in 1..now : \/ ImportPrompt(i, at) \/ ImportResponse(i, at)
                           \/ MarkRead(i, at) \/ MarkUnread(i, at)
  BY DEF AttentionNext
<1>2. CASE MarkRead(i, at)
  BY <1>2 DEF MarkRead, Later, TypeOK
<1>3. CASE read' = read /\ blockers' = blockers
  BY <1>3 DEF TypeOK
<1> QED BY <1>1, <1>2, <1>3 DEF ImportPrompt, ImportResponse, MarkUnread

\* Every blocker is no older than the item's read mark: commands, sweeps and
\* late imports keep it so.
LEMMA ReadSinceParkedInductive ==
    ASSUME TypeOK, SlugsIdentifyOpenItems, ReadSinceParked, [Next]_vars
    PROVE  ReadSinceParked'
<1>1. CASE /\ \A x \in Items : blockers'[x] \subseteq blockers[x]
           /\ \A x \in Items : blockers'[x] # {} => read'[x] >= read[x]
  <2> SUFFICES ASSUME NEW i \in Items, NEW b \in blockers'[i] PROVE read'[i] >= b.at
    BY DEF ReadSinceParked
  <2>1. b \in blockers[i] /\ read'[i] >= read[i] /\ read[i] >= b.at
    BY <1>1 DEF ReadSinceParked
  <2>2. b.at \in Nat /\ read[i] \in Nat
    BY <2>1 DEF TypeOK, Blocker
  <2>3. TypeOK'
    BY TypeOKInductive
  <2> QED BY <2>1, <2>2, <2>3 DEF TypeOK
<1>2. ASSUME NEW i \in Items, NEW R \in SUBSET Requests, NEW at \in CreationTimes,
             AddBlockers(i, R, at)
      PROVE  ReadSinceParked'
  <2> SUFFICES ASSUME NEW x \in Items, NEW b \in blockers'[x] PROVE read'[x] >= b.at
    BY DEF ReadSinceParked
  <2>1. at \in Nat /\ read \in [Items -> Nat] /\ read' = [read EXCEPT ![i] = Later(@, at)]
    BY <1>2 DEF CreationTimes, AddBlockers, TypeOK
  <2>2. CASE b \in blockers[x]
    <3>1. read[x] >= b.at /\ b.at \in Nat
      BY <2>2 DEF ReadSinceParked, TypeOK, Blocker
    <3> QED BY <2>1, <3>1 DEF Later
  <2>3. CASE b \notin blockers[x]
    <3>1. x = i /\ b.at = at
      BY <1>2, <2>3 DEF AddBlockers, TypeOK
    <3> QED BY <2>1, <3>1 DEF Later
  <2> QED BY <2>2, <2>3
<1>3. CASE Tick
  BY <1>1, <1>3 DEF Tick, attention, TypeOK
<1>4. CASE SweepBlockers
  BY <1>1, <1>4 DEF SweepBlockers, attention, TypeOK
<1>5. ASSUME NEW i \in Items, LifecycleNext(i) PROVE ReadSinceParked'
  <2>1. CASE Delete(i)
    BY <1>1, <2>1 DEF Delete, TypeOK, SlugsIdentifyOpenItems, Open
  <2>2. CASE read' = read /\ (blockers' = blockers \/ Close(i))
    BY <1>1, <2>2 DEF Close, TypeOK
  <2> QED BY <1>5, <2>1, <2>2 DEF LifecycleNext, Create, Edit, Activate, Deactivate, Close,
                                  Reopen, attention
<1>6. ASSUME NEW i \in Items, NEW id \in BlockerIDs,
             ClearBlocker(i, id)
      PROVE  ReadSinceParked'
  BY <1>1, <1>6 DEF ClearBlocker, attention, TypeOK
<1>7. ASSUME NEW i \in Items, ClearAllBlockers(i) PROVE ReadSinceParked'
  BY <1>1, <1>7 DEF ClearAllBlockers, attention, TypeOK
<1>8. ASSUME NEW i \in Attended, AttentionNext(i) PROVE ReadSinceParked'
  BY <1>1, <1>8, AttentionKeepsReadMarks
<1>9. CASE UNCHANGED vars
  BY <1>1, <1>9 DEF vars, attention, TypeOK
<1> QED BY <1>2, <1>3, <1>4, <1>5, <1>6, <1>7, <1>8, <1>9 DEF Next, BlockerNext

\* A waiting item is eligible for the queue only for something newer than every
\* decision to park it.
THEOREM ParkingHolds == Spec => []ParkedStaysParked
<1>1. Init => ReadSinceParked
  BY DEF Init, ReadSinceParked
<1>2. TypeOK /\ SlugsIdentifyOpenItems /\ ReadSinceParked /\ [Next]_vars => ReadSinceParked'
  BY ReadSinceParkedInductive
<1>3. TypeOK /\ ReadSinceParked => ParkedStaysParked
  <2> SUFFICES ASSUME TypeOK, ReadSinceParked, NEW i \in Items, Waiting(i), Eligible(i),
                      NEW b \in blockers[i]
               PROVE  completed[i] > b.at \/ unread[i] > b.at
    BY DEF ParkedStaysParked
  <2>1. read[i] >= b.at /\ b.at \in Nat
    BY DEF ReadSinceParked, TypeOK, Blocker
  <2>2. completed[i] > read[i] \/ unread[i] > read[i]
    BY DEF Eligible, Unread
  <2>3. read[i] \in Nat /\ completed[i] \in Nat /\ unread[i] \in Nat
    BY DEF TypeOK
  <2> QED BY <2>1, <2>2, <2>3
<1> QED BY <1>1, <1>2, <1>3, TypeCorrect, SlugsStayUnique, PTL DEF Spec

----------------------------------------------------------------------------
(* Why an item stops waiting *)

\* What waits goes on waiting when time stands still and no blocker goes.
LEMMA KeptBlockersWait ==
    ASSUME NEW i \in Items, Waiting(i), now' = now, blockers[i] \subseteq blockers'[i]
    PROVE  Waiting(i)'
BY DEF Waiting, OpenBlocker

\* Commands that clear no blocker, but for closing the item.
LEMMA CommandsKeepBlockers ==
    ASSUME TypeOK, NEW j \in Items, LifecycleNext(j) \/ BlockerNext(j),
           NEW i \in Items, state'[i] \in Open, cause' # "manual"
    PROVE  now' = now /\ blockers[i] \subseteq blockers'[i]
<1>1. CASE Close(j)
  <2>1. i # j
    BY <1>1 DEF Close, TypeOK, Open
  <2> QED BY <1>1, <2>1 DEF Close, TypeOK
<1>2. CASE LifecycleNext(j) /\ ~Close(j)
  BY <1>2 DEF LifecycleNext, Create, Edit, Activate, Deactivate, Reopen, Delete
<1>3. CASE BlockerNext(j)
  <2>1. PICK R \in SUBSET Requests, at \in CreationTimes : AddBlockers(j, R, at)
    BY <1>3 DEF BlockerNext, ClearBlocker, ClearAllBlockers
  <2> QED BY <2>1 DEF AddBlockers, TypeOK
<1> QED BY <1>1, <1>2, <1>3

\* An open item stops waiting only when the condition of each of its open
\* blockers is met: at a tick when the last deadline passes, at a sweep when
\* every blocker is resolved, at no other step.
THEOREM WaitsEndForCause == Spec => UnparkedForCause
<1> DEFINE Met(i) == \A b \in blockers[i] : OpenBlocker(b) =>
                        \/ b.kind = "time" /\ (b.until <= now' \/ requested[i] > b.at)
                        \/ b.kind = "item" /\ state[b.item] \notin Open
           Ends(i) == Waiting(i) /\ ~Waiting(i)' /\ state'[i] \in Open /\ cause' # "manual"
<1>1. TypeOK /\ [Next]_vars => [\A i \in Items : Ends(i) => Met(i)]_vars
  <2> SUFFICES ASSUME TypeOK, Next, NEW i \in Items, Ends(i)
               PROVE  Met(i)
    OBVIOUS
  <2>1. CASE Tick
    <3> SUFFICES ASSUME NEW b \in blockers[i], OpenBlocker(b)
                 PROVE  b.kind = "time" /\ b.until <= now'
      OBVIOUS
    <3>1. b \in blockers'[i] /\ now' \in Nat /\ b.until \in Nat
      BY <2>1 DEF Tick, TypeOK, Blocker
    <3>2. ~OpenBlocker(b)'
      BY <3>1 DEF Waiting
    <3> QED BY <3>1, <3>2 DEF OpenBlocker
  <2>2. CASE SweepBlockers
    <3> SUFFICES ASSUME NEW b \in blockers[i], OpenBlocker(b)
                 PROVE  \/ b.kind = "time" /\ (b.until <= now' \/ requested[i] > b.at)
                        \/ b.kind = "item" /\ state[b.item] \notin Open
      OBVIOUS
    <3>1. now' = now /\ ~OpenBlocker(b)' => ~OpenBlocker(b)
      BY DEF OpenBlocker
    <3>2. now' = now /\ b \notin blockers'[i]
      BY <2>2, <3>1 DEF SweepBlockers, Waiting
    <3>3. Resolved(i, b)
      BY <2>2, <3>2 DEF SweepBlockers
    <3> QED BY <3>2, <3>3 DEF Resolved
  <2>3. ASSUME NEW j \in Items, LifecycleNext(j) \/ BlockerNext(j) PROVE FALSE
    BY <2>3, CommandsKeepBlockers, KeptBlockersWait
  <2>4. ASSUME NEW j \in Attended, AttentionNext(j) PROVE FALSE
    <3>1. now' = now /\ blockers' = blockers
      BY <2>4 DEF AttentionNext, ImportPrompt, ImportResponse, MarkRead, MarkUnread
    <3> QED BY <3>1, KeptBlockersWait
  <2> QED BY <2>1, <2>2, <2>3, <2>4 DEF Next
<1>2. TypeOK /\ [Next]_vars =>
        [\A i \in Items :
            Waiting(i) /\ ~Waiting(i)' /\ state'[i] \in Open /\ cause' # "manual" =>
                \A b \in blockers[i] : OpenBlocker(b) =>
                   \/ b.kind = "time" /\ (b.until <= now' \/ requested[i] > b.at)
                   \/ b.kind = "item" /\ state[b.item] \notin Open]_vars
  BY <1>1
<1> QED BY <1>2, TypeCorrect, PTL DEF Spec, UnparkedForCause

----------------------------------------------------------------------------
(* Capacity *)

\* The strengthening of CapacityRespected: only finitely many items are active,
\* so that counting them means something.
CapacityInv ==
    /\ IsFiniteSet(ActiveDeepWork)
    /\ CapacityRespected

\* A smaller set of active deep work is still within the limit.
LEMMA LessWorkFits ==
    ASSUME CapacityInv, IsFiniteSet(ActiveDeepWork'),
           (ActiveDeepWork \ excused)' \subseteq ActiveDeepWork \ excused
    PROVE  CapacityInv'
<1>1. IsFiniteSet(ActiveDeepWork \ excused)
  BY FS_Subset DEF CapacityInv
<1>2. Cardinality((ActiveDeepWork \ excused)') <= Cardinality(ActiveDeepWork \ excused)
  BY <1>1, FS_Subset
<1>3. /\ Cardinality((ActiveDeepWork \ excused)') \in Nat
      /\ Cardinality(ActiveDeepWork \ excused) \in Nat
  BY <1>1, FS_Subset, FS_CardinalityType
<1> QED BY <1>2, <1>3, BoundsAssumption DEF CapacityInv, CapacityRespected

\* Editing an item excuses it when it makes active work deep.
LEMMA EditFits ==
    ASSUME TypeOK, CapacityInv, NEW i \in Items, NEW t \in Titles, NEW d \in BOOLEAN, Edit(i, t, d)
    PROVE  CapacityInv'
<1>1. ActiveDeepWork' \subseteq ActiveDeepWork \cup {i}
  BY DEF Edit, ActiveDeepWork, TypeOK
<1>2. IsFiniteSet(ActiveDeepWork')
  BY <1>1, FS_AddElement, FS_Subset DEF CapacityInv
<1>3. (ActiveDeepWork \ excused)' \subseteq ActiveDeepWork \ excused
  BY DEF Edit, ActiveDeepWork, TypeOK
<1> QED BY <1>2, <1>3, LessWorkFits

\* Activating counts the active items before it adds one, unless it is forced.
LEMMA ActivateFits ==
    ASSUME TypeOK, CapacityInv, NEW i \in Items, NEW force \in BOOLEAN, Activate(i, force)
    PROVE  CapacityInv'
<1>1. ActiveDeepWork' \subseteq ActiveDeepWork \cup {i}
  BY DEF Activate, ActiveDeepWork, TypeOK
<1>2. /\ IsFiniteSet(ActiveDeepWork) /\ IsFiniteSet(ActiveDeepWork \cup {i})
      /\ IsFiniteSet(ActiveDeepWork')
  BY <1>1, FS_AddElement, FS_Subset DEF CapacityInv
<1>3. CASE deepWork[i] /\ ~force
  <2>1. Cardinality(ActiveDeepWork) < MaxActive /\ Cardinality(ActiveDeepWork) \in Nat
    BY <1>2, <1>3, FS_CardinalityType DEF Activate
  <2>2. /\ Cardinality(ActiveDeepWork \cup {i}) \in Nat
        /\ Cardinality(ActiveDeepWork \cup {i}) <= Cardinality(ActiveDeepWork) + 1
    BY <1>2, <2>1, FS_AddElement, FS_CardinalityType
  <2>3. (ActiveDeepWork \ excused)' \subseteq ActiveDeepWork \cup {i}
    BY <1>1
  <2>4. /\ Cardinality((ActiveDeepWork \ excused)') \in Nat
        /\ Cardinality((ActiveDeepWork \ excused)') <= Cardinality(ActiveDeepWork \cup {i})
    BY <1>2, <2>3, FS_Subset, FS_CardinalityType
  <2>5. Cardinality((ActiveDeepWork \ excused)') <= MaxActive
    BY <2>1, <2>2, <2>4, BoundsAssumption
  <2> QED BY <1>2, <2>5 DEF CapacityInv, CapacityRespected
<1>4. CASE ~(deepWork[i] /\ ~force)
  <2>1. (ActiveDeepWork \ excused)' \subseteq ActiveDeepWork \ excused
    BY <1>4 DEF Activate, ActiveDeepWork, TypeOK
  <2> QED BY <1>2, <2>1, LessWorkFits
<1> QED BY <1>3, <1>4

\* Every other step leaves no more active deep work, and takes the excuse only
\* from an item that is active no more.
LEMMA OthersFit ==
    ASSUME TypeOK, CapacityInv, ActiveDeepWork' \subseteq ActiveDeepWork,
           excused \cap ActiveDeepWork' \subseteq excused'
    PROVE  CapacityInv'
<1>1. IsFiniteSet(ActiveDeepWork')
  BY FS_Subset DEF CapacityInv
<1>2. (ActiveDeepWork \ excused)' \subseteq ActiveDeepWork \ excused
  OBVIOUS
<1> QED BY <1>1, <1>2, LessWorkFits

\* More items than the limit are active with deep work only by force or by a
\* mark set while they were active (canonicalDeepWorkCapacity).
THEOREM CapacityHolds == Spec => []CapacityRespected
<1>1. Init => CapacityInv
  <2> SUFFICES ASSUME Init PROVE CapacityInv
    OBVIOUS
  <2>1. ActiveDeepWork = {} /\ ActiveDeepWork \ excused = {}
    BY DEF Init, ActiveDeepWork
  <2> QED BY <2>1, FS_EmptySet, BoundsAssumption DEF CapacityInv, CapacityRespected
<1>2. TypeOK /\ CapacityInv /\ [Next]_vars => CapacityInv'
  <2> SUFFICES ASSUME TypeOK, CapacityInv, [Next]_vars PROVE CapacityInv'
    OBVIOUS
  <2>1. ASSUME UNCHANGED <<state, deepWork, excused>> PROVE CapacityInv'
    BY <2>1, OthersFit DEF ActiveDeepWork
  <2>2. CASE Tick \/ SweepBlockers \/ UNCHANGED vars
    BY <2>1, <2>2 DEF Tick, SweepBlockers, vars
  <2>3. ASSUME NEW i \in Items, LifecycleNext(i) PROVE CapacityInv'
    <3>1. ASSUME NEW s \in Slugs, NEW t \in Titles, NEW d \in BOOLEAN, Create(i, s, t, d)
          PROVE  CapacityInv'
      BY <3>1, OthersFit DEF Create, ActiveDeepWork, TypeOK
    <3>2. CASE Deactivate(i)
      BY <3>2, OthersFit DEF Deactivate, ActiveDeepWork, TypeOK
    <3>3. CASE Close(i)
      BY <3>3, OthersFit DEF Close, ActiveDeepWork, TypeOK
    <3>4. CASE Reopen(i)
      BY <3>4, OthersFit DEF Reopen, ActiveDeepWork, TypeOK
    <3>5. CASE Delete(i)
      BY <3>5, OthersFit DEF Delete, ActiveDeepWork, TypeOK
    <3> QED BY <2>3, <3>1, <3>2, <3>3, <3>4, <3>5, EditFits, ActivateFits DEF LifecycleNext
  <2>4. ASSUME NEW i \in Items, BlockerNext(i) PROVE CapacityInv'
    BY <2>1, <2>4 DEF BlockerNext, AddBlockers, ClearBlocker, ClearAllBlockers
  <2>5. ASSUME NEW i \in Attended, AttentionNext(i) PROVE CapacityInv'
    BY <2>1, <2>5 DEF AttentionNext, ImportPrompt, ImportResponse, MarkRead, MarkUnread
  <2> QED BY <2>2, <2>3, <2>4, <2>5 DEF Next
<1>3. CapacityInv => CapacityRespected
  BY DEF CapacityInv
<1> QED BY <1>1, <1>2, <1>3, TypeCorrect, PTL DEF Spec

----------------------------------------------------------------------------
(* The search for a cycle of waits *)

\* The items found so far, and that nothing they wait on was missed: what a
\* visited item waits on was visited, is on the stack or is about to be pushed,
\* and goal is among it only while it is about to be looked at.
Found == visited \union {stack[k] : k \in 1 .. Len(stack)}

ClosedSet(s) == \A x \in s : graph[x] \subseteq s

SearchInv ==
    /\ SearchTypeOK
    /\ \A x \in todo : \E y \in visited : x \in graph[y]
    /\ \A s \in SUBSET Nodes : origin \in s /\ ClosedSet(s) => Found \subseteq s
    /\ answer = "yes" => \E y \in visited : goal \in graph[y]
    /\ answer # "yes" =>
          /\ origin \in Found
          /\ \A x \in visited : graph[x] \subseteq Found \union todo /\ (goal \in graph[x] => goal \in todo)
    /\ answer = "no" => todo = {} /\ stack = <<>>

\* The last of a sequence and the others.
LEMMA LastAndFront ==
    ASSUME NEW S, NEW s \in Seq(S), s # <<>>
    PROVE  /\ Last(s) \in S /\ Front(s) \in Seq(S) /\ Len(Front(s)) = Len(s) - 1
           /\ {s[k] : k \in 1 .. Len(s)} = {Front(s)[k] : k \in 1 .. Len(Front(s))} \union {Last(s)}
<1>1. Len(s) \in Nat \ {0}
  BY EmptySeq
<1>2. \A k \in 1 .. Len(s) : s[k] \in S
  BY ElementOfSeq
<1> DEFINE f == Front(s)
           n == Len(s) - 1
<1>3. f = SubSeq(s, 1, n)
  BY DEF Front
<1>4. n \in Nat /\ 1 \in Int /\ n \in Int /\ \A k \in 1 .. n : s[k] \in S
  BY <1>1, <1>2
<1>5. f \in Seq(S) /\ Len(f) = n /\ \A k \in 1 .. n : f[k] = s[k]
  <2> HIDE DEF f, n
  <2> QED BY <1>3, <1>4, SubSeqProperties
<1>6. Last(s) = s[Len(s)]
  BY DEF Last
<1> HIDE DEF f
<1>7. {s[k] : k \in 1 .. Len(s)} = {f[k] : k \in 1 .. Len(f)} \union {Last(s)}
  <2>1. ASSUME NEW k \in 1 .. Len(s) PROVE s[k] \in {f[j] : j \in 1 .. Len(f)} \union {Last(s)}
    <3>1. k = Len(s) \/ k \in 1 .. n
      BY <1>1
    <3> QED BY <1>5, <1>6, <3>1
  <2>2. ASSUME NEW k \in 1 .. Len(f) PROVE f[k] \in {s[j] : j \in 1 .. Len(s)}
    BY <1>1, <1>5
  <2>3. Last(s) \in {s[j] : j \in 1 .. Len(s)}
    BY <1>1, <1>6
  <2> QED BY <2>1, <2>2, <2>3
<1>8. Last(s) \in S
  BY <1>1, <1>2, <1>6
<1> QED BY <1>5, <1>7, <1>8 DEF f

\* A sequence of one.
LEMMA OneNode ==
    ASSUME NEW S, NEW e \in S
    PROVE  <<e>> \in Seq(S) /\ Len(<<e>>) = 1 /\ <<e>>[1] = e
OBVIOUS

\* A sequence and one element after it.
LEMMA Pushed ==
    ASSUME NEW S, NEW s \in Seq(S), NEW e \in S
    PROVE  /\ Append(s, e) \in Seq(S) /\ Len(s) \in Nat /\ Len(Append(s, e)) = Len(s) + 1
           /\ \A k \in 1 .. Len(s) : Append(s, e)[k] = s[k]
           /\ Append(s, e)[Len(s) + 1] = e
<1>1. Len(s) \in Nat
  BY LenProperties
<1> QED BY <1>1, AppendProperties

LEMMA SearchInitInv == SearchInit => SearchInv
<1> SUFFICES ASSUME SearchInit PROVE SearchInv
  OBVIOUS
<1>1. /\ graph \in [Nodes -> SUBSET Nodes] /\ origin \in Nodes /\ goal \in Nodes
      /\ stack = <<origin>> /\ visited = {} /\ todo = {} /\ answer = "none yet"
  BY DEF SearchInit
<1>2. stack \in Seq(Nodes) /\ Len(stack) = 1 /\ stack[1] = origin
  BY <1>1, OneNode
<1>3. {stack[k] : k \in 1 .. 1} = {origin}
  BY <1>2
<1>4. Found = {origin}
  BY <1>1, <1>2, <1>3 DEF Found
<1>5. SearchTypeOK
  BY <1>1, <1>2 DEF SearchTypeOK
<1> QED BY <1>1, <1>4, <1>5 DEF SearchInv, ClosedSet

LEMMA SearchNextInv ==
    ASSUME SearchInv, [SearchNext]_searchVars
    PROVE  SearchInv'
<1> DEFINE On == {stack[k] : k \in 1 .. Len(stack)}
<1>1. /\ graph \in [Nodes -> SUBSET Nodes] /\ origin \in Nodes /\ goal \in Nodes /\ stack \in Seq(Nodes)
      /\ visited \in SUBSET Nodes /\ todo \in SUBSET Nodes /\ answer \in {"none yet", "yes", "no"}
  BY DEF SearchInv, SearchTypeOK
<1>2. Found = visited \union On
  BY DEF Found
<1>3. CASE Pop
  <2> DEFINE last == Last(stack)
             rest == {Front(stack)[k] : k \in 1 .. Len(Front(stack))}
  <2>1. last \in Nodes /\ Front(stack) \in Seq(Nodes) /\ On = rest \union {last}
    BY <1>1, <1>3, LastAndFront DEF Pop
  <2>2. /\ answer = "none yet" /\ todo = {} /\ stack' = Front(stack)
        /\ UNCHANGED <<graph, origin, goal, answer>>
    BY <1>3 DEF Pop
  <2>3. Found' = visited' \union rest
    BY <2>2 DEF Found
  <2> HIDE DEF On, rest, last
  <2>4. CASE last \in visited
    <3>1. UNCHANGED <<visited, todo>>
      BY <1>3, <2>4 DEF Pop, last
    <3>2. Found' = Found
      BY <1>2, <2>1, <2>3, <2>4, <3>1
    <3>3. SearchTypeOK'
      BY <1>1, <2>1, <2>2, <3>1 DEF SearchTypeOK
    <3> QED BY <2>2, <3>1, <3>2, <3>3 DEF SearchInv, ClosedSet
  <2>5. CASE last \notin visited
    <3>1. visited' = visited \union {last} /\ todo' = graph[last]
      BY <1>3, <2>5 DEF Pop, last
    <3>2. Found' = Found
      BY <1>2, <2>1, <2>3, <3>1
    <3>3. SearchTypeOK'
      BY <1>1, <2>1, <2>2, <3>1 DEF SearchTypeOK
    <3>4. \A x \in todo' : \E y \in visited' : x \in graph'[y]
      BY <2>2, <3>1
    <3>5. \A x \in visited' : graph'[x] \subseteq Found' \union todo' /\ (goal' \in graph'[x] => goal' \in todo')
      BY <2>2, <3>1, <3>2 DEF SearchInv
    <3> QED BY <2>2, <3>1, <3>2, <3>3, <3>4, <3>5 DEF SearchInv, ClosedSet
  <2> QED BY <2>4, <2>5
<1>4. ASSUME NEW x \in Nodes, Look(x) PROVE SearchInv'
  <2>1. /\ answer = "none yet" /\ x \in todo /\ todo' = todo \ {x}
        /\ UNCHANGED <<graph, origin, goal, visited>>
    BY <1>4 DEF Look
  <2>2. PICK y \in visited : x \in graph[y]
    BY <2>1 DEF SearchInv
  <2>3. CASE x = goal
    <3>1. answer' = "yes" /\ UNCHANGED stack
      BY <1>4, <2>3 DEF Look
    <3>2. Found' = Found
      BY <2>1, <3>1 DEF Found
    <3>3. SearchTypeOK'
      BY <1>1, <2>1, <3>1 DEF SearchTypeOK
    <3> QED BY <2>1, <2>2, <2>3, <3>1, <3>2, <3>3 DEF SearchInv, ClosedSet
  <2>4. CASE x # goal
    <3>1. stack' = Append(stack, x) /\ UNCHANGED answer
      BY <1>4, <2>4 DEF Look
    <3>2. /\ stack' \in Seq(Nodes) /\ Len(stack') = Len(stack) + 1 /\ Len(stack) \in Nat
          /\ \A k \in 1 .. Len(stack) : stack'[k] = stack[k]
          /\ stack'[Len(stack) + 1] = x
      <4> DEFINE p == Append(stack, x)
      <4>1. /\ p \in Seq(Nodes) /\ Len(stack) \in Nat /\ Len(p) = Len(stack) + 1
            /\ \A k \in 1 .. Len(stack) : p[k] = stack[k]
            /\ p[Len(stack) + 1] = x
        BY ONLY <1>1, x \in Nodes, Pushed
      <4>2. stack' = p
        BY <3>1
      <4> HIDE DEF p
      <4> QED BY <4>1, <4>2
    <3>4. {stack'[k] : k \in 1 .. Len(stack')} = On \union {x}
      <4>1. ASSUME NEW k \in 1 .. Len(stack') PROVE stack'[k] \in On \union {x}
        <5>1. k = Len(stack) + 1 \/ k \in 1 .. Len(stack)
          BY <3>2
        <5> QED BY <3>2, <5>1
      <4>2. ASSUME NEW k \in 1 .. Len(stack) PROVE stack[k] \in {stack'[j] : j \in 1 .. Len(stack')}
        BY <3>2
      <4>3. x \in {stack'[j] : j \in 1 .. Len(stack')}
        BY <3>2
      <4> QED BY <4>1, <4>2, <4>3
    <3>5. Found' = Found \union {x}
      BY <1>2, <2>1, <3>4 DEF Found
    <3> HIDE DEF On
    <3>6. SearchTypeOK'
      BY <1>1, <2>1, <3>1, <3>2 DEF SearchTypeOK
    <3>7. ASSUME NEW s \in SUBSET Nodes, origin \in s, ClosedSet(s) PROVE Found' \subseteq s
      <4>1. Found \subseteq s
        BY <3>7 DEF SearchInv
      <4>2. y \in s
        BY <1>2, <4>1
      <4> QED BY <2>2, <3>5, <3>7, <4>1, <4>2 DEF ClosedSet
    <3>8. \A z \in visited : graph[z] \subseteq Found' \union todo' /\ (goal \in graph[z] => goal \in todo')
      BY <2>1, <2>4, <3>5 DEF SearchInv
    <3>9. origin \in Found' /\ \A z \in todo' : \E u \in visited : z \in graph[u]
      BY <2>1, <3>5 DEF SearchInv
    <3>10. \A s \in SUBSET Nodes : origin' \in s /\ ClosedSet(s)' => Found' \subseteq s
      BY <2>1, <3>7 DEF ClosedSet
    <3> QED BY <2>1, <3>1, <3>6, <3>8, <3>9, <3>10 DEF SearchInv
  <2> QED BY <2>3, <2>4
<1>5. CASE Exhaust
  <2>1. /\ answer = "none yet" /\ todo = {} /\ stack = <<>> /\ answer' = "no"
        /\ UNCHANGED <<graph, origin, goal, stack, visited, todo>>
    BY <1>5 DEF Exhaust
  <2>2. Found' = Found /\ SearchTypeOK'
    BY <1>1, <2>1 DEF Found, SearchTypeOK
  <2> QED BY <2>1, <2>2 DEF SearchInv, ClosedSet
<1>6. CASE UNCHANGED searchVars
  <2>1. UNCHANGED <<graph, origin, goal, stack, visited, todo, answer>>
    BY <1>6 DEF searchVars
  <2>2. Found' = Found /\ SearchTypeOK'
    BY <1>1, <2>1 DEF Found, SearchTypeOK
  <2>3. \A s \in SUBSET Nodes : ClosedSet(s)' <=> ClosedSet(s)
    BY <2>1 DEF ClosedSet
  <2> QED BY <2>1, <2>2, <2>3 DEF SearchInv
<1> QED BY <1>3, <1>4, <1>5, <1>6 DEF SearchNext

\* What the search has found is what every closed set holds, and nothing is missed.
THEOREM SearchIsInvariant == SearchSpec => []SearchInv
<1> QED BY SearchInitInv, SearchNextInv, PTL DEF SearchSpec

\* Whatever the items and their waits: the search answers yes exactly when goal
\* can be reached.
THEOREM SearchIsRight == SearchSpec => []SearchMeetsSpecification
<1>1. ASSUME SearchInv PROVE SearchMeetsSpecification
  <2>1. graph \in [Nodes -> SUBSET Nodes] /\ visited \in SUBSET Nodes
    BY <1>1 DEF SearchInv, SearchTypeOK
  <2>2. CASE answer = "yes"
    <3>1. PICK y \in visited : goal \in graph[y]
      BY <1>1, <2>2 DEF SearchInv
    <3>2. ASSUME NEW s \in SUBSET DOMAIN graph, origin \in s, \A x \in s : graph[x] \subseteq s /\ goal \notin graph[x]
          PROVE  FALSE
      <4>1. s \in SUBSET Nodes /\ ClosedSet(s)
        BY <2>1, <3>2 DEF ClosedSet
      <4>2. y \in s
        BY <1>1, <3>2, <4>1 DEF SearchInv, Found
      <4> QED BY <3>1, <3>2, <4>2
    <3> QED BY <2>2, <3>2 DEF SearchMeetsSpecification, Reaches
  <2>3. CASE answer = "no"
    <3>1. todo = {} /\ stack = <<>>
      BY <1>1, <2>3 DEF SearchInv
    <3>2. Found = visited
      BY <3>1, EmptySeq DEF Found
    <3>3. origin \in visited /\ \A x \in visited : graph[x] \subseteq visited /\ goal \notin graph[x]
      BY <1>1, <2>3, <3>1, <3>2 DEF SearchInv
    <3> QED BY <2>1, <2>3, <3>3 DEF SearchMeetsSpecification, Reaches
  <2> QED BY <2>2, <2>3 DEF SearchMeetsSpecification
<1> QED BY <1>1, SearchIsInvariant, PTL

\* The search cannot go on for ever, cycles or not: with finitely many items, every
\* step answers, visits one more of them, or leaves less to take and to look at.
THEOREM SearchCannotRunOn ==
    ASSUME IsFiniteSet(Nodes)
    PROVE  SearchSpec => [][SearchShrinks]_searchVars
<1>1. ASSUME SearchTypeOK, SearchNext PROVE SearchShrinks
  <2>1. graph \in [Nodes -> SUBSET Nodes] /\ stack \in Seq(Nodes) /\ todo \in SUBSET Nodes
    BY <1>1 DEF SearchTypeOK
  <2>2. Len(stack) \in Nat
    BY <2>1, LenProperties
  <2>3. CASE Pop
    <3>1. stack # <<>> /\ todo = {} /\ stack' = Front(stack)
      BY <2>3 DEF Pop
    <3>2. CASE Last(stack) \in visited
      <4>1. visited' = visited /\ todo' = todo
        BY <2>3, <3>2 DEF Pop
      <4>2. Len(Front(stack)) = Len(stack) - 1
        BY <2>1, <3>1, LastAndFront
      <4>3. Cardinality(todo) = 0
        BY <3>1, FS_EmptySet
      <4>4. Cardinality(todo') = 0 /\ Len(stack') = Len(stack) - 1
        BY <3>1, <4>1, <4>2, <4>3
      <4>5. 2 * Cardinality(todo') + Len(stack') < 2 * Cardinality(todo) + Len(stack)
        BY ONLY <2>2, <4>3, <4>4
      <4> QED BY <4>1, <4>5 DEF SearchShrinks
    <3>3. CASE Last(stack) \notin visited
      <4>1. visited' = visited \union {Last(stack)}
        BY <2>3, <3>3 DEF Pop
      <4> QED BY <3>3, <4>1 DEF SearchShrinks
    <3> QED BY <3>2, <3>3
  <2>4. ASSUME NEW x \in Nodes, Look(x) PROVE SearchShrinks
    <3>1. x \in todo /\ todo' = todo \ {x} /\ visited' = visited
      BY <2>4 DEF Look
    <3>2. IsFiniteSet(todo)
      BY <2>1, FS_Subset
    <3>3. Cardinality(todo) \in Nat /\ Cardinality(todo') = Cardinality(todo) - 1
      BY <3>1, <3>2, FS_CardinalityType, FS_RemoveElement
    <3>4. CASE x = goal
      BY <2>4, <3>4 DEF Look, SearchShrinks
    <3>5. CASE x # goal
      <4>1. stack' = Append(stack, x)
        BY <2>4, <3>5 DEF Look
      <4>2. Len(Append(stack, x)) = Len(stack) + 1
        BY <2>1, Pushed
      <4>3. Len(stack') = Len(stack) + 1
        BY <4>1, <4>2
      <4>4. 2 * Cardinality(todo') + Len(stack') < 2 * Cardinality(todo) + Len(stack)
        BY ONLY <2>2, <3>3, <4>3
      <4> QED BY <3>1, <4>4 DEF SearchShrinks
    <3> QED BY <3>4, <3>5
  <2>5. CASE Exhaust
    BY <2>5 DEF Exhaust, SearchShrinks
  <2> QED BY <1>1, <2>3, <2>4, <2>5 DEF SearchNext
<1>2. SearchInv => SearchTypeOK
  BY DEF SearchInv
<1> QED BY <1>1, <1>2, SearchIsInvariant, PTL DEF SearchSpec

\* blocksTransitively gives AddBlockers the answer that Items states: a search
\* of the current wait graph that has ended says yes if BlocksTransitively holds
\* and no if it does not.
THEOREM SearchServesItems ==
    ASSUME SearchMeetsSpecification, graph = [i \in Items |-> WaitsOn(i)],
           answer \in {"yes", "no"}
    PROVE  BlocksTransitively(origin, goal) <=> answer = "yes"
<1>1. DOMAIN graph = Items /\ \A i \in Items : graph[i] = WaitsOn(i)
  OBVIOUS
<1>2. Reaches(graph, origin, goal) <=> BlocksTransitively(origin, goal)
  BY <1>1 DEF Reaches, BlocksTransitively
<1> QED BY <1>2 DEF SearchMeetsSpecification
=============================================================================
