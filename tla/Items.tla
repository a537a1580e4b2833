------------------------------- MODULE Items -------------------------------
(***************************************************************************)
(* The canonical work items of the coordinator database: lifecycle state,  *)
(* slug, deep-work flag, typed blockers and attention markers.             *)
(*                                                                         *)
(* Every action is one bbolt write transaction run under the coordinator's *)
(* domain lock: a typed manifest command (domain.go, blockers.go), a store *)
(* command (store_command.go), an item creation (create_domain.go), a      *)
(* conversation import, or one pass of the 5 s blocker sweep.  A refused   *)
(* command changes nothing and is not an action.                           *)
(*                                                                         *)
(* Labels, priority, pins, the resolution and the payloads of events are   *)
(* left out: no property here tells them apart.                            *)
(***************************************************************************)
EXTENDS Naturals, FiniteSets

CONSTANTS
    Items,        \* work item IDs (random, never reused)
    Titles,       \* titles an item can carry
    Slugs,        \* canonical slugs, each a fixed point of model.Slugify
    Slugify,      \* Slugify[t]: the slug model.Slugify derives from title t
    Numbered,     \* Numbered[s][k]: slug s shortened and suffixed with -k
    MaxSuffix,    \* last suffix uniqueCanonicalSlug tries (10000 in the code)
    BlockerIDs,   \* IDs blockerID can hash to
    Deadlines,    \* times a time blocker may name
    MaxBatch,     \* bound: blockers requested by one command
    Attended,     \* bound: items whose attention markers move
    MaxActive,    \* deep_work.max_active
    MaxLag,       \* bound: how far a command's created_at may trail its commit
    MaxTime       \* bound: the clock stops here

None == "none"
NoSlug == ""

ASSUME ItemsAssumption == None \notin Items
ASSUME SlugAssumption ==
    /\ NoSlug \notin Slugs
    /\ Titles # {}
    /\ MaxSuffix \in Nat
    /\ Slugify \in [Titles -> Slugs]
    /\ Numbered \in [Slugs -> [2..MaxSuffix -> Slugs]]
ASSUME BoundsAssumption ==
    /\ Deadlines \subseteq Nat
    /\ Attended \subseteq Items
    /\ MaxBatch \in Nat /\ MaxActive \in Nat /\ MaxLag \in Nat /\ MaxTime \in Nat

VARIABLES
    now,        \* the daemon's clock
    state,      \* lifecycle state; "none" before creation, "deleted" after deletion
    slug,       \* canonical slug, NoSlug while closed
    title,
    deepWork,
    blockers,   \* the manifest's blockers
    requested,  \* attention markers of the item, 0 when unset:
    completed,  \*   last prompt, last completed turn,
    read,       \*   last read mark,
    unread,     \*   last explicit unread mark
    excused,    \* history: items whose event log shows how they passed the deep-work limit
    cause       \* history: whether the operator cleared blockers in the last transaction

attention == <<requested, completed, read, unread>>
vars == <<now, state, slug, title, deepWork, blockers, attention, excused, cause>>

----------------------------------------------------------------------------
Open == {"backlog", "active"}
Exists(i) == state[i] \in Open \cup {"closed"}

\* What a caller may ask an item to wait for (model.ValidateBlocker's shapes).
TimeRequests == [kind : {"time"}, until : Deadlines, item : {None}]
ItemRequests == [kind : {"item"}, until : {0}, item : Items]
ExternalRequests == [kind : {"external"}, until : {0}, item : {None}]
Requests == TimeRequests \cup ItemRequests \cup ExternalRequests

Blocker == [id : BlockerIDs, kind : {"time", "item", "external"},
            until : Nat, item : Items \cup {None}, at : Nat]

\* The items that item i waits on through item blockers.
WaitsOn(i) == {b.item : b \in {c \in blockers[i] : c.kind = "item"}}

\* Blocker.Open: an expired time blocker stops counting before it is swept.
OpenBlocker(b) == b.kind = "time" => b.until > now
Waiting(i) == \E b \in blockers[i] : OpenBlocker(b)

\* priority.Unread and priority.Eligible: the queue's admission rule.
Unread(i) == completed[i] > read[i] \/ unread[i] > read[i]
Eligible(i) == ~Waiting(i) \/ Unread(i)

\* Mutant: the marker written last wins.
LastWritten(a, b) == b

\* laterTime: markers never move back.
Later(a, b) == IF a > b THEN a ELSE b

\* Times a command committed now may have been created at.
CreationTimes == {t \in 0..now : t + MaxLag >= now}

----------------------------------------------------------------------------
(* Slugs *)

\* Mutant: backlog items do not hold their slugs.
UsedSlugsOfActive(i) == {slug[j] : j \in {k \in Items \ {i} : state[k] = "active"}}

\* Slugs held by the open items other than i.
UsedSlugs(i) == {slug[j] : j \in {k \in Items \ {i} : state[k] \in Open}}

\* The suffixes left when the bare slug is taken.
FreeSuffixes(base, i) == {k \in 2..MaxSuffix : Numbered[base][k] \notin UsedSlugs(i)}

\* Mutant: a taken base slug leaves the reopened item without one.
UniqueSlugOrNone(base, i) == IF base \notin UsedSlugs(i) THEN {base} ELSE {NoSlug}

\* The slugs uniqueCanonicalSlug may return: the base when free, else the first
\* free numbered candidate; none when every candidate is taken.
UniqueSlug(base, i) ==
    IF base \notin UsedSlugs(i) THEN {base}
    ELSE {Numbered[base][k] : k \in {n \in FreeSuffixes(base, i) :
                                        \A m \in FreeSuffixes(base, i) : n <= m}}

----------------------------------------------------------------------------
(* The wait graph *)

\* blocksTransitively: the search fails exactly when some set of items holds
\* `from`, is closed under item blockers, and nobody in it waits on `target`
\* (the final `seen` set is the least such set).
BlocksTransitively(from, target) ==
    ~ \E seen \in SUBSET Items :
        /\ from \in seen
        /\ \A x \in seen : WaitsOn(x) \subseteq seen /\ target \notin WaitsOn(x)

----------------------------------------------------------------------------
Init ==
    /\ now = 0
    /\ state = [i \in Items |-> "none"]
    /\ slug = [i \in Items |-> NoSlug]
    /\ title = [i \in Items |-> CHOOSE t \in Titles : TRUE]
    /\ deepWork = [i \in Items |-> FALSE]
    /\ blockers = [i \in Items |-> {}]
    /\ requested = [i \in Items |-> 0]
    /\ completed = [i \in Items |-> 0]
    /\ read = [i \in Items |-> 0]
    /\ unread = [i \in Items |-> 0]
    /\ excused = {}
    /\ cause = "other"

Tick ==
    /\ now < MaxTime
    /\ now' = now + 1
    /\ cause' = "other"
    /\ UNCHANGED <<state, slug, title, deepWork, blockers, attention, excused>>

\* executeCreateItemCommand: a fresh ID, backlog only, the slug not claimed.
Create(i, s, t, d) ==
    /\ state[i] = "none"
    /\ s \notin UsedSlugs(i)
    /\ state' = [state EXCEPT ![i] = "backlog"]
    /\ slug' = [slug EXCEPT ![i] = s]
    /\ title' = [title EXCEPT ![i] = t]
    /\ deepWork' = [deepWork EXCEPT ![i] = d]
    /\ cause' = "other"
    /\ UNCHANGED <<now, blockers, attention, excused>>

\* CommandEdit (and title_set, deep_work_set, its special cases): no capacity
\* check, in any state.
Edit(i, t, d) ==
    /\ Exists(i)
    /\ <<t, d>> # <<title[i], deepWork[i]>>
    /\ title' = [title EXCEPT ![i] = t]
    /\ deepWork' = [deepWork EXCEPT ![i] = d]
    /\ excused' = IF ~d THEN excused \ {i}
                  ELSE IF ~deepWork[i] /\ state[i] = "active" THEN excused \cup {i}
                  ELSE excused
    /\ cause' = "other"
    /\ UNCHANGED <<now, state, slug, blockers, attention>>

\* Mutant: waiting items do not count.
ActiveDeepWorkNotWaiting == {j \in Items : deepWork[j] /\ state[j] = "active" /\ ~Waiting(j)}

\* canonicalDeepWorkCapacity
ActiveDeepWork == {j \in Items : deepWork[j] /\ state[j] = "active"}

\* applyStateSetCommand, backlog -> active.
Activate(i, force) ==
    /\ state[i] = "backlog"
    /\ deepWork[i] /\ ~force => Cardinality(ActiveDeepWork) < MaxActive
    /\ state' = [state EXCEPT ![i] = "active"]
    /\ excused' = IF force /\ deepWork[i] THEN excused \cup {i} ELSE excused
    /\ cause' = "other"
    /\ UNCHANGED <<now, slug, title, deepWork, blockers, attention>>

\* applyStateSetCommand, active -> backlog; also the transaction of Shelve, a
\* StoreManifestSave that keeps the slug and the blockers.
Deactivate(i) ==
    /\ state[i] = "active"
    /\ state' = [state EXCEPT ![i] = "backlog"]
    /\ excused' = excused \ {i}
    /\ cause' = "other"
    /\ UNCHANGED <<now, slug, title, deepWork, blockers, attention>>

\* applyStateSetCommand, open -> closed: clears the item's own blockers and
\* gives up its slug.
Close(i) ==
    /\ state[i] \in Open
    /\ state' = [state EXCEPT ![i] = "closed"]
    /\ slug' = [slug EXCEPT ![i] = NoSlug]
    /\ blockers' = [blockers EXCEPT ![i] = {}]
    /\ excused' = excused \ {i}
    /\ cause' = "other"
    /\ UNCHANGED <<now, title, deepWork, attention>>

\* applyStateSetCommand, closed -> backlog, under a newly allocated slug.
Reopen(i) ==
    /\ state[i] = "closed"
    /\ \E s \in UniqueSlug(Slugify[title[i]], i) : slug' = [slug EXCEPT ![i] = s]
    /\ state' = [state EXCEPT ![i] = "backlog"]
    /\ cause' = "other"
    /\ UNCHANGED <<now, title, deepWork, blockers, attention, excused>>

\* StoreItemDelete: the manifest and the item's projections go.
Delete(i) ==
    /\ state[i] = "closed"
    /\ state' = [state EXCEPT ![i] = "deleted"]
    /\ requested' = [requested EXCEPT ![i] = 0]
    /\ completed' = [completed EXCEPT ![i] = 0]
    /\ read' = [read EXCEPT ![i] = 0]
    /\ unread' = [unread EXCEPT ![i] = 0]
    /\ cause' = "other"
    /\ UNCHANGED <<now, slug, title, deepWork, blockers, excused>>

\* applyBlockerAddCommand's validation of one requested blocker.
ValidRequest(i, r, at) ==
    /\ r.kind = "time" => r.until > at
    /\ r.kind = "item" => r.item # i /\ state[r.item] \in Open

\* The requests that are not item blockers the item already has.
NewRequests(i, R) == {r \in R : ~(r.kind = "item" /\ r.item \in WaitsOn(i))}

\* Mutant: only direct waits are refused.
NoDirectCycle(i, R) == \A r \in R : r.kind = "item" => i \notin WaitsOn(r.item)

NoCycle(i, R) == \A r \in R : r.kind = "item" => ~BlocksTransitively(r.item, i)

\* Distinct IDs not held by the item's blockers.
FreshIDs(i, R) ==
    {f \in [R -> BlockerIDs \ {b.id : b \in blockers[i]}] :
        \A r, q \in R : f[r] = f[q] => r = q}

\* applyBlockerAddCommand: all requests or none; adding any marks the item read.
AddBlockers(i, R, at) ==
    LET new == NewRequests(i, R) IN
    /\ state[i] \in Open
    /\ \A r \in R : ValidRequest(i, r, at)
    /\ NoCycle(i, new)
    /\ new # {}
    /\ \E ids \in FreshIDs(i, new) :
         blockers' = [blockers EXCEPT ![i] = @ \cup
            {[id |-> ids[r], kind |-> r.kind, until |-> r.until,
              item |-> r.item, at |-> at] : r \in new}]
    /\ read' = [read EXCEPT ![i] = Later(@, at)]
    /\ cause' = "other"
    /\ UNCHANGED <<now, state, slug, title, deepWork, requested, completed, unread, excused>>

\* applyBlockerClearCommand with an ID the item has.
ClearBlocker(i, id) ==
    /\ Exists(i)
    /\ \E b \in blockers[i] : b.id = id
    /\ blockers' = [blockers EXCEPT ![i] = {b \in @ : b.id # id}]
    /\ cause' = "manual"
    /\ UNCHANGED <<now, state, slug, title, deepWork, attention, excused>>

\* clearAllBlockers by the operator.
ClearAllBlockers(i) ==
    /\ Exists(i)
    /\ blockers[i] # {}
    /\ blockers' = [blockers EXCEPT ![i] = {}]
    /\ cause' = "manual"
    /\ UNCHANGED <<now, state, slug, title, deepWork, attention, excused>>

\* Mutant: a prompt ends every kind of wait.
ResolvedByPrompt(i, b) ==
    \/ b.kind = "time" /\ b.until <= now
    \/ requested[i] > b.at
    \/ b.kind = "item" /\ state[b.item] \notin Open

\* The conditions under which the sweep clears a blocker.
Resolved(i, b) ==
    \/ b.kind = "time" /\ b.until <= now
    \/ b.kind = "time" /\ requested[i] > b.at
    \/ b.kind = "item" /\ state[b.item] \notin Open

\* Mutant: backlog items are not swept.
SweepableWhenActive(i) == state[i] = "active" /\ \E b \in blockers[i] : Resolved(i, b)

Sweepable(i) == state[i] \in Open /\ \E b \in blockers[i] : Resolved(i, b)

\* SweepBlockers: one transaction over every open item.
SweepBlockers ==
    /\ \E i \in Items : Sweepable(i)
    /\ blockers' = [i \in Items |-> IF Sweepable(i)
                                    THEN {b \in blockers[i] : ~Resolved(i, b)}
                                    ELSE blockers[i]]
    /\ cause' = "other"
    /\ UNCHANGED <<now, state, slug, title, deepWork, attention, excused>>

\* applyConversationFact and mergeImportedAttentionTx: an indexed prompt, or a
\* terminal response, stamped with its own time, however late it is imported.
ImportPrompt(i, at) ==
    /\ Exists(i)
    /\ requested' = [requested EXCEPT ![i] = Later(@, at)]
    /\ cause' = "other"
    /\ UNCHANGED <<now, state, slug, title, deepWork, blockers, completed, read, unread, excused>>

ImportResponse(i, at) ==
    /\ Exists(i)
    /\ completed' = [completed EXCEPT ![i] = Later(@, at)]
    /\ cause' = "other"
    /\ UNCHANGED <<now, state, slug, title, deepWork, blockers, requested, read, unread, excused>>

\* StoreEventAppend of attention.read and attention.unread.
MarkRead(i, at) ==
    /\ Exists(i)
    /\ read' = [read EXCEPT ![i] = Later(@, at)]
    /\ cause' = "other"
    /\ UNCHANGED <<now, state, slug, title, deepWork, blockers, requested, completed, unread, excused>>

MarkUnread(i, at) ==
    /\ Exists(i)
    /\ unread' = [unread EXCEPT ![i] = Later(@, at)]
    /\ cause' = "other"
    /\ UNCHANGED <<now, state, slug, title, deepWork, blockers, requested, completed, read, excused>>

LifecycleNext(i) ==
    \/ \E s \in Slugs, t \in Titles, d \in BOOLEAN : Create(i, s, t, d)
    \/ \E t \in Titles, d \in BOOLEAN : Edit(i, t, d)
    \/ \E force \in BOOLEAN : Activate(i, force)
    \/ Deactivate(i)
    \/ Close(i)
    \/ Reopen(i)
    \/ Delete(i)

BlockerNext(i) ==
    \/ \E R \in SUBSET Requests, at \in CreationTimes :
          Cardinality(R) <= MaxBatch /\ AddBlockers(i, R, at)
    \/ \E id \in BlockerIDs : ClearBlocker(i, id)
    \/ ClearAllBlockers(i)

AttentionNext(i) ==
    \E at \in 1..now : \/ ImportPrompt(i, at) \/ ImportResponse(i, at)
                       \/ MarkRead(i, at) \/ MarkUnread(i, at)

Next ==
    \/ Tick
    \/ SweepBlockers
    \/ \E i \in Items : LifecycleNext(i) \/ BlockerNext(i)
    \/ \E i \in Attended : AttentionNext(i)

\* The sweep runs on a ticker for as long as the daemon lives.
Fairness == WF_vars(SweepBlockers)

Spec == Init /\ [][Next]_vars /\ Fairness
----------------------------------------------------------------------------
(* Properties *)

\* Every field holds a value of its kind, and an open item has a real slug.
TypeOK ==
    /\ now \in Nat
    /\ state \in [Items -> {"none", "backlog", "active", "closed", "deleted"}]
    /\ slug \in [Items -> Slugs \cup {NoSlug}]
    /\ title \in [Items -> Titles]
    /\ deepWork \in [Items -> BOOLEAN]
    /\ blockers \in [Items -> SUBSET Blocker]
    /\ requested \in [Items -> Nat]
    /\ completed \in [Items -> Nat]
    /\ read \in [Items -> Nat]
    /\ unread \in [Items -> Nat]
    /\ excused \in SUBSET Items
    /\ cause \in {"manual", "other"}
    /\ \A i \in Items : state[i] \in Open => slug[i] \in Slugs

\* No set of items waits on itself: in every nonempty set some item waits on
\* nobody in the set, whatever sequence of adds, closes, reopens, deletions and
\* sweeps led here ("refusing a dependency cycle", blockers.go).
WaitGraphAcyclic ==
    \A S \in SUBSET Items :
        S # {} => \E x \in S : WaitsOn(x) \cap S = {}

\* A slug names at most one open item, across creations, closes and reopens,
\* and an item that is not open holds neither a slug nor blockers.
SlugsIdentifyOpenItems ==
    /\ \A i, j \in Items :
         state[i] \in Open /\ state[j] \in Open /\ slug[i] = slug[j] => i = j
    /\ \A i \in Items : state[i] \notin Open => slug[i] = NoSlug /\ blockers[i] = {}

\* A parked item comes back to the queue only for a response or an unread mark
\* later than every decision to park it, even when markers and imports arrive
\* out of order (the attention.read event of applyBlockerAddCommand).
ParkedStaysParked ==
    \A i \in Items : Waiting(i) /\ Eligible(i) =>
        \A b \in blockers[i] : completed[i] > b.at \/ unread[i] > b.at

\* More deep-work items than the limit are active only through items whose
\* history shows a forced activation or a deep-work mark set while active.
CapacityRespected == Cardinality(ActiveDeepWork \ excused) <= MaxActive

\* Unless the operator clears or closes it, an open item stops waiting only when
\* the condition of each of its open blockers is met: prompts end snoozes but
\* never a wait on an item or an event.
UnparkedForCause ==
    [][\A i \in Items :
         Waiting(i) /\ ~Waiting(i)' /\ state'[i] \in Open /\ cause' # "manual" =>
           \A b \in blockers[i] : OpenBlocker(b) =>
              \/ b.kind = "time" /\ (b.until <= now' \/ requested[i] > b.at)
              \/ b.kind = "item" /\ state[b.item] \notin Open]_vars

\* Blockers whose condition is met for good: past times and deleted items.
Overdue(i) ==
    /\ state[i] \in Open
    /\ \E b \in blockers[i] : \/ b.kind = "time" /\ b.until <= now
                              \/ b.kind = "item" /\ state[b.item] = "deleted"

\* The sweep eventually records every such clearance, for backlog items too.
OverdueBlockersAreSwept == \A i \in Items : Overdue(i) ~> ~Overdue(i)
=============================================================================
