-------------------------- MODULE WorkspacesProofs --------------------------
(***************************************************************************)
(* Proofs about Workspaces, for every set of items and every value of the  *)
(* bounds: where agents work, which blockers come back, who has a slot and *)
(* where uncommitted work goes, up to assignments of two items that are    *)
(* under way at once.  That operations end is left to TLC.                 *)
(***************************************************************************)
EXTENDS Workspaces, TLAPS, WellFoundedInduction, FiniteSetTheorems

----------------------------------------------------------------------------
(* The inductive invariants *)

\* An operation that is to claim a slot has a generation left for the claim,
\* the one after its item's.
Room ==
    \A i \in Items :
        /\ At(i, "ensure") /\ item[i].claim = None => item[i].gen < MaxGen
        /\ Assigning(i) => item[i].gen < MaxGen /\ op[i].m.gen = item[i].gen

\* Why an operation of the item does not pull the checkout from under its
\* agent: it claims a slot only for an item without one, it saves a release or
\* runs the hooks only without an agent, which cannot start under the item's
\* lock, and it starts one only on a claim that is set up.
OperationsMindAgents ==
    \A i \in Items :
        /\ agent[i].on => agent[i].slot # None
        /\ Assigning(i) => item[i].claim = None
        /\ op[i].pc \in {"hooks", "release", "save", "close"} => ~agent[i].on
        /\ At(i, "hooks") => setup[i].gen = item[i].gen
        /\ At(i, "launch") => Ready(i)

\* What a shelve or a close saves is without claim.
GivesUpTheClaim == \A i \in Items : At(i, "save") => op[i].m.claim = None

\* An assignment tries and takes slots that it did not pass over.
AssignmentPrepared ==
    \A i \in Items :
        /\ op[i].pc \in {"switch", "claim"} => op[i].slot \in Slots
        /\ At(i, "switch") => op[i].slot \notin op[i].taken

\* What operations, agents and the sweep keep of one item.
WorkspaceInv ==
    /\ TypeOK
    /\ Room
    /\ AssignmentPrepared
    /\ GivesUpTheClaim
    /\ OperationsMindAgents
    /\ AgentsWorkOnReadyClaims
    /\ ClearedStaysCleared

\* Assignments that are under way together are known to be; a claim that an
\* assignment neither passes over nor avoids was assigned beside it.
RacersKnown ==
    \A i, j \in Items : i # j /\ Assigning(i) /\ Assigning(j)
        => Raced(i, item[i].gen + 1, j, item[j].gen + 1)

Passes(i, n) == IF At(i, "claim") THEN n # op[i].slot ELSE n \in op[i].taken

ClaimsKnown ==
    \A i, j \in Items : i # j /\ Assigning(i) /\ item[j].claim # None
        => Passes(i, item[j].claim) \/ Raced(i, item[i].gen + 1, j, item[j].gen)

\* A slot that an item has or is about to have holds its own work and that of
\* items that were assigned a slot beside it.
Chose(i, n) == op[i].pc \in {"switch", "claim"} /\ op[i].slot = n

WorkIsItsOwn ==
    \A n \in Slots : \A i \in dirt[n], j \in Items :
        item[j].claim = n \/ Chose(j, n) => i = j \/ HaveRaced(i, j)

\* It has the item's branch, or none, or the branch of such an item.
BelongsTo(n, i) == branch[n] \in {i, Detached} \/ HaveRaced(i, branch[n])

SlotsAreHeld ==
    \A n \in Slots : \A i \in Items :
        item[i].claim = n \/ (At(i, "claim") /\ op[i].slot = n) => BelongsTo(n, i)

SlotInv ==
    /\ SlotsSharedOnlyByRace
    /\ WorkStaysWithItsItem
    /\ RacersKnown
    /\ ClaimsKnown
    /\ WorkIsItsOwn
    /\ SlotsAreHeld

----------------------------------------------------------------------------
(* Numbers *)

\* A nonempty set of numbers has a least one, which Min returns.
LEMMA MinIsMember ==
    ASSUME NEW S, S \subseteq Nat, S # {}
    PROVE  Min(S) \in S
<1> DEFINE T == {1 .. n : n \in S}
           R == StrictSubsetOrdering(Nat)
<1>1. T \subseteq FiniteSubsetsOf(Nat) /\ T # {}
  <2>1. ASSUME NEW n \in S PROVE 1 .. n \in SUBSET Nat /\ IsFiniteSet(1 .. n)
    <3>1. n \in Int
      OBVIOUS
    <3> QED BY <3>1, FS_Interval
  <2> QED BY <2>1 DEF FiniteSubsetsOf
<1>2. PICK t \in T : \A u \in T : <<u, t>> \notin R
  <2> HIDE DEF T, R
  <2>1. IsWellFoundedOn(R, FiniteSubsetsOf(Nat))
    BY FS_StrictSubsetOrderingWellFounded DEF R
  <2> QED BY <2>1, <1>1, WFMin
<1>3. PICK x \in S : t = 1 .. x
  OBVIOUS
<1>4. ASSUME NEW y \in S PROVE x <= y
  <2>1. <<1 .. y, 1 .. x>> \notin R
    BY <1>2, <1>3
  <2>2. SUFFICES ASSUME y < x PROVE FALSE
    OBVIOUS
  <2>3. 1 .. y \subseteq 1 .. x /\ x \in 1 .. x /\ x \notin 1 .. y
    BY <2>2
  <2> QED BY <2>1, <2>3 DEF StrictSubsetOrdering
<1> QED BY <1>4 DEF Min

\* Any set of slots has at most MaxSlots of them.
LEMMA SlotCount ==
    ASSUME NEW S \in SUBSET Slots
    PROVE  Cardinality(S) \in 0 .. MaxSlots
<1>1. IsFiniteSet(Slots) /\ Cardinality(Slots) = MaxSlots
  <2>1. 1 \in Int /\ MaxSlots \in Int /\ ~(1 > MaxSlots)
    BY BoundsAssumption
  <2> QED BY <2>1, FS_Interval DEF Slots
<1>2. IsFiniteSet(S) /\ Cardinality(S) <= Cardinality(Slots)
  BY <1>1, FS_Subset
<1>3. Cardinality(S) \in Nat
  BY <1>2, FS_CardinalityType
<1> QED BY <1>1, <1>2, <1>3, BoundsAssumption

----------------------------------------------------------------------------
(* Which steps change what *)

Step(i) == Continue(i) \/ Request(i) \/ Environment(i)

\* Seven operations change manifests.
LEMMA WhoChangesItems ==
    ASSUME NEW i \in Items, Step(i)
    PROVE  \/ \E s \in {"backlog", "active", "closed"} : SetItemState(i, s)
           \/ \E b \in 1 .. MaxBlockers : AddBlocker(i, b)
           \/ Sweep(i)
           \/ \E prepared \in BOOLEAN : PublishClaim(i, prepared)
           \/ SaveRelease(i) \/ SaveArchive(i) \/ SaveClose(i)
           \/ UNCHANGED item
BY DEF Step, Continue, Request, Environment, EnsureCheckout, List, InspectSlot, SwitchSlot, CreateSlot, Switched,
       Try, Skip, SetUp, SetupLater,
       RunHooks, Launch, StopAgent, AwaitStop, CommitAndClose, Archive, StartOrEnsure, SetupAgain,
       StartAgent, ReleaseWorkspace, Shelve, Close, CommitWorkspace, AgentExit, Edit, Detach, Repair

\* Agents start and end; nothing else happens to them.
LEMMA WhoChangesAgents ==
    ASSUME NEW i \in Items, Step(i)
    PROVE  \/ \E ok \in BOOLEAN : Launch(i, ok)
           \/ AgentExit(i)
           \/ UNCHANGED agent
BY DEF Step, Continue, Request, Environment, EnsureCheckout, List, InspectSlot, SwitchSlot, CreateSlot, Switched,
       Try, Skip, PublishClaim, SetUp,
       SetupLater, RunHooks, SaveRelease, StopAgent, AwaitStop, CommitAndClose, Archive, SaveArchive,
       SaveClose, SetItemState, AddBlocker, StartOrEnsure, SetupAgain, StartAgent, ReleaseWorkspace,
       Shelve, Close, CommitWorkspace, Sweep, Edit, Detach, Repair

\* Two steps of a setup change its record.
LEMMA WhoChangesSetups ==
    ASSUME NEW i \in Items, Step(i)
    PROVE  \/ \E skip \in BOOLEAN : SetUp(i, skip)
           \/ \E ok \in BOOLEAN : RunHooks(i, ok)
           \/ UNCHANGED setup
BY DEF Step, Continue, Request, Environment, EnsureCheckout, List, InspectSlot, SwitchSlot, CreateSlot, Switched,
       Try, Skip, PublishClaim, Launch,
       SetupLater, SaveRelease, StopAgent, AwaitStop, CommitAndClose, Archive, SaveArchive,
       SaveClose, SetItemState, AddBlocker, StartOrEnsure, SetupAgain, StartAgent, ReleaseWorkspace,
       Shelve, Close, CommitWorkspace, Sweep, AgentExit, Edit, Detach, Repair

\* Blockers are cleared by the sweep and with the item.
LEMMA WhoClears ==
    ASSUME NEW i \in Items, Step(i)
    PROVE  \/ \E s \in {"backlog", "active", "closed"} : SetItemState(i, s)
           \/ Sweep(i) \/ SaveClose(i)
           \/ UNCHANGED cleared
BY DEF Step, Continue, Request, Environment, EnsureCheckout, List, InspectSlot, SwitchSlot, CreateSlot, Switched,
       Try, Skip, PublishClaim, SetUp,
       SetupLater, RunHooks, Launch, SaveRelease, StopAgent, AwaitStop, CommitAndClose, Archive,
       SaveArchive, AddBlocker, StartOrEnsure, SetupAgain, StartAgent, ReleaseWorkspace, Shelve,
       Close, CommitWorkspace, AgentExit, Edit, Detach, Repair

\* Slots are listed, assigned, committed, edited, detached or repaired.
LEMMA WhoChangesSlots ==
    ASSUME NEW i \in Items, Step(i)
    PROVE  \/ EnsureCheckout(i) \/ CreateSlot(i)
           \/ \E carries \in BOOLEAN : SwitchSlot(i, carries)
           \/ CommitWorkspace(i) \/ CommitAndClose(i)
           \/ \E n \in Slots : Edit(i, n)
           \/ Detach(i) \/ Repair(i)
           \/ UNCHANGED world
BY DEF Step, Continue, Request, Environment, InspectSlot, PublishClaim, SetUp, SetupLater,
       RunHooks, Launch, SaveRelease, StopAgent, AwaitStop, Archive, SaveArchive, SaveClose,
       SetItemState, AddBlocker, StartOrEnsure, SetupAgain, StartAgent, ReleaseWorkspace, Shelve,
       Close, Sweep, AgentExit, world

----------------------------------------------------------------------------
(* What the steps of an assignment do *)

\* The claims that were listed are all of them, the item has none, and the
\* assignments that are under way are recorded.
LEMMA ChecksOut ==
    ASSUME TypeOK, NEW i \in Items, EnsureCheckout(i)
    PROVE  /\ UNCHANGED <<item, setup, agent, branch, dirt, strayed, cleared>>
           /\ \A j \in Items \ {i} : op'[j] = op[j]
           /\ \/ op'[i].pc = "setup" /\ UNCHANGED raced
              \/ /\ op'[i].pc = "assign" /\ op'[i].m = item[i] /\ item[i].claim = None
                 /\ \A j \in Items \ {i} : item[j].claim \in op'[i].taken \union {None}
                 /\ raced' = raced \union {<<i, item[i].gen + 1, j, item[j].gen + 1>> :
                                               j \in {k \in Items \ {i} : Assigning(k)}}
<1>1. UNCHANGED <<item, setup, agent, branch, dirt, strayed, cleared>> /\ \A j \in Items \ {i} : op'[j] = op[j]
  BY DEF EnsureCheckout, List, Goto, TypeOK
<1>2. CASE item[i].claim # None
  BY <1>1, <1>2 DEF EnsureCheckout, List, Goto, TypeOK, Operations
<1>3. CASE item[i].claim = None
  <2> DEFINE taken == {item[j].claim : j \in Items \ {i}} \ {None}
             max == Cardinality({n \in Slots : branch[n] # Absent})
  <2>1. \A j \in Items \ {i} : item[j].claim \in taken \union {None}
    OBVIOUS
  <2>2. op' = [op EXCEPT ![i].pc = "assign", ![i].m = item[i], ![i].taken = taken, ![i].max = max]
    BY <1>3 DEF EnsureCheckout, List
  <2>3. raced' = raced \union {<<i, item[i].gen + 1, j, item[j].gen + 1>> :
                                   j \in {k \in Items \ {i} : Assigning(k)}}
    BY <1>3 DEF EnsureCheckout, List
  <2> HIDE DEF taken, max
  <2>4. op'[i].pc = "assign" /\ op'[i].m = item[i] /\ op'[i].taken = taken
    BY <2>2 DEF TypeOK, Operations
  <2> QED BY <1>1, <1>3, <2>1, <2>3, <2>4
<1> QED BY <1>2, <1>3

\* A slot that is tried was not passed over, and clean.
LEMMA Inspects ==
    ASSUME TypeOK, NEW i \in Items, InspectSlot(i)
    PROVE  /\ UNCHANGED <<item, setup, agent, world, cleared>>
           /\ \A j \in Items \ {i} : op'[j] = op[j]
           /\ op'[i].m = op[i].m /\ op[i].taken \subseteq op'[i].taken
           /\ \/ op'[i].pc = "assign"
              \/ /\ op'[i].pc = "switch" /\ op'[i].slot \in Slots /\ op'[i].slot \notin op'[i].taken
                 /\ dirt[op'[i].slot] = {}
<1>1. PICK n \in Untried(i) : IF dirt[n] = {} THEN Try(i, n) ELSE Skip(i, n)
  <2>1. Untried(i) \subseteq Nat /\ Untried(i) # {}
    BY DEF InspectSlot, Untried, TypeOK, Operations
  <2> QED BY <2>1, MinIsMember DEF InspectSlot
<1>2. UNCHANGED <<item, setup, agent, world, cleared>>
  BY DEF InspectSlot
<1>3. n \in Slots /\ n \notin op[i].taken
  <2>1. op[i].max \in 0 .. MaxSlots
    BY DEF TypeOK, Operations
  <2> QED BY <2>1, BoundsAssumption DEF Untried, Slots
<1>4. CASE Try(i, n) /\ dirt[n] = {}
  BY <1>2, <1>3, <1>4 DEF Try, TypeOK, Operations
<1>5. CASE Skip(i, n)
  BY <1>2, <1>5 DEF Skip, TypeOK, Operations
<1> QED BY <1>1, <1>4, <1>5

LEMMA Switches ==
    ASSUME TypeOK, NEW i \in Items, NEW carries \in BOOLEAN, SwitchSlot(i, carries)
    PROVE  /\ UNCHANGED <<item, setup, agent, dirt, strayed, raced, cleared>>
           /\ \A j \in Items \ {i} : op'[j] = op[j]
           /\ op'[i].m = op[i].m
           /\ \/ op'[i].pc = "assign" /\ op[i].taken \subseteq op'[i].taken /\ UNCHANGED branch
              \/ /\ op'[i].pc = "claim" /\ op'[i].slot = op[i].slot
                 /\ branch' = [branch EXCEPT ![op[i].slot] = i]
<1>1. UNCHANGED <<item, setup, agent, dirt, strayed, raced, cleared>>
  BY DEF SwitchSlot
<1>2. CASE Switched(i, op[i].slot)
  BY <1>1, <1>2 DEF Switched, TypeOK, Operations
<1>3. CASE Skip(i, op[i].slot) /\ UNCHANGED branch
  BY <1>1, <1>3 DEF Skip, TypeOK, Operations
<1> QED BY <1>2, <1>3 DEF SwitchSlot

LEMMA Creates ==
    ASSUME TypeOK, NEW i \in Items, CreateSlot(i)
    PROVE  /\ UNCHANGED <<item, setup, agent, dirt, strayed, raced, cleared>>
           /\ \A j \in Items \ {i} : op'[j] = op[j]
           /\ \/ op'[i].pc = "idle" /\ UNCHANGED branch
              \/ \E n \in Slots :
                    /\ op'[i].pc = "claim" /\ op'[i].slot = n /\ op'[i].m = op[i].m
                    /\ branch[n] = Absent /\ branch' = [branch EXCEPT ![n] = i]
<1>1. UNCHANGED <<item, setup, agent, dirt, strayed, raced, cleared>>
  BY DEF CreateSlot
<1>2. PICK n : (n \in Slots /\ branch[n] = Absent /\ Switched(i, n)) \/ (Done(i) /\ UNCHANGED branch)
  BY DEF CreateSlot
<1>3. CASE n \in Slots /\ branch[n] = Absent /\ Switched(i, n)
  BY <1>1, <1>3 DEF Switched, TypeOK, Operations
<1>4. CASE Done(i) /\ UNCHANGED branch
  BY <1>1, <1>4 DEF Done, NoOp, TypeOK
<1> QED BY <1>2, <1>3, <1>4

\* A claim that is published names the slot and keeps the blocker.
LEMMA Publishes ==
    ASSUME TypeOK, NEW i \in Items, NEW prepared \in BOOLEAN, PublishClaim(i, prepared)
    PROVE  /\ UNCHANGED <<setup, agent, world, cleared>>
           /\ \A j \in Items \ {i} : op'[j] = op[j] /\ item'[j] = item[j]
           /\ \/ op'[i].pc = "idle" /\ UNCHANGED item
              \/ /\ op'[i].pc = "setup"
                 /\ item'[i].claim = op[i].slot /\ item'[i].gen = op[i].m.gen + 1
                 /\ item'[i].blocker = item[i].blocker
<1>1. UNCHANGED <<setup, agent, world, cleared>>
  BY DEF PublishClaim
<1>2. CASE Done(i) /\ UNCHANGED item
  BY <1>1, <1>2 DEF Done, NoOp, TypeOK
<1>3. CASE /\ Accepts(i, Claimed(i))
           /\ item' = [item EXCEPT ![i] = Claimed(i)] /\ Begin(i, op[i].kind, "setup")
  <2>1. op'[i].pc = "setup" /\ \A j \in Items \ {i} : op'[j] = op[j]
    BY <1>3 DEF Begin, NoOp, TypeOK
  <2>2. Claimed(i).claim = op[i].slot /\ Claimed(i).blocker = op[i].m.blocker /\ Claimed(i).gen = op[i].m.gen + 1
    BY DEF Claimed, TypeOK, Operations, Manifest
  <2>3. /\ item'[i].claim = op[i].slot /\ item'[i].gen = op[i].m.gen + 1 /\ item'[i].blocker = item[i].blocker
        /\ \A j \in Items \ {i} : item'[j] = item[j]
    BY <1>3, <2>2 DEF Accepts, TypeOK
  <2> QED BY <1>1, <2>1, <2>3
<1> QED BY <1>2, <1>3 DEF PublishClaim

----------------------------------------------------------------------------
(* Types *)

LEMMA ConstantsTyped == NoOp \in Operations /\ NoAgent \in Agents /\ NoOp.m \in Manifest
BY BoundsAssumption DEF NoOp, NoAgent, Operations, Agents, Manifest, Steps, Kinds, None

LEMMA ItemTyped ==
    ASSUME TypeOK, NEW i \in Items, NEW m \in Manifest, item' = [item EXCEPT ![i] = m]
    PROVE  item' \in [Items -> Manifest]
BY DEF TypeOK

LEMMA OpTyped ==
    ASSUME TypeOK, NEW i \in Items, NEW o \in Operations, op' = [op EXCEPT ![i] = o]
    PROVE  op' \in [Items -> Operations]
BY DEF TypeOK

\* The ways an operation goes on, ends and begins.
LEMMA GotoTyped ==
    ASSUME TypeOK, NEW i \in Items, NEW pc \in Steps, Goto(i, pc)
    PROVE  op' \in [Items -> Operations]
BY DEF TypeOK, Goto, Operations

LEMMA DoneTyped ==
    ASSUME TypeOK, NEW i \in Items, Done(i)
    PROVE  op' \in [Items -> Operations]
BY ConstantsTyped DEF TypeOK, Done

LEMMA BeginTyped ==
    ASSUME TypeOK, NEW i \in Items, NEW kind \in Kinds, NEW pc \in Steps,
           Begin(i, kind, pc) \/ BeginWith(i, kind, pc)
    PROVE  op' \in [Items -> Operations]
<1> DEFINE o == [NoOp EXCEPT !.pc = pc, !.kind = kind]
           w == [NoOp EXCEPT !.pc = pc, !.kind = kind, !.m = item[i]]
<1>1. o \in Operations
  BY ConstantsTyped DEF Operations
<1>2. w \in Operations
  <2>1. item[i] \in Manifest
    BY DEF TypeOK
  <2> QED BY <2>1, ConstantsTyped DEF Operations
<1>3. op' = [op EXCEPT ![i] = o] \/ op' = [op EXCEPT ![i] = w]
  BY DEF Begin, BeginWith
<1> HIDE DEF o, w
<1> QED BY <1>1, <1>2, <1>3, OpTyped

LEMMA ItemsTyped ==
    ASSUME TypeOK, Room, NEW i \in Items, Step(i)
    PROVE  item' \in [Items -> Manifest]
<1>0. item[i] \in Manifest /\ op[i].m \in Manifest /\ op[i].slot \in 0 .. MaxSlots
  BY DEF TypeOK, Operations
<1>1. ASSUME NEW s \in {"backlog", "active", "closed"}, SetItemState(i, s)
      PROVE  item' \in [Items -> Manifest]
  <2> DEFINE m == [item[i] EXCEPT !.state = s, !.blocker = IF s = "closed" THEN None ELSE @]
  <2>1. m \in Manifest
    <3>1. 0 \in 0 .. MaxBlockers
      BY BoundsAssumption
    <3>2. CASE s = "closed"
      BY <1>0, <3>1, <3>2 DEF Manifest, None
    <3>3. CASE s # "closed"
      BY <1>0, <3>3 DEF Manifest
    <3> QED BY <3>2, <3>3
  <2>2. item' = [item EXCEPT ![i] = m]
    BY <1>1 DEF SetItemState, TypeOK, Manifest
  <2> HIDE DEF m
  <2> QED BY <2>1, <2>2, ItemTyped
<1>2. ASSUME NEW b \in 1 .. MaxBlockers, AddBlocker(i, b)
      PROVE  item' \in [Items -> Manifest]
  BY <1>0, <1>2, BoundsAssumption DEF AddBlocker, TypeOK, Manifest
<1>3. ASSUME Sweep(i)
      PROVE  item' \in [Items -> Manifest]
  <2>1. [item[i] EXCEPT !.blocker = None] \in Manifest
    BY <1>0, BoundsAssumption DEF Manifest, None
  <2> QED BY <1>3, <2>1 DEF Sweep, TypeOK
<1>4. ASSUME NEW prepared \in BOOLEAN, PublishClaim(i, prepared)
      PROVE  item' \in [Items -> Manifest]
  <2>1. Claimed(i) \in Manifest
    <3>1. op[i].m.gen < MaxGen
      BY <1>4 DEF PublishClaim, At, Assigning, Room
    <3>2. op[i].m.gen + 1 \in 0 .. MaxGen
      BY <1>0, <3>1, BoundsAssumption DEF Manifest
    <3> QED BY <1>0, <3>2 DEF Claimed, Manifest
  <2>2. item' = item \/ item' = [item EXCEPT ![i] = Claimed(i)]
    BY <1>4 DEF PublishClaim
  <2> QED BY <2>1, <2>2, ItemTyped DEF TypeOK
<1>5. ASSUME SaveRelease(i)
      PROVE  item' \in [Items -> Manifest]
  <2> DEFINE m == [op[i].m EXCEPT !.claim = None]
  <2>1. m \in Manifest
    <3>1. 0 \in 0 .. MaxSlots
      BY BoundsAssumption
    <3> QED BY <1>0, <3>1 DEF Manifest, None
  <2>2. item' = item \/ item' = [item EXCEPT ![i] = m]
    BY <1>5 DEF SaveRelease
  <2> HIDE DEF m
  <2> QED BY <2>1, <2>2, ItemTyped DEF TypeOK
<1>6. ASSUME SaveArchive(i)
      PROVE  item' \in [Items -> Manifest]
  <2> DEFINE m == IF op[i].kind = "shelve" THEN [op[i].m EXCEPT !.state = "backlog"] ELSE op[i].m
  <2>1. m \in Manifest
    BY <1>0 DEF Manifest
  <2>2. item' = item \/ item' = [item EXCEPT ![i] = m]
    BY <1>6 DEF SaveArchive
  <2> HIDE DEF m
  <2> QED BY <2>1, <2>2, ItemTyped DEF TypeOK
<1>7. ASSUME SaveClose(i)
      PROVE  item' \in [Items -> Manifest]
  <2> DEFINE m == [item[i] EXCEPT !.state = "closed", !.blocker = None]
  <2>1. m \in Manifest
    <3>1. 0 \in 0 .. MaxBlockers
      BY BoundsAssumption
    <3> QED BY <1>0, <3>1 DEF Manifest, None
  <2>2. item' = item \/ item' = [item EXCEPT ![i] = m]
    BY <1>7 DEF SaveClose, TypeOK, Manifest
  <2> HIDE DEF m
  <2> QED BY <2>1, <2>2, ItemTyped DEF TypeOK
<1>8. CASE UNCHANGED item
  BY <1>8 DEF TypeOK
<1> QED BY <1>1, <1>2, <1>3, <1>4, <1>5, <1>6, <1>7, <1>8, WhoChangesItems

LEMMA SetupsTyped ==
    ASSUME TypeOK, NEW i \in Items, Step(i)
    PROVE  setup' \in [Items -> Setups]
<1>0. item[i].gen \in 0 .. MaxGen /\ setup[i] \in Setups
  BY DEF TypeOK, Manifest
<1>1. ASSUME NEW skip \in BOOLEAN, SetUp(i, skip)
      PROVE  setup' \in [Items -> Setups]
  <2>1. \A s \in {"skipped", "running"} : [gen |-> item[i].gen, status |-> s] \in Setups
    BY <1>0 DEF Setups
  <2>2. \/ setup' = setup
        \/ \E s \in {"skipped", "running"} : setup' = [setup EXCEPT ![i] = [gen |-> item[i].gen, status |-> s]]
    BY <1>1 DEF SetUp
  <2> QED BY <2>1, <2>2 DEF TypeOK
<1>2. ASSUME NEW ok \in BOOLEAN, RunHooks(i, ok)
      PROVE  setup' \in [Items -> Setups]
  BY <1>0, <1>2 DEF RunHooks, Setups, TypeOK
<1> QED BY <1>1, <1>2, WhoChangesSetups DEF TypeOK

LEMMA AgentsTyped ==
    ASSUME TypeOK, NEW i \in Items, Step(i)
    PROVE  agent' \in [Items -> Agents]
<1>1. ASSUME NEW ok \in BOOLEAN, Launch(i, ok)
      PROVE  agent' \in [Items -> Agents]
  BY <1>1 DEF Launch, TypeOK, Manifest, Agents
<1>2. CASE AgentExit(i)
  BY <1>2, ConstantsTyped DEF AgentExit, TypeOK
<1> QED BY <1>1, <1>2, WhoChangesAgents DEF TypeOK

\* Generations that are to be claimed are not above the bound.
LEMMA RacesTyped ==
    ASSUME TypeOK, Room, NEW i \in Items, EnsureCheckout(i)
    PROVE  raced' \subseteq Items \X (1 .. MaxGen) \X Items \X (1 .. MaxGen)
<1>1. ASSUME NEW j \in Items, item[j].gen < MaxGen PROVE item[j].gen + 1 \in 1 .. MaxGen
  <2>1. item[j].gen \in 0 .. MaxGen
    BY DEF TypeOK, Manifest
  <2> QED BY <1>1, <2>1, BoundsAssumption
<1>2. \A j \in Items : Assigning(j) => item[j].gen + 1 \in 1 .. MaxGen
  BY <1>1 DEF Room
<1>3. item[i].claim = None => item[i].gen + 1 \in 1 .. MaxGen
  BY <1>1 DEF Room, EnsureCheckout, List
<1> QED BY <1>2, <1>3, ChecksOut DEF TypeOK

LEMMA SlotsTyped ==
    ASSUME TypeOK, Room, NEW i \in Items, Step(i)
    PROVE  /\ branch' \in [Slots -> Items \union {Absent, Detached}]
           /\ dirt' \in [Slots -> SUBSET Items]
           /\ strayed' \subseteq Items \X Items
           /\ raced' \subseteq Items \X (1 .. MaxGen) \X Items \X (1 .. MaxGen)
<1> DEFINE Typed ==
        /\ branch' \in [Slots -> Items \union {Absent, Detached}]
        /\ dirt' \in [Slots -> SUBSET Items]
        /\ strayed' \subseteq Items \X Items
        /\ raced' \subseteq Items \X (1 .. MaxGen) \X Items \X (1 .. MaxGen)
<1>0. item[i].claim # None => item[i].claim \in Slots
  BY DEF TypeOK, Manifest, Slots, None
<1>1. ASSUME NEW n \in Slots, branch' = branch \/ branch' = [branch EXCEPT ![n] = i],
             UNCHANGED <<dirt, strayed, raced>>
      PROVE  Typed
  BY <1>1 DEF TypeOK
<1>9. CASE UNCHANGED world
  BY <1>9 DEF world, TypeOK
<1>10. CASE EnsureCheckout(i)
  BY <1>10, RacesTyped, ChecksOut DEF TypeOK
<1>11. CASE CreateSlot(i)
  <2>1. UNCHANGED <<dirt, strayed, raced>>
    BY <1>11 DEF CreateSlot
  <2>2. branch' = branch \/ \E n \in Slots : branch' = [branch EXCEPT ![n] = i]
    BY <1>11 DEF CreateSlot, Switched
  <2> QED BY <1>1, <1>9, <2>1, <2>2 DEF world
<1>12. ASSUME NEW carries \in BOOLEAN, SwitchSlot(i, carries) PROVE Typed
  <2>1. UNCHANGED <<dirt, strayed, raced>>
    BY <1>12 DEF SwitchSlot
  <2>2. branch' = branch \/ branch' = [branch EXCEPT ![op[i].slot] = i]
    BY <1>12 DEF SwitchSlot, Switched
  <2> QED BY <2>1, <2>2 DEF TypeOK
<1>2. ASSUME CommitTo(i), UNCHANGED <<branch, raced>>, item[i].claim # None
      PROVE  Typed
  BY <1>0, <1>2 DEF CommitTo, TypeOK
<1>3. CASE CommitWorkspace(i)
  BY <1>2, <1>3 DEF CommitWorkspace
<1>4. CASE CommitAndClose(i)
  <2>1. UNCHANGED <<branch, raced>>
    BY <1>4 DEF CommitAndClose
  <2>2. UNCHANGED <<dirt, strayed>> \/ (CommitTo(i) /\ item[i].claim # None)
    BY <1>4 DEF CommitAndClose
  <2> QED BY <1>2, <2>1, <2>2 DEF TypeOK
<1>5. ASSUME NEW n \in Slots, Edit(i, n)
      PROVE  Typed
  BY <1>5 DEF Edit, TypeOK
<1>6. CASE Detach(i)
  BY <1>0, <1>6 DEF Detach, TypeOK
<1>7. CASE Repair(i)
  BY <1>0, <1>7 DEF Repair, TypeOK
<1> QED BY <1>3, <1>4, <1>5, <1>6, <1>7, <1>9, <1>10, <1>11, <1>12, WhoChangesSlots

\* How most steps leave the operation.
GoesOn(i) ==
    \/ UNCHANGED op
    \/ Done(i)
    \/ \E pc \in Steps : Goto(i, pc)
    \/ \E kind \in Kinds, pc \in Steps : Begin(i, kind, pc) \/ BeginWith(i, kind, pc)

LEMMA GoesOnTyped ==
    ASSUME TypeOK, NEW i \in Items, GoesOn(i)
    PROVE  op' \in [Items -> Operations]
<1>1. CASE UNCHANGED op
  BY <1>1 DEF TypeOK
<1>2. CASE Done(i)
  BY <1>2, DoneTyped
<1>3. ASSUME NEW pc \in Steps, Goto(i, pc) PROVE op' \in [Items -> Operations]
  BY <1>3, GotoTyped
<1>4. ASSUME NEW kind \in Kinds, NEW pc \in Steps, Begin(i, kind, pc) \/ BeginWith(i, kind, pc)
      PROVE  op' \in [Items -> Operations]
  BY <1>4, BeginTyped
<1> QED BY <1>1, <1>2, <1>3, <1>4 DEF GoesOn

LEMMA OperationsTyped ==
    ASSUME TypeOK, AssignmentPrepared, NEW i \in Items, Step(i)
    PROVE  op' \in [Items -> Operations]
<1>0. item[i] \in Manifest /\ op[i] \in Operations /\ op[i].m \in Manifest
  BY DEF TypeOK, Operations
<1>1. CASE EnsureCheckout(i)
  <2> DEFINE taken == {item[j].claim : j \in Items \ {i}} \ {None}
             max == Cardinality({n \in Slots : branch[n] # Absent})
             o == [op[i] EXCEPT !.pc = "assign", !.m = item[i], !.taken = taken, !.max = max]
  <2>1. taken \in SUBSET Slots
    BY DEF TypeOK, Manifest, Slots, None
  <2>2. max \in 0 .. MaxSlots
    <3>1. {n \in Slots : branch[n] # Absent} \in SUBSET Slots
      OBVIOUS
    <3> QED BY <3>1, SlotCount
  <2> HIDE DEF taken, max
  <2>3. o \in Operations
    BY <1>0, <2>1, <2>2 DEF Operations, Steps
  <2>4. op' = [op EXCEPT ![i].pc = "setup"] \/ op' = [op EXCEPT ![i] = o]
    BY <1>1 DEF EnsureCheckout, List, Goto, TypeOK, taken, max
  <2> HIDE DEF o
  <2> QED BY <2>3, <2>4, OpTyped, GoesOnTyped DEF GoesOn, Goto, Steps
<1>2. ASSUME NEW n \in Slots, Try(i, n) \/ Switched(i, n) PROVE op' \in [Items -> Operations]
  <2> DEFINE t == [op[i] EXCEPT !.pc = "switch", !.slot = n]
             o == [op[i] EXCEPT !.pc = "claim", !.slot = n, !.taken = {}, !.max = 0]
  <2>1. n \in 0 .. MaxSlots /\ 0 \in 0 .. MaxSlots
    BY BoundsAssumption DEF Slots
  <2>2. t \in Operations /\ o \in Operations
    BY <1>0, <2>1 DEF Operations, Steps
  <2>3. op' = [op EXCEPT ![i] = t] \/ op' = [op EXCEPT ![i] = o]
    BY <1>2 DEF Try, Switched, TypeOK
  <2> HIDE DEF t, o
  <2> QED BY <2>2, <2>3, OpTyped
<1>15. ASSUME NEW n \in Slots, Skip(i, n) PROVE op' \in [Items -> Operations]
  <2> DEFINE o == [op[i] EXCEPT !.pc = "assign", !.slot = None, !.taken = @ \union {n}]
  <2>1. 0 \in 0 .. MaxSlots
    BY BoundsAssumption
  <2>2. o \in Operations
    BY <1>0, <2>1 DEF Operations, Steps, None
  <2>3. op' = [op EXCEPT ![i] = o]
    BY <1>15 DEF Skip, TypeOK
  <2> HIDE DEF o
  <2> QED BY <2>2, <2>3, OpTyped
<1>16. CASE InspectSlot(i)
  <2>1. PICK n \in Untried(i) : Try(i, n) \/ Skip(i, n)
    <3>1. Untried(i) \subseteq Nat /\ Untried(i) # {}
      BY <1>16 DEF InspectSlot, Untried, TypeOK, Operations
    <3> QED BY <1>16, <3>1, MinIsMember DEF InspectSlot
  <2>2. n \in Slots
    BY <1>0, BoundsAssumption DEF Untried, Slots, Operations
  <2> QED BY <1>2, <1>15, <2>1, <2>2
<1>17. CASE CreateSlot(i)
  <2>1. (\E n \in Slots : Switched(i, n)) \/ Done(i)
    BY <1>17 DEF CreateSlot
  <2> QED BY <1>2, <2>1, DoneTyped
<1>18. ASSUME NEW carries \in BOOLEAN, SwitchSlot(i, carries) PROVE op' \in [Items -> Operations]
  <2>1. op[i].slot \in Slots
    BY <1>18 DEF SwitchSlot, At, AssignmentPrepared
  <2> QED BY <1>2, <1>15, <1>18, <2>1 DEF SwitchSlot
<1>3. ASSUME NEW prepared \in BOOLEAN, PublishClaim(i, prepared) PROVE op' \in [Items -> Operations]
  <2>1. op[i].kind \in Kinds
    BY <1>0 DEF Operations
  <2>2. GoesOn(i)
    BY <1>3, <2>1 DEF PublishClaim, GoesOn, Steps
  <2> QED BY <2>2, GoesOnTyped
<1>4. ASSUME NEW force \in BOOLEAN, NEW commit \in BOOLEAN, Close(i, force, commit) PROVE op' \in [Items -> Operations]
  <2> DEFINE o == [NoOp EXCEPT !.pc = "stop", !.kind = "close", !.force = force, !.commit = commit, !.m = item[i]]
  <2>1. o \in Operations
    BY <1>0, ConstantsTyped DEF Operations, Steps, Kinds
  <2>2. op' = [op EXCEPT ![i] = o]
    BY <1>4 DEF Close
  <2> HIDE DEF o
  <2> QED BY <2>1, <2>2, OpTyped
<1>5. CASE CommitAndClose(i)
  <2> DEFINE o == [op[i] EXCEPT !.pc = "archive", !.m = item[i]]
  <2>1. o \in Operations
    BY <1>0 DEF Operations, Steps
  <2>2. op' = [op EXCEPT ![i] = o] \/ Done(i)
    BY <1>5 DEF CommitAndClose, TypeOK
  <2> HIDE DEF o
  <2> QED BY <2>1, <2>2, OpTyped, DoneTyped
<1>6. ASSUME NEW terminal \in BOOLEAN, Archive(i, terminal) PROVE op' \in [Items -> Operations]
  <2> DEFINE o == [op[i] EXCEPT !.pc = "save", !.m = [@ EXCEPT !.claim = None]]
  <2>1. o \in Operations
    <3>1. 0 \in 0 .. MaxSlots
      BY BoundsAssumption
    <3>2. [op[i].m EXCEPT !.claim = None] \in Manifest
      BY <1>0, <3>1 DEF Manifest, None
    <3> QED BY <1>0, <3>2 DEF Operations, Steps
  <2>2. Done(i) \/ Goto(i, "close") \/ op' = [op EXCEPT ![i] = o]
    BY <1>6 DEF Archive, TypeOK, Operations
  <2> HIDE DEF o
  <2> QED BY <2>1, <2>2, OpTyped, GoesOnTyped DEF GoesOn, Steps
<1>7. CASE GoesOn(i)
  BY <1>7, GoesOnTyped
<1>8. ASSUME NEW skip \in BOOLEAN, SetUp(i, skip) PROVE GoesOn(i)
  BY <1>8 DEF SetUp, AfterSetup, GoesOn, Steps
<1>9. ASSUME NEW ok \in BOOLEAN, RunHooks(i, ok) \/ Launch(i, ok) PROVE GoesOn(i)
  BY <1>9 DEF RunHooks, Launch, AfterSetup, GoesOn, Steps
<1>10. CASE (\E refused \in BOOLEAN : StopAgent(i, refused)) \/ AwaitStop(i)
  BY <1>7, <1>10 DEF StopAgent, AwaitStop, AfterStop, GoesOn, Steps
<1>11. CASE SetupLater(i) \/ SaveRelease(i) \/ SaveArchive(i) \/ SaveClose(i)
  BY <1>7, <1>11 DEF SetupLater, SaveRelease, SaveArchive, SaveClose, GoesOn, Steps
<1>12. CASE Environment(i)
  BY <1>7, <1>12 DEF Environment, Sweep, AgentExit, Edit, Detach, Repair, GoesOn
<1>13. CASE \/ \E kind \in {"ensure", "start"} : StartOrEnsure(i, kind)
            \/ SetupAgain(i) \/ StartAgent(i) \/ ReleaseWorkspace(i) \/ Shelve(i)
  BY <1>7, <1>13 DEF StartOrEnsure, SetupAgain, StartAgent, ReleaseWorkspace, Shelve, GoesOn,
     Kinds, Steps
<1>14. CASE \/ \E s \in {"backlog", "active", "closed"} : SetItemState(i, s)
            \/ \E b \in 1 .. MaxBlockers : AddBlocker(i, b)
            \/ CommitWorkspace(i)
  BY <1>7, <1>14 DEF SetItemState, AddBlocker, CommitWorkspace, GoesOn
<1> QED
  BY <1>1, <1>2, <1>3, <1>4, <1>5, <1>6, <1>7, <1>8, <1>9, <1>10, <1>11, <1>12, <1>13, <1>14,
     <1>16, <1>17, <1>18
  DEF Step, Continue, Request

LEMMA ClearedTyped ==
    ASSUME TypeOK, NEW i \in Items, Step(i)
    PROVE  cleared' \in [Items -> SUBSET (1 .. MaxBlockers)]
<1>0. item[i].blocker \in 0 .. MaxBlockers
  BY DEF TypeOK, Manifest
<1>1. ASSUME NEW s \in {"backlog", "active", "closed"}, SetItemState(i, s)
      PROVE  cleared' \in [Items -> SUBSET (1 .. MaxBlockers)]
  BY <1>0, <1>1, BoundsAssumption DEF SetItemState, TypeOK, None
<1>2. CASE Sweep(i)
  BY <1>0, <1>2, BoundsAssumption DEF Sweep, TypeOK, None
<1>3. CASE SaveClose(i)
  <2>1. \/ cleared' = cleared
        \/ cleared' = [cleared EXCEPT ![i] = @ \union ({item[i].blocker} \ {None})]
    BY <1>3 DEF SaveClose
  <2> QED BY <1>0, <2>1, BoundsAssumption DEF TypeOK, None
<1>4. \/ \E s \in {"backlog", "active", "closed"} : SetItemState(i, s)
      \/ Sweep(i) \/ SaveClose(i) \/ UNCHANGED cleared
  BY WhoClears
<1> QED BY <1>1, <1>2, <1>3, <1>4 DEF TypeOK

LEMMA TypeStep ==
    ASSUME TypeOK, Room, AssignmentPrepared, [Next]_vars
    PROVE  TypeOK'
<1>1. ASSUME NEW i \in Items, Step(i) PROVE TypeOK'
  <2>1. item' \in [Items -> Manifest]
    BY <1>1, ItemsTyped
  <2>2. setup' \in [Items -> Setups] /\ agent' \in [Items -> Agents]
    BY <1>1, SetupsTyped, AgentsTyped
  <2>3. /\ branch' \in [Slots -> Items \union {Absent, Detached}]
        /\ dirt' \in [Slots -> SUBSET Items] /\ strayed' \subseteq Items \X Items
        /\ raced' \subseteq Items \X (1 .. MaxGen) \X Items \X (1 .. MaxGen)
    BY <1>1, SlotsTyped
  <2>4. op' \in [Items -> Operations] /\ cleared' \in [Items -> SUBSET (1 .. MaxBlockers)]
    BY <1>1, OperationsTyped, ClearedTyped
  <2> QED BY <2>1, <2>2, <2>3, <2>4 DEF TypeOK
<1>2. CASE Crash
  BY <1>2, ConstantsTyped DEF Crash, world, TypeOK
<1>3. CASE UNCHANGED vars
  BY <1>3 DEF vars, TypeOK
<1> QED BY <1>1, <1>2, <1>3 DEF Next, Step

----------------------------------------------------------------------------
(* Claiming a slot, and everything else *)

Claiming(i) ==
    \/ \E kind \in {"ensure", "start"} : StartOrEnsure(i, kind)
    \/ EnsureCheckout(i)
    \/ InspectSlot(i)
    \/ \E carries \in BOOLEAN : SwitchSlot(i, carries)
    \/ CreateSlot(i)
    \/ \E prepared \in BOOLEAN : PublishClaim(i, prepared)

\* No claim appears, and no assignment begins or goes on.
Calm ==
    \A j \in Items :
        /\ item'[j].claim # None => item'[j].claim = item[j].claim /\ item'[j].gen = item[j].gen
        /\ Assigning(j)' => op'[j] = op[j] /\ item'[j].claim = item[j].claim /\ item'[j].gen = item[j].gen

Quiet ==
    /\ Calm
    /\ \A j \in Items :
        /\ At(j, "ensure")' => op'[j] = op[j] /\ item'[j].claim = item[j].claim /\ item'[j].gen = item[j].gen
        /\ At(j, "save")' => op'[j] = op[j] \/ op'[j].m.claim = None

\* Only the steps that claim a slot do more than that.
LEMMA QuietOrClaiming ==
    ASSUME TypeOK, GivesUpTheClaim, [Next]_vars
    PROVE  Quiet \/ \E i \in Items : Claiming(i)
<1> USE DEF Idle, At, Goto, Done, Begin, BeginWith, NoOp, None, Manifest, Operations,
            TypeOK, Assigning, GivesUpTheClaim, Quiet, Calm
<1>1. ASSUME NEW i \in Items, NEW s \in {"backlog", "active", "closed"}, SetItemState(i, s) PROVE Quiet
  BY <1>1 DEF SetItemState
<1>2. ASSUME NEW i \in Items, NEW b \in 1 .. MaxBlockers, AddBlocker(i, b) PROVE Quiet
  BY <1>2 DEF AddBlocker
<1>3. ASSUME NEW i \in Items, Sweep(i) PROVE Quiet
  BY <1>3 DEF Sweep
<1>4. ASSUME NEW i \in Items, SetupAgain(i) PROVE Quiet
  BY <1>4 DEF SetupAgain
<1>5. ASSUME NEW i \in Items, StartAgent(i) PROVE Quiet
  BY <1>5 DEF StartAgent
<1>6. ASSUME NEW i \in Items, NEW k \in BOOLEAN, SetUp(i, k) PROVE Quiet
  BY <1>6 DEF SetUp, AfterSetup
<1>7. ASSUME NEW i \in Items, SetupLater(i) PROVE Quiet
  BY <1>7 DEF SetupLater
<1>8. ASSUME NEW i \in Items, NEW k \in BOOLEAN, RunHooks(i, k) PROVE Quiet
  BY <1>8 DEF RunHooks, AfterSetup
<1>9. ASSUME NEW i \in Items, NEW k \in BOOLEAN, Launch(i, k) PROVE Quiet
  BY <1>9 DEF Launch
<1>10. ASSUME NEW i \in Items, AgentExit(i) PROVE Quiet
  BY <1>10 DEF AgentExit
<1>11. ASSUME NEW i \in Items, ReleaseWorkspace(i) PROVE Quiet
  BY <1>11 DEF ReleaseWorkspace
<1>12. ASSUME NEW i \in Items, SaveRelease(i) PROVE Quiet
  BY <1>12 DEF SaveRelease
<1>13. ASSUME NEW i \in Items, Shelve(i) PROVE Quiet
  BY <1>13 DEF Shelve
<1>14. ASSUME NEW i \in Items, NEW f \in BOOLEAN, NEW c \in BOOLEAN, Close(i, f, c) PROVE Quiet
  BY <1>14 DEF Close
<1>15. ASSUME NEW i \in Items, NEW k \in BOOLEAN, StopAgent(i, k) PROVE Quiet
  BY <1>15 DEF StopAgent, AfterStop
<1>16. ASSUME NEW i \in Items, AwaitStop(i) PROVE Quiet
  BY <1>16 DEF AwaitStop, AfterStop
<1>17. ASSUME NEW i \in Items, CommitWorkspace(i) PROVE Quiet
  BY <1>17 DEF CommitWorkspace
<1>18. ASSUME NEW i \in Items, CommitAndClose(i) PROVE Quiet
  BY <1>18 DEF CommitAndClose
<1>19. ASSUME NEW i \in Items, NEW k \in BOOLEAN, Archive(i, k) PROVE Quiet
  BY <1>19 DEF Archive
<1>20. ASSUME NEW i \in Items, SaveArchive(i) PROVE Quiet
  BY <1>20 DEF SaveArchive
<1>21. ASSUME NEW i \in Items, SaveClose(i) PROVE Quiet
  BY <1>21 DEF SaveClose
<1>22. ASSUME NEW i \in Items, NEW n \in Slots, Edit(i, n) PROVE Quiet
  BY <1>22 DEF Edit
<1>23. ASSUME NEW i \in Items, Detach(i) PROVE Quiet
  BY <1>23 DEF Detach
<1>24. ASSUME NEW i \in Items, Repair(i) PROVE Quiet
  BY <1>24 DEF Repair
<1>25. CASE Crash
  BY <1>25 DEF Crash
<1>26. CASE UNCHANGED vars
  BY <1>26 DEF vars
<1> QED
  BY <1>1, <1>2, <1>3, <1>4, <1>5, <1>6, <1>7, <1>8, <1>9, <1>10, <1>11, <1>12, <1>13, <1>14,
     <1>15, <1>16, <1>17, <1>18, <1>19, <1>20, <1>21, <1>22, <1>23, <1>24, <1>25, <1>26
  DEF Next, Continue, Request, Environment, Claiming

LEMMA RoomStep ==
    ASSUME TypeOK, Room, GivesUpTheClaim, AssignmentPrepared, OperationsMindAgents, [Next]_vars
    PROVE  Room' /\ GivesUpTheClaim' /\ AssignmentPrepared'
<1> DEFINE Kept == Room' /\ GivesUpTheClaim' /\ AssignmentPrepared'
<1> USE DEF Room, GivesUpTheClaim, AssignmentPrepared, At, Assigning
<1>1. CASE Quiet
  BY <1>1 DEF Quiet, Calm
<1>2. ASSUME NEW i \in Items, NEW kind \in {"ensure", "start"}, StartOrEnsure(i, kind)
      PROVE  Kept
  BY <1>2 DEF StartOrEnsure, Begin, NoOp, TypeOK
<1>3. ASSUME NEW i \in Items, EnsureCheckout(i)
      PROVE  Kept
  <2>1. At(i, "ensure")
    BY <1>3 DEF EnsureCheckout, List
  <2> QED BY <1>3, <2>1, ChecksOut
<1>4. ASSUME NEW i \in Items, InspectSlot(i)
      PROVE  Kept
  <2>1. At(i, "assign")
    BY <1>4 DEF InspectSlot
  <2> QED BY <1>4, <2>1, Inspects
<1>5. ASSUME NEW i \in Items, NEW carries \in BOOLEAN, SwitchSlot(i, carries)
      PROVE  Kept
  <2>1. At(i, "switch")
    BY <1>5 DEF SwitchSlot
  <2> QED BY <1>5, <2>1, Switches
<1>6. ASSUME NEW i \in Items, CreateSlot(i)
      PROVE  Kept
  <2>1. At(i, "assign")
    BY <1>6 DEF CreateSlot
  <2> QED BY <1>6, <2>1, Creates
<1>7. ASSUME NEW i \in Items, NEW prepared \in BOOLEAN, PublishClaim(i, prepared)
      PROVE  Kept
  BY <1>7, Publishes
<1> QED BY <1>1, <1>2, <1>3, <1>4, <1>5, <1>6, <1>7, QuietOrClaiming DEF Claiming

----------------------------------------------------------------------------
(* Agents *)

LEMMA AgentStep ==
    ASSUME TypeOK, AgentsWorkOnReadyClaims, OperationsMindAgents, [Next]_vars
    PROVE  AgentsWorkOnReadyClaims' /\ OperationsMindAgents'
<1> DEFINE Kept == AgentsWorkOnReadyClaims' /\ OperationsMindAgents'
<1>1. ASSUME NEW i \in Items, EnsureCheckout(i) PROVE Kept
  BY <1>1, ChecksOut DEF AgentsWorkOnReadyClaims, OperationsMindAgents, Ready, At, Assigning
<1>2. ASSUME NEW i \in Items, InspectSlot(i) \/ CreateSlot(i) \/ \E c \in BOOLEAN : SwitchSlot(i, c)
      PROVE  Kept
  <2>1. Assigning(i)
    BY <1>2 DEF InspectSlot, CreateSlot, SwitchSlot, At, Assigning
  <2>2. /\ UNCHANGED <<item, setup, agent>> /\ \A j \in Items \ {i} : op'[j] = op[j]
        /\ op'[i].pc \in {"idle", "assign", "switch", "claim"}
    BY <1>2, Inspects, Switches, Creates
  <2> QED BY <2>1, <2>2 DEF AgentsWorkOnReadyClaims, OperationsMindAgents, Ready, At, Assigning
<1>3. ASSUME NEW i \in Items, NEW prepared \in BOOLEAN, PublishClaim(i, prepared) PROVE Kept
  <2>1. ~agent[i].on
    BY <1>3 DEF PublishClaim, At, Assigning, AgentsWorkOnReadyClaims, OperationsMindAgents
  <2> QED BY <1>3, <2>1, Publishes DEF AgentsWorkOnReadyClaims, OperationsMindAgents, Ready, At, Assigning
<1>4. ASSUME NEW i \in Items, NEW skip \in BOOLEAN, SetUp(i, skip) PROVE Kept
  <2>1. UNCHANGED <<item, agent>> /\ \A j \in Items \ {i} : op'[j] = op[j] /\ setup'[j] = setup[j]
    BY <1>4 DEF SetUp, AfterSetup, Goto, Done, TypeOK
  <2>2. CASE agent[i].on \/ (Ready(i) /\ op[i].kind # "rerun")
    <3>1. UNCHANGED setup /\ op'[i].pc \in {"launch", "idle"}
      BY <1>4, <2>2 DEF SetUp, AfterSetup, Goto, Done, NoOp, TypeOK, Operations
    <3>2. Ready(i)
      BY <2>2 DEF AgentsWorkOnReadyClaims, Ready
    <3> QED BY <2>1, <3>1, <3>2 DEF AgentsWorkOnReadyClaims, OperationsMindAgents, Ready, At, Assigning
  <2>3. CASE ~(agent[i].on \/ (Ready(i) /\ op[i].kind # "rerun"))
    <3>1. \/ /\ setup'[i] = [gen |-> item[i].gen, status |-> "skipped"]
             /\ op'[i].pc \in {"launch", "idle"}
          \/ /\ setup'[i] = [gen |-> item[i].gen, status |-> "running"]
             /\ op'[i].pc = "hooks"
      BY <1>4, <2>3 DEF SetUp, AfterSetup, Goto, Done, NoOp, TypeOK, Operations
    <3> QED BY <2>1, <2>3, <3>1 DEF AgentsWorkOnReadyClaims, OperationsMindAgents, Ready, At, Assigning
  <2> QED BY <2>2, <2>3
<1>5. ASSUME NEW i \in Items, NEW refused \in BOOLEAN, StopAgent(i, refused) PROVE Kept
  <2>1. /\ UNCHANGED <<item, setup, agent>> /\ \A j \in Items \ {i} : op'[j] = op[j]
        /\ op'[i].pc \in {"commit", "archive", "wait", "idle"}
    BY <1>5 DEF StopAgent, AfterStop, Goto, Done, NoOp, TypeOK, Operations
  <2> QED BY <2>1 DEF AgentsWorkOnReadyClaims, OperationsMindAgents, Ready, At, Assigning
<1>6. ASSUME NEW i \in Items, CommitAndClose(i) PROVE Kept
  <2>1. /\ UNCHANGED <<item, setup, agent>> /\ \A j \in Items \ {i} : op'[j] = op[j]
        /\ op'[i].pc \in {"archive", "idle"}
    <3>1. op' = [op EXCEPT ![i].pc = "archive", ![i].m = item[i]] \/ Done(i)
      BY <1>6 DEF CommitAndClose
    <3> QED BY <1>6, <3>1 DEF CommitAndClose, Done, NoOp, TypeOK, Operations
  <2> QED BY <2>1 DEF AgentsWorkOnReadyClaims, OperationsMindAgents, Ready, At, Assigning
<1>7. ASSUME NEW i \in Items, NEW terminal \in BOOLEAN, Archive(i, terminal) PROVE Kept
  <2>1. /\ UNCHANGED <<item, setup, agent>> /\ \A j \in Items \ {i} : op'[j] = op[j]
        /\ op'[i].pc = "idle" \/ (~agent[i].on /\ op'[i].pc \in {"save", "close"})
    BY <1>7 DEF Archive, MayArchive, Goto, Done, NoOp, TypeOK, Operations
  <2> QED BY <2>1 DEF AgentsWorkOnReadyClaims, OperationsMindAgents, Ready, At, Assigning
<1>8. ASSUME NEW i \in Items, SaveArchive(i) PROVE Kept
  <2>1. /\ UNCHANGED <<setup, agent>> /\ \A j \in Items \ {i} : op'[j] = op[j] /\ item'[j] = item[j]
        /\ op'[i].pc \in {"close", "idle"} /\ ~agent[i].on
    BY <1>8 DEF SaveArchive, At, Goto, Done, NoOp, TypeOK, Operations, OperationsMindAgents
  <2> QED BY <2>1 DEF AgentsWorkOnReadyClaims, OperationsMindAgents, Ready, At, Assigning
<1> USE DEF AgentsWorkOnReadyClaims, OperationsMindAgents, Ready, Idle, At, Assigning, Goto, Done, Begin,
            BeginWith, NoOp, NoAgent, TypeOK, Manifest, Operations, Agents, Setups
<1>9. ASSUME NEW i \in Items, NEW s \in {"backlog", "active", "closed"}, SetItemState(i, s) PROVE Kept
  BY <1>9 DEF SetItemState, Holds
<1>10. ASSUME NEW i \in Items, NEW b \in 1 .. MaxBlockers, AddBlocker(i, b) PROVE Kept
  BY <1>10 DEF AddBlocker
<1>11. ASSUME NEW i \in Items, Sweep(i) PROVE Kept
  BY <1>11 DEF Sweep
<1>12. ASSUME NEW i \in Items, NEW k \in {"ensure", "start"}, StartOrEnsure(i, k) PROVE Kept
  BY <1>12 DEF StartOrEnsure
<1>13. ASSUME NEW i \in Items, SetupAgain(i) PROVE Kept
  BY <1>13 DEF SetupAgain
<1>14. ASSUME NEW i \in Items, StartAgent(i) PROVE Kept
  BY <1>14 DEF StartAgent, SetupBlocks
<1>15. ASSUME NEW i \in Items, SetupLater(i) PROVE Kept
  BY <1>15 DEF SetupLater
<1>16. ASSUME NEW i \in Items, NEW k \in BOOLEAN, RunHooks(i, k) PROVE Kept
  BY <1>16 DEF RunHooks, AfterSetup
<1>17. ASSUME NEW i \in Items, NEW k \in BOOLEAN, Launch(i, k) PROVE Kept
  BY <1>17 DEF Launch, MayLaunch, SetupBlocks
<1>18. ASSUME NEW i \in Items, AgentExit(i) PROVE Kept
  BY <1>18 DEF AgentExit
<1>19. ASSUME NEW i \in Items, ReleaseWorkspace(i) PROVE Kept
  BY <1>19 DEF ReleaseWorkspace, MayRelease
<1>20. ASSUME NEW i \in Items, SaveRelease(i) PROVE Kept
  BY <1>20 DEF SaveRelease
<1>21. ASSUME NEW i \in Items, Shelve(i) PROVE Kept
  BY <1>21 DEF Shelve
<1>22. ASSUME NEW i \in Items, NEW f \in BOOLEAN, NEW c \in BOOLEAN, Close(i, f, c) PROVE Kept
  BY <1>22 DEF Close
<1>23. ASSUME NEW i \in Items, AwaitStop(i) PROVE Kept
  <2>1. /\ UNCHANGED <<item, setup, agent>> /\ \A j \in Items \ {i} : op'[j] = op[j]
        /\ op'[i].pc \in {"commit", "archive", "idle"}
    BY <1>23 DEF AwaitStop, AfterStop
  <2> QED BY <2>1
<1>24. ASSUME NEW i \in Items, CommitWorkspace(i) PROVE Kept
  BY <1>24 DEF CommitWorkspace
<1>25. ASSUME NEW i \in Items, SaveClose(i) PROVE Kept
  <2>1. /\ UNCHANGED <<setup, agent>> /\ ~agent[i].on /\ op'[i].pc = "idle"
        /\ \A j \in Items \ {i} : op'[j] = op[j]
    BY <1>25 DEF SaveClose
  <2>2. item' = item \/ item' = [item EXCEPT ![i].state = "closed", ![i].blocker = None]
    BY <1>25 DEF SaveClose
  <2>3. \A j \in Items \ {i} : item'[j] = item[j]
    BY <2>2
  <2> HIDE DEF Goto, Done, Begin, BeginWith, NoOp, NoAgent, TypeOK
  <2> QED BY <2>1, <2>3
<1>26. ASSUME NEW i \in Items, NEW n \in Slots, Edit(i, n) PROVE Kept
  BY <1>26 DEF Edit
<1>27. ASSUME NEW i \in Items, Detach(i) PROVE Kept
  BY <1>27 DEF Detach
<1>28. ASSUME NEW i \in Items, Repair(i) PROVE Kept
  BY <1>28 DEF Repair
<1>29. CASE Crash
  BY <1>29 DEF Crash
<1>30. CASE UNCHANGED vars
  BY <1>30 DEF vars
<1> HIDE DEF Kept
<1> QED
  BY <1>1, <1>2, <1>3, <1>4, <1>5, <1>6, <1>7, <1>8, <1>9, <1>10, <1>11, <1>12, <1>13, <1>14,
     <1>15, <1>16, <1>17, <1>18, <1>19, <1>20, <1>21, <1>22, <1>23, <1>24, <1>25, <1>26, <1>27,
     <1>28, <1>29, <1>30
  DEF Next, Continue, Request, Environment, Kept

----------------------------------------------------------------------------
(* Blockers *)

LEMMA ClearedStep ==
    ASSUME TypeOK, ClearedStaysCleared, [Next]_vars
    PROVE  ClearedStaysCleared'
<1>0. \A i \in Items : 0 \notin cleared[i] /\ item[i].blocker \notin cleared[i]
  BY DEF TypeOK, ClearedStaysCleared
<1>1. ASSUME NEW i \in Items, NEW s \in {"backlog", "active", "closed"}, SetItemState(i, s)
      PROVE  ClearedStaysCleared'
  BY <1>0, <1>1 DEF SetItemState, ClearedStaysCleared, None, TypeOK, Manifest
<1>2. ASSUME NEW i \in Items, NEW b \in 1 .. MaxBlockers, AddBlocker(i, b)
      PROVE  ClearedStaysCleared'
  BY <1>0, <1>2 DEF AddBlocker, ClearedStaysCleared, TypeOK, Manifest
<1>3. ASSUME NEW i \in Items, Sweep(i) PROVE ClearedStaysCleared'
  BY <1>0, <1>3 DEF Sweep, ClearedStaysCleared, None, TypeOK, Manifest
<1>4. ASSUME NEW i \in Items, NEW prepared \in BOOLEAN, PublishClaim(i, prepared)
      PROVE  ClearedStaysCleared'
  BY <1>0, <1>4, Publishes DEF ClearedStaysCleared
<1>5. ASSUME NEW i \in Items, SaveRelease(i) PROVE ClearedStaysCleared'
  BY <1>0, <1>5 DEF SaveRelease, Accepts, ClearedStaysCleared, TypeOK, Manifest, Operations
<1>6. ASSUME NEW i \in Items, SaveArchive(i) PROVE ClearedStaysCleared'
  BY <1>0, <1>6 DEF SaveArchive, Accepts, ClearedStaysCleared, TypeOK, Manifest, Operations
<1>7. ASSUME NEW i \in Items, SaveClose(i) PROVE ClearedStaysCleared'
  <2>1. UNCHANGED <<item, cleared>> \/
        /\ item' = [item EXCEPT ![i].state = "closed", ![i].blocker = None]
        /\ cleared' = [cleared EXCEPT ![i] = @ \union ({item[i].blocker} \ {None})]
    BY <1>7 DEF SaveClose
  <2> QED BY <1>0, <2>1 DEF ClearedStaysCleared, None, TypeOK, Manifest
<1>8. CASE UNCHANGED <<item, cleared>>
  BY <1>8 DEF ClearedStaysCleared
<1>9. CASE Crash \/ UNCHANGED vars
  BY <1>8, <1>9 DEF Crash, vars
<1>10. ASSUME NEW i \in Items, Step(i), UNCHANGED item PROVE ClearedStaysCleared'
  BY <1>1, <1>3, <1>7, <1>8, <1>10, WhoClears
<1> QED
  BY <1>1, <1>2, <1>3, <1>4, <1>5, <1>6, <1>7, <1>9, <1>10, WhoChangesItems DEF Next, Step

----------------------------------------------------------------------------
(* Slots *)

\* Races are symmetric, and never forgotten.
LEMMA RacesRemain ==
    ASSUME raced \subseteq raced', NEW i, NEW j
    PROVE  /\ \A g, h : Raced(i, g, j, h) => Raced(i, g, j, h)' /\ Raced(j, h, i, g)'
           /\ HaveRaced(i, j) => HaveRaced(i, j)'
BY DEF Raced, HaveRaced

LEMMA RacersHaveRaced ==
    ASSUME TypeOK, NEW i, NEW j, NEW g, NEW h, Raced(i, g, j, h)
    PROVE  i \in Items /\ j \in Items /\ HaveRaced(i, j) /\ HaveRaced(j, i)
<1>1. g \in 1 .. MaxGen /\ h \in 1 .. MaxGen /\ i \in Items /\ j \in Items
  BY DEF Raced, TypeOK
<1> QED BY <1>1 DEF HaveRaced, Raced

\* Nobody has, or is about to have, a slot that is not there yet.
LEMMA AbsentIsFree ==
    ASSUME TypeOK, SlotInv, NEW n \in Slots, branch[n] = Absent
    PROVE  /\ dirt[n] = {}
           /\ \A j \in Items : item[j].claim # n /\ ~(At(j, "claim") /\ op[j].slot = n)
<1>1. \A j \in Items : ~HaveRaced(j, Absent)
  BY BranchAssumption DEF HaveRaced, Raced, TypeOK
<1>2. \A j \in Items : ~BelongsTo(n, j)
  BY <1>1, BranchAssumption DEF BelongsTo
<1>3. \A j \in dirt[n] : j \in Items
  BY DEF TypeOK
<1> QED BY <1>2, <1>3 DEF SlotInv, SlotsAreHeld, WorkStaysWithItsItem, BelongsTo

\* Whoever has, or is about to have, the slot that an assignment chose was
\* assigned beside it.
LEMMA RivalsHaveRaced ==
    ASSUME TypeOK, SlotInv, AssignmentPrepared, NEW i \in Items, NEW j \in Items \ {i}, Chose(i, op[i].slot),
           \/ item[j].claim = op[i].slot
           \/ At(j, "claim") /\ op[j].slot = op[i].slot
    PROVE  HaveRaced(i, j) /\ HaveRaced(j, i)
<1>1. Assigning(i) /\ op[i].slot \in Slots /\ op[i].slot # None
  BY DEF Chose, Assigning, AssignmentPrepared, Slots, None
<1>2. CASE item[j].claim = op[i].slot
  <2>1. ~Passes(i, op[i].slot)
    BY DEF Passes, Chose, AssignmentPrepared, At
  <2> QED BY <1>1, <1>2, <2>1, RacersHaveRaced DEF SlotInv, ClaimsKnown
<1>3. CASE At(j, "claim")
  <2>1. Assigning(j)
    BY <1>3 DEF At, Assigning
  <2> QED BY <1>1, <2>1, RacersHaveRaced DEF SlotInv, RacersKnown
<1> QED BY <1>2, <1>3

\* Two items that have one slot were assigned it at once.
LEMMA SharersHaveRaced ==
    ASSUME TypeOK, SlotInv, NEW i \in Items, NEW j \in Items \ {i}, item[i].claim # None,
           item[i].claim = item[j].claim
    PROVE  HaveRaced(i, j) /\ HaveRaced(j, i)
BY RacersHaveRaced DEF SlotInv, SlotsSharedOnlyByRace

\* A step that claims and assigns nothing, and no slot comes to hold more work.
LEMMA CalmSlots ==
    ASSUME TypeOK, SlotInv, Calm, UNCHANGED <<branch, raced>>,
           \A q \in strayed' : HaveRaced(q[1], q[2]),
           \A n \in Slots : dirt'[n] \subseteq dirt[n]
    PROVE  SlotInv'
<1> USE DEF None
<1>1. \A i, g, j, h : Raced(i, g, j, h)' <=> Raced(i, g, j, h)
  BY DEF Raced
<1>2. \A i, j : HaveRaced(i, j)' <=> HaveRaced(i, j)
  BY DEF HaveRaced, Raced
<1>3. /\ \A j \in Items : item'[j].claim # None => item'[j].claim = item[j].claim /\ item'[j].gen = item[j].gen
      /\ \A j \in Items : Assigning(j)' => Assigning(j) /\ op'[j] = op[j] /\ item'[j].gen = item[j].gen
  BY DEF Calm, Assigning
<1>4. SlotsSharedOnlyByRace'
  BY <1>1, <1>3 DEF SlotInv, SlotsSharedOnlyByRace
<1>5. WorkStaysWithItsItem'
  BY <1>2 DEF SlotInv, WorkStaysWithItsItem
<1>6. RacersKnown'
  BY <1>1, <1>3 DEF SlotInv, RacersKnown
<1>7. ClaimsKnown'
  BY <1>1, <1>3 DEF SlotInv, ClaimsKnown, Passes, At
<1>8. WorkIsItsOwn'
  <2>1. \A j \in Items, n \in Slots : Chose(j, n)' => Chose(j, n)
    BY <1>3 DEF Chose, Assigning
  <2>2. \A j \in Items, n \in Slots : item'[j].claim = n => item[j].claim = n
    BY <1>3 DEF Slots
  <2> QED BY <1>2, <2>1, <2>2 DEF SlotInv, WorkIsItsOwn
<1>9. SlotsAreHeld'
  <2>1. \A j \in Items, n \in Slots : item'[j].claim = n => item[j].claim = n
    BY <1>3 DEF Slots
  <2>2. \A j \in Items : At(j, "claim")' => At(j, "claim") /\ op'[j] = op[j]
    BY <1>3 DEF At, Assigning
  <2> QED BY <1>2, <2>1, <2>2 DEF SlotInv, SlotsAreHeld, BelongsTo
<1> QED BY <1>4, <1>5, <1>6, <1>7, <1>8, <1>9 DEF SlotInv

\* What a commit puts on another item's branch is the work of one that was
\* assigned a slot beside it.
LEMMA CommitSlots ==
    ASSUME TypeOK, SlotInv, NEW i \in Items, item[i].claim # None, CommitTo(i), UNCHANGED <<branch, raced>>, Calm
    PROVE  SlotInv'
<1>1. item[i].claim \in Slots
  BY DEF TypeOK, Manifest, Slots, None
<1>2. \A k \in dirt[item[i].claim] \ {i} : HaveRaced(k, i)
  BY <1>1 DEF SlotInv, WorkIsItsOwn
<1>3. \A q \in strayed' : HaveRaced(q[1], q[2])
  BY <1>2 DEF CommitTo, SlotInv, WorkStaysWithItsItem
<1>4. \A n \in Slots : dirt'[n] \subseteq dirt[n]
  BY <1>1 DEF CommitTo, TypeOK
<1> QED BY <1>3, <1>4, CalmSlots

LEMMA ListStep ==
    ASSUME TypeOK, SlotInv, NEW i \in Items, EnsureCheckout(i)
    PROVE  SlotInv'
<1> USE DEF None
<1>0. At(i, "ensure") /\ ~Assigning(i)
  BY DEF EnsureCheckout, List, At, Assigning
<1>1. UNCHANGED <<item, branch, dirt, strayed>> /\ \A j \in Items \ {i} : op'[j] = op[j]
  BY ChecksOut
<1>2. CASE op'[i].pc = "setup" /\ UNCHANGED raced
  <2>1. Calm
    BY <1>1, <1>2 DEF Calm, Assigning
  <2>2. \A q \in strayed' : HaveRaced(q[1], q[2])
    BY <1>1 DEF SlotInv, WorkStaysWithItsItem
  <2> QED BY <1>1, <1>2, <2>1, <2>2, CalmSlots
<1>3. CASE /\ op'[i].pc = "assign"
           /\ \A j \in Items \ {i} : item[j].claim \in op'[i].taken \union {None}
           /\ raced' = raced \union {<<i, item[i].gen + 1, j, item[j].gen + 1>> :
                                         j \in {k \in Items \ {i} : Assigning(k)}}
  <2>1. raced \subseteq raced' /\ \A j \in Items \ {i} : Assigning(j) =>
            <<i, item[i].gen + 1, j, item[j].gen + 1>> \in raced'
    BY <1>3
  <2>2. /\ \A j, k, g, h : Raced(j, g, k, h) => Raced(j, g, k, h)'
        /\ \A j, k : HaveRaced(j, k) => HaveRaced(j, k)'
    BY <2>1, RacesRemain
  <2>3. \A j \in Items \ {i} : Assigning(j)' <=> Assigning(j)
    BY <1>1 DEF Assigning
  <2>4. SlotsSharedOnlyByRace' /\ WorkStaysWithItsItem'
    BY <1>1, <2>2 DEF SlotInv, SlotsSharedOnlyByRace, WorkStaysWithItsItem
  <2>5. RacersKnown'
    <3>1. \A j \in Items \ {i} : Assigning(j) =>
              /\ Raced(i, item[i].gen + 1, j, item[j].gen + 1)'
              /\ Raced(j, item[j].gen + 1, i, item[i].gen + 1)'
      BY <1>1, <2>1 DEF Raced
    <3> QED BY <1>1, <2>2, <2>3, <3>1 DEF SlotInv, RacersKnown
  <2>6. ClaimsKnown'
    <3>1. \A j \in Items \ {i} : item[j].claim # None => Passes(i, item[j].claim)'
      BY <1>1, <1>3 DEF Passes, At
    <3>2. \A j \in Items \ {i} : \A n : Passes(j, n)' <=> Passes(j, n)
      BY <1>1 DEF Passes, At
    <3> QED BY <1>1, <2>2, <2>3, <3>1, <3>2 DEF SlotInv, ClaimsKnown
  <2>7. WorkIsItsOwn'
    <3>1. \A j \in Items, n \in Slots : Chose(j, n)' => Chose(j, n)
      BY <1>1, <1>3 DEF Chose
    <3> QED BY <1>1, <2>2, <3>1 DEF SlotInv, WorkIsItsOwn
  <2>8. SlotsAreHeld'
    <3>1. \A j \in Items : At(j, "claim")' => At(j, "claim") /\ op'[j] = op[j]
      BY <1>1, <1>3 DEF At
    <3> QED BY <1>1, <2>2, <3>1 DEF SlotInv, SlotsAreHeld, BelongsTo
  <2> QED BY <2>4, <2>5, <2>6, <2>7, <2>8 DEF SlotInv
<1> QED BY <1>2, <1>3, ChecksOut

\* A step of an assignment that leaves the slots as they are.
LEMMA TryStep ==
    ASSUME TypeOK, SlotInv, NEW i \in Items, Assigning(i), UNCHANGED <<item, world>>,
           \A j \in Items \ {i} : op'[j] = op[j],
           \/ op'[i].pc \notin {"assign", "switch", "claim"}
           \/ ~At(i, "claim") /\ op'[i].pc = "assign" /\ op[i].taken \subseteq op'[i].taken
           \/ /\ ~At(i, "claim") /\ op'[i].pc = "switch" /\ op[i].taken \subseteq op'[i].taken
              /\ op'[i].slot \in Slots /\ dirt[op'[i].slot] = {}
    PROVE  SlotInv'
<1>1. \A j, k, g, h : Raced(j, g, k, h)' <=> Raced(j, g, k, h)
  BY DEF Raced, world
<1>2. \A j, k : HaveRaced(j, k)' <=> HaveRaced(j, k)
  BY DEF HaveRaced, Raced, world
<1>3. \A j \in Items : Assigning(j)' => Assigning(j)
  BY DEF Assigning
<1>4. SlotsSharedOnlyByRace' /\ WorkStaysWithItsItem'
  BY <1>1, <1>2 DEF SlotInv, SlotsSharedOnlyByRace, WorkStaysWithItsItem, world
<1>5. RacersKnown'
  BY <1>1, <1>3 DEF SlotInv, RacersKnown
<1>6. ClaimsKnown'
  <2>1. \A j \in Items : \A n : Assigning(j)' /\ Passes(j, n) => Passes(j, n)'
    BY DEF Passes, At, Assigning
  <2> QED BY <1>1, <1>3, <2>1 DEF SlotInv, ClaimsKnown
<1>7. WorkIsItsOwn'
  <2>1. \A j \in Items, n \in Slots : Chose(j, n)' => Chose(j, n) \/ dirt[n] = {}
    BY DEF Chose
  <2> QED BY <1>2, <2>1 DEF SlotInv, WorkIsItsOwn, world
<1>8. SlotsAreHeld'
  <2>1. \A j \in Items : At(j, "claim")' => At(j, "claim") /\ op'[j] = op[j]
    BY DEF At
  <2> QED BY <1>2, <2>1 DEF SlotInv, SlotsAreHeld, BelongsTo, world
<1> QED BY <1>4, <1>5, <1>6, <1>7, <1>8 DEF SlotInv

\* A step that gives a slot the item's branch, where all the work in it and
\* all who have it or are about to are the item's, or were assigned beside it.
LEMMA BranchStep ==
    ASSUME TypeOK, SlotInv, NEW i \in Items, NEW n \in Slots, UNCHANGED <<item, dirt, strayed, raced>>,
           branch' = [branch EXCEPT ![n] = i], Assigning(i),
           \A j \in Items \ {i} : op'[j] = op[j],
           op'[i].pc = "claim" /\ op'[i].slot = n,
           \A j \in Items \ {i} : item[j].claim = n \/ (At(j, "claim") /\ op[j].slot = n) => HaveRaced(j, i),
           \A j \in Items \ {i} : item[j].claim = n => Raced(i, item[i].gen + 1, j, item[j].gen),
           \A j \in dirt[n] : j = i \/ HaveRaced(j, i)
    PROVE  SlotInv'
<1>1. \A j, k, g, h : Raced(j, g, k, h)' <=> Raced(j, g, k, h)
  BY DEF Raced
<1>2. \A j, k : HaveRaced(j, k)' <=> HaveRaced(j, k)
  BY DEF HaveRaced, Raced
<1>3. branch'[n] = i /\ \A k \in Slots \ {n} : branch'[k] = branch[k]
  BY DEF TypeOK
<1>4. \A j \in Items : Assigning(j)' => Assigning(j)
  BY DEF Assigning
<1>5. SlotsSharedOnlyByRace'
  BY <1>1 DEF SlotInv, SlotsSharedOnlyByRace
<1>6. WorkStaysWithItsItem'
  BY <1>2, <1>3 DEF SlotInv, WorkStaysWithItsItem
<1>7. RacersKnown'
  BY <1>1, <1>4 DEF SlotInv, RacersKnown
<1>8. ClaimsKnown'
  <2>1. \A j \in Items \ {i} : \A k : Passes(j, k)' <=> Passes(j, k)
    BY DEF Passes, At
  <2>2. \A k : k # n => Passes(i, k)'
    BY DEF Passes, At
  <2> QED BY <1>1, <1>4, <2>1, <2>2 DEF SlotInv, ClaimsKnown
<1>9. WorkIsItsOwn'
  <2>1. \A j \in Items \ {i} : \A k : Chose(j, k)' <=> Chose(j, k)
    BY DEF Chose
  <2>2. \A k : Chose(i, k)' => k = n
    BY DEF Chose
  <2> QED BY <1>2, <2>1, <2>2 DEF SlotInv, WorkIsItsOwn
<1>10. SlotsAreHeld'
  <2>1. \A j \in Items \ {i} : At(j, "claim")' <=> At(j, "claim")
    BY DEF At
  <2>2. \A k \in Slots \ {n} : \A j \in Items : BelongsTo(k, j) => BelongsTo(k, j)'
    BY <1>2, <1>3 DEF BelongsTo
  <2>3. BelongsTo(n, i)' /\ \A j \in Items : HaveRaced(j, i) => BelongsTo(n, j)'
    BY <1>2, <1>3 DEF BelongsTo
  <2> QED BY <2>1, <2>2, <2>3 DEF SlotInv, SlotsAreHeld
<1> QED BY <1>5, <1>6, <1>7, <1>8, <1>9, <1>10 DEF SlotInv

\* A claim is published: its slot was claimed only by items assigned beside it.
LEMMA PublishStep ==
    ASSUME TypeOK, SlotInv, Room, AssignmentPrepared, NEW i \in Items, NEW prepared \in BOOLEAN,
           PublishClaim(i, prepared)
    PROVE  SlotInv'
<1> USE DEF None
<1>0. At(i, "claim") /\ Assigning(i) /\ op[i].slot \in Slots /\ op[i].m.gen = item[i].gen
  BY DEF PublishClaim, At, Assigning, AssignmentPrepared, Room
<1>1. UNCHANGED world /\ \A j \in Items \ {i} : op'[j] = op[j] /\ item'[j] = item[j]
  BY Publishes
<1>2. CASE op'[i].pc = "idle" /\ UNCHANGED item
  BY <1>0, <1>1, <1>2, TryStep
<1>3. CASE op'[i].pc = "setup" /\ item'[i].claim = op[i].slot /\ item'[i].gen = op[i].m.gen + 1
  <2> DEFINE n == op[i].slot
             g == item[i].gen + 1
  <2>1. item'[i].claim = n /\ item'[i].gen = g /\ n \in Slots /\ ~Assigning(i)'
    BY <1>0, <1>3 DEF Assigning
  <2>2. \A j \in Items : At(j, "claim")' <=> At(j, "claim") /\ j # i
    BY <1>1, <1>3 DEF At
  <2>3. \A j \in Items : Assigning(j)' <=> Assigning(j) /\ j # i
    BY <1>1, <2>1 DEF Assigning
  <2>4. \A j \in Items \ {i} : Assigning(j) => Raced(j, item[j].gen + 1, i, g)
    BY <1>0 DEF SlotInv, RacersKnown
  <2>5. \A j \in Items \ {i} : item[j].claim = n => Raced(i, g, j, item[j].gen)
    BY <1>0, <2>1 DEF SlotInv, ClaimsKnown, Passes, Slots
  <2>6. \A j, k, h, l : Raced(j, h, k, l)' <=> Raced(j, h, k, l)
    BY <1>1 DEF Raced, world
  <2>7. \A j, k : HaveRaced(j, k)' <=> HaveRaced(j, k)
    BY <1>1 DEF HaveRaced, Raced, world
  <2> HIDE DEF n, g
  <2>8. SlotsSharedOnlyByRace'
    <3>1. \A j \in Items \ {i} : item[j].claim = n =>
              Raced(i, g, j, item[j].gen) /\ Raced(j, item[j].gen, i, g)
      BY <2>5 DEF Raced
    <3> QED BY <1>1, <2>1, <2>6, <3>1 DEF SlotInv, SlotsSharedOnlyByRace
  <2>9. WorkStaysWithItsItem'
    BY <1>1, <2>7 DEF SlotInv, WorkStaysWithItsItem, world
  <2>10. RacersKnown'
    BY <1>1, <2>3, <2>6 DEF SlotInv, RacersKnown
  <2>11. ClaimsKnown'
    <3>1. \A j \in Items \ {i} : \A k : Passes(j, k)' <=> Passes(j, k)
      BY <1>1 DEF Passes, At
    <3> QED BY <1>1, <2>1, <2>3, <2>4, <2>6, <3>1 DEF SlotInv, ClaimsKnown
  <2>12. WorkIsItsOwn'
    <3>1. \A j \in Items \ {i} : \A k : Chose(j, k)' <=> Chose(j, k)
      BY <1>1 DEF Chose
    <3>2. \A k : ~Chose(i, k)'
      BY <1>3 DEF Chose
    <3>3. Chose(i, n)
      BY <1>0 DEF Chose, At, n
    <3> QED BY <1>1, <2>1, <2>7, <3>1, <3>2, <3>3 DEF SlotInv, WorkIsItsOwn, world
  <2>13. SlotsAreHeld'
    <3>1. \A k \in Slots, j \in Items : BelongsTo(k, j)' <=> BelongsTo(k, j)
      BY <1>1, <2>7 DEF BelongsTo, world
    <3>2. BelongsTo(n, i)
      BY <1>0 DEF SlotInv, SlotsAreHeld, n
    <3> QED BY <1>1, <2>1, <2>2, <3>1, <3>2 DEF SlotInv, SlotsAreHeld
  <2> QED BY <2>8, <2>9, <2>10, <2>11, <2>12, <2>13 DEF SlotInv
<1> QED BY <1>2, <1>3, Publishes

LEMMA EditStep ==
    ASSUME TypeOK, SlotInv, AssignmentPrepared, AgentsWorkOnReadyClaims, NEW i \in Items, NEW n \in Slots,
           Edit(i, n)
    PROVE  SlotInv'
<1>1. UNCHANGED <<item, op, branch, strayed, raced>> /\ item[i].claim = n
  BY DEF Edit, AgentsWorkOnReadyClaims
<1>2. dirt'[n] = dirt[n] \union {i} /\ \A k \in Slots \ {n} : dirt'[k] = dirt[k]
  BY DEF Edit, TypeOK
<1>3. \A j, k : HaveRaced(j, k)' <=> HaveRaced(j, k)
  BY <1>1 DEF HaveRaced, Raced
<1>4. \A j \in Items : item[j].claim = n \/ Chose(j, n) => i = j \/ HaveRaced(i, j)
  <2>1. n # None
    BY DEF Slots, None
  <2>2. \A j \in Items \ {i} : Chose(j, n) => HaveRaced(i, j)
    BY <1>1, RivalsHaveRaced DEF Chose
  <2> QED BY <1>1, <2>1, <2>2, SharersHaveRaced
<1>5. WorkIsItsOwn'
  <2>1. \A j \in Items : \A k : Chose(j, k)' <=> Chose(j, k)
    BY <1>1 DEF Chose
  <2>2. \A k \in Slots : \A j \in dirt'[k] : j \in dirt[k] \/ (j = i /\ k = n)
    BY <1>2
  <2> QED BY <1>1, <1>3, <1>4, <2>1, <2>2 DEF SlotInv, WorkIsItsOwn
<1>6. WorkStaysWithItsItem'
  <2>1. BelongsTo(n, i)
    BY <1>1 DEF SlotInv, SlotsAreHeld
  <2> QED BY <1>1, <1>2, <1>3, <2>1 DEF SlotInv, WorkStaysWithItsItem, BelongsTo
<1>7. SlotsSharedOnlyByRace' /\ RacersKnown' /\ ClaimsKnown'
  BY <1>1 DEF SlotInv, SlotsSharedOnlyByRace, RacersKnown, ClaimsKnown, Raced, Assigning, Passes, At
<1>8. SlotsAreHeld'
  BY <1>1, <1>3 DEF SlotInv, SlotsAreHeld, BelongsTo, At
<1> QED BY <1>5, <1>6, <1>7, <1>8 DEF SlotInv

LEMMA HeadStep ==
    ASSUME TypeOK, SlotInv, NEW i \in Items, Detach(i) \/ Repair(i)
    PROVE  SlotInv'
<1>0. PICK n \in Slots : item[i].claim = n
  BY DEF Detach, Repair, TypeOK, Manifest, Slots, None
<1>1. UNCHANGED <<item, op, dirt, strayed, raced>> /\ item[i].claim = n /\ n # None
  BY <1>0 DEF Detach, Repair, Slots, None
<1>2. branch'[n] \in {i, Detached} /\ \A k \in Slots \ {n} : branch'[k] = branch[k]
  BY <1>1 DEF Detach, Repair, TypeOK
<1>3. \A j, k : HaveRaced(j, k)' <=> HaveRaced(j, k)
  BY <1>1 DEF HaveRaced, Raced
<1>4. \A j \in dirt[n] : j = i \/ HaveRaced(j, i)
  BY <1>1 DEF SlotInv, WorkIsItsOwn
<1>5. \A j \in Items : item[j].claim = n \/ (At(j, "claim") /\ op[j].slot = n) => j = i \/ HaveRaced(j, i)
  <2>1. \A j \in Items \ {i} : item[j].claim = n => HaveRaced(j, i)
    BY <1>1, SharersHaveRaced
  <2>2. ASSUME NEW j \in Items \ {i}, At(j, "claim"), op[j].slot = n PROVE HaveRaced(j, i)
    <3>1. Assigning(j) /\ ~Passes(j, item[i].claim)
      BY <1>1, <2>2 DEF Assigning, Passes, At
    <3> QED BY <1>1, <3>1, RacersHaveRaced DEF SlotInv, ClaimsKnown
  <2> QED BY <2>1, <2>2
<1>6. WorkStaysWithItsItem'
  BY <1>1, <1>2, <1>3, <1>4 DEF SlotInv, WorkStaysWithItsItem
<1>7. SlotsAreHeld'
  <2>1. \A k \in Slots \ {n} : \A j \in Items : BelongsTo(k, j) => BelongsTo(k, j)'
    BY <1>2, <1>3 DEF BelongsTo
  <2>2. BelongsTo(n, i)' /\ \A j \in Items : HaveRaced(j, i) => BelongsTo(n, j)'
    BY <1>2, <1>3 DEF BelongsTo
  <2> QED BY <1>1, <1>5, <2>1, <2>2 DEF SlotInv, SlotsAreHeld, At
<1>8. WorkIsItsOwn'
  BY <1>1, <1>3 DEF SlotInv, WorkIsItsOwn, Chose
<1>9. SlotsSharedOnlyByRace' /\ RacersKnown' /\ ClaimsKnown'
  BY <1>1 DEF SlotInv, SlotsSharedOnlyByRace, RacersKnown, ClaimsKnown, Raced, Assigning, Passes, At
<1> QED BY <1>6, <1>7, <1>8, <1>9 DEF SlotInv

LEMMA SlotStep ==
    ASSUME WorkspaceInv, SlotInv, [Next]_vars
    PROVE  SlotInv'
<1>0. TypeOK /\ Room /\ AssignmentPrepared /\ GivesUpTheClaim /\ AgentsWorkOnReadyClaims
  BY DEF WorkspaceInv
<1>1. CASE Calm /\ UNCHANGED world
  <2>1. /\ UNCHANGED <<branch, raced>> /\ \A n \in Slots : dirt'[n] \subseteq dirt[n]
        /\ \A q \in strayed' : HaveRaced(q[1], q[2])
    BY <1>1 DEF world, SlotInv, WorkStaysWithItsItem
  <2> QED BY <1>0, <1>1, <2>1, CalmSlots
<1>2. ASSUME NEW i \in Items, NEW kind \in {"ensure", "start"}, StartOrEnsure(i, kind) PROVE SlotInv'
  <2>1. UNCHANGED <<item, world>> /\ op'[i].pc = "ensure" /\ \A j \in Items \ {i} : op'[j] = op[j]
    BY <1>0, <1>2 DEF StartOrEnsure, Begin, NoOp, TypeOK
  <2>2. Calm
    BY <2>1 DEF Calm, Assigning
  <2> QED BY <1>1, <2>1, <2>2
<1>3. ASSUME NEW i \in Items, EnsureCheckout(i) PROVE SlotInv'
  BY <1>0, <1>3, ListStep
<1>4. ASSUME NEW i \in Items, InspectSlot(i) PROVE SlotInv'
  <2>1. At(i, "assign") /\ Assigning(i) /\ ~At(i, "claim")
    BY <1>4 DEF InspectSlot, At, Assigning
  <2> QED BY <1>0, <1>4, <2>1, Inspects, TryStep
<1>5. ASSUME NEW i \in Items, NEW carries \in BOOLEAN, SwitchSlot(i, carries) PROVE SlotInv'
  <2>1. At(i, "switch") /\ Assigning(i) /\ ~At(i, "claim") /\ Chose(i, op[i].slot) /\ op[i].slot \in Slots
    BY <1>0, <1>5 DEF SwitchSlot, At, Assigning, Chose, AssignmentPrepared
  <2>2. UNCHANGED <<item, dirt, strayed, raced>> /\ \A j \in Items \ {i} : op'[j] = op[j]
    BY <1>0, <1>5, Switches
  <2>3. CASE op'[i].pc = "assign" /\ op[i].taken \subseteq op'[i].taken /\ UNCHANGED branch
    BY <1>0, <2>1, <2>2, <2>3, TryStep DEF world
  <2>4. CASE /\ op'[i].pc = "claim" /\ op'[i].slot = op[i].slot
             /\ branch' = [branch EXCEPT ![op[i].slot] = i]
    <3>1. \A j \in Items \ {i} : item[j].claim = op[i].slot \/ (At(j, "claim") /\ op[j].slot = op[i].slot)
              => HaveRaced(j, i)
      BY <1>0, <2>1, RivalsHaveRaced
    <3>2. \A j \in Items \ {i} : item[j].claim = op[i].slot => Raced(i, item[i].gen + 1, j, item[j].gen)
      <4>1. ~Passes(i, op[i].slot) /\ op[i].slot # None
        BY <1>0, <2>1 DEF Passes, AssignmentPrepared, Slots, None
      <4> QED BY <2>1, <4>1 DEF SlotInv, ClaimsKnown
    <3>3. \A j \in dirt[op[i].slot] : j = i \/ HaveRaced(j, i)
      BY <2>1 DEF SlotInv, WorkIsItsOwn
    <3> QED BY <1>0, <2>1, <2>2, <2>4, <3>1, <3>2, <3>3, BranchStep
  <2> QED BY <1>0, <1>5, <2>3, <2>4, Switches
<1>6. ASSUME NEW i \in Items, CreateSlot(i) PROVE SlotInv'
  <2>1. Assigning(i) /\ ~At(i, "claim")
    BY <1>6 DEF CreateSlot, At, Assigning
  <2>2. UNCHANGED <<item, dirt, strayed, raced>> /\ \A j \in Items \ {i} : op'[j] = op[j]
    BY <1>0, <1>6, Creates
  <2>3. CASE op'[i].pc = "idle" /\ UNCHANGED branch
    BY <1>0, <2>1, <2>2, <2>3, TryStep DEF world
  <2>4. ASSUME NEW n \in Slots, op'[i].pc = "claim", op'[i].slot = n, branch[n] = Absent,
               branch' = [branch EXCEPT ![n] = i]
        PROVE  SlotInv'
    BY <1>0, <2>1, <2>2, <2>4, AbsentIsFree, BranchStep
  <2> QED BY <1>0, <1>6, <2>3, <2>4, Creates
<1>7. ASSUME NEW i \in Items, NEW prepared \in BOOLEAN, PublishClaim(i, prepared) PROVE SlotInv'
  BY <1>0, <1>7, PublishStep
<1>8. ASSUME NEW i \in Items, CommitWorkspace(i) \/ CommitAndClose(i), Calm PROVE SlotInv'
  <2>1. /\ UNCHANGED <<branch, raced>>
        /\ UNCHANGED <<strayed, dirt>> \/ (CommitTo(i) /\ item[i].claim # None)
    BY <1>8 DEF CommitWorkspace, CommitAndClose
  <2> QED BY <1>0, <1>1, <1>8, <2>1, CommitSlots DEF world
<1>9. ASSUME NEW i \in Items, (\E n \in Slots : Edit(i, n)) \/ Detach(i) \/ Repair(i) PROVE SlotInv'
  BY <1>0, <1>9, EditStep, HeadStep
<1>10. CASE Crash \/ UNCHANGED vars
  <2>1. Calm
    BY <1>10 DEF Crash, vars, Calm, NoOp, Assigning
  <2> QED BY <1>1, <1>10, <2>1 DEF Crash, vars, world
<1>11. ASSUME NEW i \in Items, Step(i) PROVE SlotInv'
  <2>1. Quiet => Calm
    BY DEF Quiet
  <2> QED BY <1>0, <1>1, <1>2, <1>3, <1>4, <1>5, <1>6, <1>7, <1>8, <1>9, <1>11, <2>1,
             QuietOrClaiming, WhoChangesSlots DEF Claiming
<1> QED BY <1>10, <1>11 DEF Next, Step

----------------------------------------------------------------------------
(* Theorems *)

\* Types, and what lets operations, agents and the sweep share an item: the
\* inductive invariant of the lifecycle operations.
THEOREM WorkspaceInvariant == Spec => []WorkspaceInv
<1>1. Init => WorkspaceInv
  <2>1. ASSUME Init PROVE TypeOK
    <3>1. [gen |-> 0, status |-> "none"] \in Setups
      BY BoundsAssumption DEF Setups
    <3> QED BY <2>1, <3>1, ConstantsTyped DEF Init, TypeOK
  <2>2. ASSUME Init
        PROVE  /\ Room /\ AssignmentPrepared /\ GivesUpTheClaim
               /\ OperationsMindAgents /\ AgentsWorkOnReadyClaims
    BY <2>2 DEF Init, Room, AssignmentPrepared, GivesUpTheClaim, OperationsMindAgents,
       AgentsWorkOnReadyClaims, NoOp, NoAgent, At, Assigning
  <2>3. ASSUME Init PROVE ClearedStaysCleared
    BY <2>3 DEF Init, ClearedStaysCleared
  <2> QED BY <2>1, <2>2, <2>3 DEF WorkspaceInv
<1>2. WorkspaceInv /\ [Next]_vars => WorkspaceInv'
  BY TypeStep, RoomStep, AgentStep, ClearedStep DEF WorkspaceInv
<1> QED BY <1>1, <1>2, PTL DEF Spec

\* No release, shelve, close, crash or repeated setup overtakes an agent: it
\* works in the checkout its item claims, under the claim it was started for,
\* whose setup ended well or was skipped (startAgent, closeWorkspace, Release).
THEOREM AgentsAreReady == Spec => []AgentsWorkOnReadyClaims
<1>1. WorkspaceInv => AgentsWorkOnReadyClaims
  BY DEF WorkspaceInv
<1> QED BY <1>1, WorkspaceInvariant, PTL

\* No manifest that was loaded earlier brings a cleared blocker back
\* (applyCanonicalStoreMutation, SaveManifest).
THEOREM BlockersStayCleared == Spec => []ClearedStaysCleared
<1>1. WorkspaceInv => ClearedStaysCleared
  BY DEF WorkspaceInv
<1> QED BY <1>1, WorkspaceInvariant, PTL

\* The inductive invariant of slot assignment (slots.go, CheckoutCreate), with
\* any number of assignments under way.
THEOREM SlotInvariant == Spec => []SlotInv
<1>1. Init => SlotInv
  BY DEF Init, NoOp, SlotInv, SlotsSharedOnlyByRace, WorkStaysWithItsItem, RacersKnown, ClaimsKnown,
         WorkIsItsOwn, SlotsAreHeld, Chose, Assigning, At, Slots, None
<1>2. WorkspaceInv /\ SlotInv /\ [Next]_vars => SlotInv'
  BY SlotStep
<1> QED BY <1>1, <1>2, WorkspaceInvariant, PTL DEF Spec

\* Two items claim one slot only if these very claims were assigned at once,
\* although a claim is chosen long before it is published (CheckoutCreate,
\* assignSlot, AssignNewClaim).
THEOREM OnlyRacesShareSlots == Spec => []SlotsSharedOnlyByRace
<1>1. SlotInv => SlotsSharedOnlyByRace
  BY DEF SlotInv
<1> QED BY <1>1, SlotInvariant, PTL

\* Uncommitted work stays on its item's branch, through releases that edits
\* overtake, reused slots, detached and repaired checkouts, and what Wi commits
\* goes to the item it belongs to (CommitWorkItemWorkspace, slots.go), but for
\* the work of items that were assigned a slot at once.
THEOREM WorkIsKept == Spec => []WorkStaysWithItsItem
<1>1. SlotInv => WorkStaysWithItsItem
  BY DEF SlotInv
<1> QED BY <1>1, SlotInvariant, PTL
=============================================================================
