---------------------------- MODULE Workspaces ----------------------------
(***************************************************************************)
(* Items, the worktree slots they claim, the setup of a claim and the      *)
(* agent that works in it: the lifecycle operations of daemonapi           *)
(* (lifecycle.go, lifecycle_jobs.go, workspaces.go, agents.go), the use    *)
(* cases they call (app/usecase_shelve_archive.go, app/workspace_setup.go) *)
(* and the slot assignment of app/core/workspace.                          *)
(*                                                                         *)
(* The API runs one operation per item at a time (Server.lock).  Between   *)
(* the steps of an operation other items' operations, the blocker sweep,   *)
(* agents, people editing a checkout and a crash of the daemon take        *)
(* theirs.  An item's branch is the item itself: it is recorded at         *)
(* creation and immutable.  How an agent process registers itself is left  *)
(* out: a start ends with the agent on or off.                             *)
(***************************************************************************)
EXTENDS Naturals, FiniteSets, FiniteSetsExt

CONSTANTS
    Items,
    MaxSlots,     \* bound: slot directories
    MaxGen,       \* bound: claims an item takes
    MaxBlockers,  \* bound: blockers an item is given
    Absent,       \* the "branch" of a slot directory not created yet
    Detached      \* and of one whose HEAD a person detached

ASSUME BoundsAssumption ==
    /\ MaxSlots \in Nat \ {0} /\ MaxGen \in Nat \ {0}
    /\ MaxBlockers \in Nat
ASSUME BranchAssumption == Absent # Detached /\ Absent \notin Items /\ Detached \notin Items

VARIABLES
    item,     \* item[i]: the canonical manifest's state, claim, generation, blocker
    setup,    \* setup[i]: the setup record, of which claim generation and how it ended
    agent,    \* agent[i]: whether its process lives, in which slot, for which claim
    branch,   \* branch[n]: what slot n has checked out
    dirt,     \* dirt[n]: the items whose uncommitted work slot n holds
    strayed,  \* history: <<i, j>>, work of i was committed to the branch of j
    raced,    \* history: <<i, g, j, h>>, generations g and h were assigned at once
    op,       \* op[i]: the operation that holds i's lock, and its copy of the manifest
    cleared   \* history: the blockers of i that were cleared

vars == <<item, setup, agent, branch, dirt, strayed, raced, op, cleared>>
world == <<branch, dirt, strayed, raced>>

----------------------------------------------------------------------------
Slots == 1 .. MaxSlots
None == 0      \* no claim, no blocker

Manifest == [state : {"backlog", "active", "closed"}, claim : 0 .. MaxSlots,
             gen : 0 .. MaxGen, blocker : 0 .. MaxBlockers]

Steps == {"idle", "ensure", "assign", "switch", "claim", "setup", "hooks", "launch",
          "release", "stop", "wait", "commit", "archive", "save", "close"}
Kinds == {"ensure", "start", "rerun", "release", "shelve", "close"}

NoOp == [pc |-> "idle", kind |-> "ensure", force |-> FALSE, commit |-> FALSE, slot |-> None,
         taken |-> {}, max |-> 0,
         m |-> [state |-> "backlog", claim |-> None, gen |-> 0, blocker |-> None]]

NoAgent == [on |-> FALSE, slot |-> None, gen |-> 0]

Init ==
    /\ item = [i \in Items |-> NoOp.m]
    /\ setup = [i \in Items |-> [gen |-> 0, status |-> "none"]]
    /\ agent = [i \in Items |-> NoAgent]
    /\ branch = [n \in Slots |-> Absent]
    /\ dirt = [n \in Slots |-> {}]
    /\ strayed = {}
    /\ raced = {}
    /\ op = [i \in Items |-> NoOp]
    /\ cleared = [i \in Items |-> {}]

Idle(i) == op[i].pc = "idle"
At(i, pc) == op[i].pc = pc
Goto(i, pc) == op' = [op EXCEPT ![i].pc = pc]
Done(i) == op' = [op EXCEPT ![i] = NoOp]

\* An operation takes the item's lock; some keep the manifest they load.
Begin(i, kind, pc) == op' = [op EXCEPT ![i] = [NoOp EXCEPT !.pc = pc, !.kind = kind]]
BeginWith(i, kind, pc) == op' = [op EXCEPT ![i] = [NoOp EXCEPT !.pc = pc, !.kind = kind, !.m = item[i]]]

\* Mutant: the store takes the whole manifest as it comes.
AcceptsAny(i, m) == TRUE

\* applyCanonicalStoreMutation refuses a manifest whose blockers are not the
\* stored ones; the store client retries only revision conflicts, with the
\* same manifest.
Accepts(i, m) == item[i].blocker = m.blocker

----------------------------------------------------------------------------
(* Lifecycle records: one typed command each. *)

\* SetItemState: what an item must not hold outside "active".
Holds(i) == item[i].claim # None \/ agent[i].on

SetItemState(i, s) ==
    /\ Idle(i)
    /\ s # item[i].state
    /\ ~(item[i].state = "closed" /\ s = "active")
    /\ s # "active" => ~Holds(i)
    /\ item' = [item EXCEPT ![i].state = s,
                            ![i].blocker = IF s = "closed" THEN None ELSE @]
    /\ cleared' = [cleared EXCEPT ![i] =
                      IF s = "closed" THEN @ \union ({item[i].blocker} \ {None}) ELSE @]
    /\ UNCHANGED <<setup, agent, world, op>>

\* A blocker with an ID of its own is added to an open item.
AddBlocker(i, b) ==
    /\ Idle(i)
    /\ item[i].state # "closed"
    /\ item[i].blocker = None
    /\ b \notin cleared[i]
    /\ item' = [item EXCEPT ![i].blocker = b]
    /\ UNCHANGED <<setup, agent, world, op, cleared>>

\* The sweep clears a blocker whose condition holds; it takes no item lock.
Sweep(i) ==
    /\ item[i].blocker # None
    /\ cleared' = [cleared EXCEPT ![i] = @ \union {item[i].blocker}]
    /\ item' = [item EXCEPT ![i].blocker = None]
    /\ UNCHANGED <<setup, agent, world, op>>

----------------------------------------------------------------------------
(* Claiming a slot: CheckoutCreate, assignSlot, finishSlotAssignment. *)

\* startItem's job and EnsureWorkspace, once the item is active.
StartOrEnsure(i, kind) ==
    /\ Idle(i)
    /\ item[i].state = "active"
    /\ item[i].claim = None => item[i].gen < MaxGen
    /\ Begin(i, kind, "ensure")
    /\ UNCHANGED <<item, setup, agent, world, cleared>>

\* From the listing of the claims to the saving of its own: no lock keeps the
\* assignments of two items apart.
Assigning(j) == op[j].pc \in {"assign", "switch", "claim"}

\* A claimed checkout is kept, whatever its branch (a mismatch only warns).
\* Without one, the claims that are not to be touched and the slots are listed.
List(i, claims) ==
    /\ At(i, "ensure")
    /\ IF item[i].claim # None
          THEN Goto(i, "setup") /\ UNCHANGED raced
          ELSE /\ op' = [op EXCEPT ![i].pc = "assign", ![i].m = item[i], ![i].taken = claims,
                                   ![i].max = Cardinality({n \in Slots : branch[n] # Absent})]
               /\ raced' = raced \union {<<i, item[i].gen + 1, j, item[j].gen + 1>> :
                                             j \in {k \in Items \ {i} : Assigning(k)}}
    /\ UNCHANGED <<item, setup, agent, branch, dirt, strayed, cleared>>

\* Mutant: other items' claims are not asked about.
EnsureUnasked(i) == List(i, {})

EnsureCheckout(i) == List(i, {item[j].claim : j \in Items \ {i}} \ {None})

\* The listed slots that are still to be tried, in order.
Untried(i) == (1 .. op[i].max) \ op[i].taken

Try(i, n) == op' = [op EXCEPT ![i].pc = "switch", ![i].slot = n]
Skip(i, n) == op' = [op EXCEPT ![i].pc = "assign", ![i].slot = None, ![i].taken = @ \union {n}]

\* Mutant: a dirty slot is not skipped.
InspectUnchecked(i) ==
    /\ At(i, "assign")
    /\ Untried(i) # {}
    /\ Try(i, Min(Untried(i)))
    /\ UNCHANGED <<item, setup, agent, world, cleared>>

\* git status: a slot with uncommitted work is skipped.
InspectSlot(i) ==
    /\ At(i, "assign")
    /\ Untried(i) # {}
    /\ LET n == Min(Untried(i)) IN IF dirt[n] = {} THEN Try(i, n) ELSE Skip(i, n)
    /\ UNCHANGED <<item, setup, agent, world, cleared>>

\* Git refuses a branch that another worktree has checked out.
GitAllows(i, n) == \A k \in Slots \ {n} : branch[k] # i

Switched(i, n) ==
    /\ branch' = [branch EXCEPT ![n] = i]
    /\ op' = [op EXCEPT ![i].pc = "claim", ![i].slot = n, ![i].taken = {}, ![i].max = 0]

\* git switch: files edited since the inspection are carried along or make it
\* fail; then the next slot is tried.
SwitchSlot(i, carries) ==
    /\ At(i, "switch")
    /\ LET n == op[i].slot IN
       IF GitAllows(i, n) /\ (dirt[n] # {} => carries)
          THEN Switched(i, n)
          ELSE Skip(i, n) /\ UNCHANGED branch
    /\ UNCHANGED <<item, setup, agent, dirt, strayed, raced, cleared>>

\* Without a usable slot one is created after the last that was listed.
CreateSlot(i) ==
    /\ At(i, "assign")
    /\ Untried(i) = {}
    /\ LET n == op[i].max + 1 IN
       IF n \in Slots /\ GitAllows(i, n) /\ branch[n] = Absent
          THEN Switched(i, n)
          ELSE Done(i) /\ UNCHANGED branch
    /\ UNCHANGED <<item, setup, agent, dirt, strayed, raced, cleared>>

\* AssignNewClaim: a new generation, also for a slot the item had before.
Claimed(i) == [op[i].m EXCEPT !.claim = op[i].slot, !.gen = @ + 1]

\* The preparation hook may fail or be cancelled; then nothing is claimed.
\* Otherwise the claim, of a new generation, is saved with the manifest.
PublishClaim(i, prepared) ==
    /\ At(i, "claim")
    /\ IF prepared /\ Accepts(i, Claimed(i))
          THEN item' = [item EXCEPT ![i] = Claimed(i)] /\ Begin(i, op[i].kind, "setup")
          ELSE Done(i) /\ UNCHANGED item
    /\ UNCHANGED <<setup, agent, world, cleared>>

----------------------------------------------------------------------------
(* Setting a claim up, and the agent: SetupWorkspace, startAgent. *)

\* SetupRun.Ready for the current claim.
Ready(i) == setup[i].gen = item[i].gen /\ setup[i].status \in {"succeeded", "skipped"}

\* setupBlocksAgent: a setup of the current claim that runs or failed.
SetupBlocks(i) == setup[i].gen = item[i].gen /\ setup[i].status \in {"running", "failed"}

AfterSetup(i) == IF op[i].kind = "start" THEN Goto(i, "launch") ELSE Done(i)

\* SetupWorkspace (rerun): an active, claimed item without an agent.
SetupAgain(i) ==
    /\ Idle(i)
    /\ item[i].state = "active" /\ item[i].claim # None /\ ~agent[i].on
    /\ Begin(i, "rerun", "setup")
    /\ UNCHANGED <<item, setup, agent, world, cleared>>

\* StartAgent: an active, claimed item whose setup does not block.
StartAgent(i) ==
    /\ Idle(i)
    /\ item[i].state = "active" /\ item[i].claim # None /\ ~SetupBlocks(i)
    /\ Begin(i, "start", "setup")
    /\ UNCHANGED <<item, setup, agent, world, cleared>>

\* setupClaimNow: not under an agent, and once per claim unless it is a
\* rerun; --skip-setup records that it was skipped.
SetUp(i, skip) ==
    /\ At(i, "setup")
    /\ IF agent[i].on \/ (Ready(i) /\ op[i].kind # "rerun")
          THEN AfterSetup(i) /\ UNCHANGED setup
          ELSE IF skip /\ op[i].kind # "rerun"
                  THEN /\ setup' = [setup EXCEPT ![i] = [gen |-> item[i].gen, status |-> "skipped"]]
                       /\ AfterSetup(i)
                  ELSE /\ setup' = [setup EXCEPT ![i] = [gen |-> item[i].gen, status |-> "running"]]
                       /\ Goto(i, "hooks")
    /\ UNCHANGED <<item, agent, world, cleared>>

\* EnsureWorkspace leaves the setup to a job, which takes the lock again: it
\* comes back as an EnsureWorkspace of an item that has its claim.
SetupLater(i) ==
    /\ At(i, "setup") /\ op[i].kind = "ensure"
    /\ Done(i)
    /\ UNCHANGED <<item, setup, agent, world, cleared>>

\* runSetupHooks: the outcome is recorded; a failure ends the operation with
\* the checkout still claimed.
RunHooks(i, ok) ==
    /\ At(i, "hooks")
    /\ setup' = [setup EXCEPT ![i].status = IF ok THEN "succeeded" ELSE "failed"]
    /\ IF ok THEN AfterSetup(i) ELSE Done(i)
    /\ UNCHANGED <<item, agent, world, cleared>>

\* startAgent, ensureAgentRuntime: only for a claim that is set up, and not
\* beside a live agent.
MayLaunch(i) == item[i].state = "active" /\ item[i].claim # None /\ ~SetupBlocks(i) /\ ~agent[i].on

Launch(i, ok) ==
    /\ At(i, "launch")
    /\ agent' = IF ok /\ MayLaunch(i)
                   THEN [agent EXCEPT ![i] = [on |-> TRUE, slot |-> item[i].claim, gen |-> item[i].gen]]
                   ELSE agent
    /\ Done(i)
    /\ UNCHANGED <<item, setup, world, cleared>>

\* The agent process ends: of itself, or because it was asked to.
AgentExit(i) ==
    /\ agent[i].on
    /\ agent' = [agent EXCEPT ![i] = NoAgent]
    /\ UNCHANGED <<item, setup, world, op, cleared>>

----------------------------------------------------------------------------
(* Giving the slot back: Release, Shelve, Close. *)

\* EnsureReleasable: on the item's branch and clean.
Releasable(i) == item[i].claim # None => branch[item[i].claim] = i /\ dirt[item[i].claim] = {}

\* Mutant: a release does not ask whether the agent stopped.
MayReleaseRunning(i) == Releasable(i)

\* ReleaseWorkspace: requireStopped, then Service.Release.
MayRelease(i) == ~agent[i].on /\ Releasable(i)

\* The release is decided on the manifest loaded here ...
ReleaseWorkspace(i) ==
    /\ Idle(i)
    /\ item[i].claim # None
    /\ MayRelease(i)
    /\ BeginWith(i, "release", "release")
    /\ UNCHANGED <<item, setup, agent, world, cleared>>

\* ... and saved with it.
SaveRelease(i) ==
    /\ At(i, "release")
    /\ LET m == [op[i].m EXCEPT !.claim = None] IN
       item' = IF Accepts(i, m) THEN [item EXCEPT ![i] = m] ELSE item
    /\ Done(i)
    /\ UNCHANGED <<setup, agent, world, cleared>>

\* Shelve and Close check the checkout before they stop the agent
\* (prepareArchive); a close that commits stops it first.
Shelve(i) ==
    /\ Idle(i)
    /\ item[i].state = "active"
    /\ Releasable(i)
    /\ BeginWith(i, "shelve", "stop")
    /\ UNCHANGED <<item, setup, agent, world, cleared>>

Close(i, force, commit) ==
    /\ Idle(i)
    /\ item[i].state # "closed"
    /\ ~commit => Releasable(i)
    /\ op' = [op EXCEPT ![i] = [NoOp EXCEPT !.pc = "stop", !.kind = "close", !.force = force,
                                            !.commit = commit, !.m = item[i]]]
    /\ UNCHANGED <<item, setup, agent, world, cleared>>

AfterStop(i) == Goto(i, IF op[i].commit THEN "commit" ELSE "archive")

\* stopRuntimeForArchive: a busy agent refuses unless forced; one that takes
\* the request is waited for.
StopAgent(i, refused) ==
    /\ At(i, "stop")
    /\ IF ~agent[i].on THEN AfterStop(i)
       ELSE IF refused THEN Done(i) ELSE Goto(i, "wait")
    /\ UNCHANGED <<item, setup, agent, world, cleared>>

\* Mutant: the wait has no deadline.
WaitForever(i) ==
    /\ At(i, "wait")
    /\ ~agent[i].on /\ AfterStop(i)
    /\ UNCHANGED <<item, setup, agent, world, cleared>>

\* The wait ends when the process is gone or after ArchiveRuntimeStopTimeout,
\* which leaves the item as it was.
AwaitStop(i) ==
    /\ At(i, "wait")
    /\ IF agent[i].on THEN Done(i) ELSE AfterStop(i)
    /\ UNCHANGED <<item, setup, agent, world, cleared>>

\* CommitWorkItemWorkspace: on the item's branch, without an agent.  Copies
\* of attachments, which it removes first, are not modelled.
CommitTo(i) ==
    /\ strayed' = strayed \union {<<k, i>> : k \in dirt[item[i].claim] \ {i}}
    /\ dirt' = [dirt EXCEPT ![item[i].claim] = {}]

CommitWorkspace(i) ==
    /\ Idle(i)
    /\ item[i].claim # None /\ ~agent[i].on /\ branch[item[i].claim] = i
    /\ CommitTo(i)
    /\ UNCHANGED <<item, setup, agent, branch, raced, op, cleared>>

\* closeItem with commit_changes: then Close goes on without it.
CommitAndClose(i) ==
    /\ At(i, "commit")
    /\ IF item[i].claim = None
          THEN op' = [op EXCEPT ![i].pc = "archive", ![i].m = item[i]] /\ UNCHANGED <<strayed, dirt>>
       ELSE IF branch[item[i].claim] = i /\ ~agent[i].on
               THEN CommitTo(i) /\ op' = [op EXCEPT ![i].pc = "archive", ![i].m = item[i]]
               ELSE Done(i) /\ UNCHANGED <<strayed, dirt>>
    /\ UNCHANGED <<item, setup, agent, branch, raced, cleared>>

\* closeWorkspace: everything is checked again before the claim is given up.
MayArchive(i) == ~agent[i].on /\ Releasable(i)

\* A terminal that cannot be closed keeps the checkout: a forced close goes
\* on without releasing it, the others end.
Archive(i, terminalClosed) ==
    /\ At(i, "archive")
    /\ IF ~MayArchive(i) \/ (~terminalClosed /\ ~op[i].force) THEN Done(i)
       ELSE IF terminalClosed
               THEN op' = [op EXCEPT ![i].pc = "save", ![i].m.claim = None]
               ELSE Goto(i, "close")
    /\ UNCHANGED <<item, setup, agent, world, cleared>>

\* Shelve saves the release and the new state at once; Close saves the
\* release before its own command.
SaveArchive(i) ==
    /\ At(i, "save")
    /\ LET m == IF op[i].kind = "shelve" THEN [op[i].m EXCEPT !.state = "backlog"] ELSE op[i].m IN
       IF Accepts(i, m)
          THEN /\ item' = [item EXCEPT ![i] = m]
               /\ IF op[i].kind = "shelve" THEN Done(i) ELSE Goto(i, "close")
          ELSE Done(i) /\ UNCHANGED item
    /\ UNCHANGED <<setup, agent, world, cleared>>

\* SaveManifest of a closed manifest: refused if anything but the blockers
\* changed; the typed command clears the blockers.
SaveClose(i) ==
    /\ At(i, "close")
    /\ IF [item[i] EXCEPT !.blocker = op[i].m.blocker] = op[i].m
          THEN /\ item' = [item EXCEPT ![i].state = "closed", ![i].blocker = None]
               /\ cleared' = [cleared EXCEPT ![i] = @ \union ({item[i].blocker} \ {None})]
          ELSE UNCHANGED <<item, cleared>>
    /\ Done(i)
    /\ UNCHANGED <<setup, agent, world>>

----------------------------------------------------------------------------
(* What Wi does not decide: edits, branches switched by hand, crashes. *)

\* A person edits files of the item's checkout; an agent those of the slot
\* it was started in.
Edit(i, n) ==
    /\ n = item[i].claim \/ (agent[i].on /\ n = agent[i].slot)
    /\ i \notin dirt[n]
    /\ dirt' = [dirt EXCEPT ![n] = @ \union {i}]
    /\ UNCHANGED <<item, setup, agent, branch, strayed, raced, op, cleared>>

\* A person detaches the checkout's HEAD, or repairs it.
Detach(i) ==
    /\ item[i].claim # None
    /\ branch[item[i].claim] = i
    /\ branch' = [branch EXCEPT ![item[i].claim] = Detached]
    /\ UNCHANGED <<item, setup, agent, dirt, strayed, raced, op, cleared>>

Repair(i) ==
    /\ item[i].claim # None
    /\ branch[item[i].claim] = Detached
    /\ GitAllows(i, item[i].claim)
    /\ branch' = [branch EXCEPT ![item[i].claim] = i]
    /\ UNCHANGED <<item, setup, agent, dirt, strayed, raced, op, cleared>>

\* The daemon dies: operations are gone, agents and files stay.
Crash ==
    /\ op' = [i \in Items |-> NoOp]
    /\ UNCHANGED <<item, setup, agent, world, cleared>>

----------------------------------------------------------------------------
\* The steps of an operation that holds the item's lock.
Continue(i) ==
    \/ EnsureCheckout(i)
    \/ InspectSlot(i)
    \/ \E carries \in BOOLEAN : SwitchSlot(i, carries)
    \/ CreateSlot(i)
    \/ \E prepared \in BOOLEAN : PublishClaim(i, prepared)
    \/ \E skip \in BOOLEAN : SetUp(i, skip)
    \/ SetupLater(i)
    \/ \E ok \in BOOLEAN : RunHooks(i, ok)
    \/ \E ok \in BOOLEAN : Launch(i, ok)
    \/ SaveRelease(i)
    \/ \E refused \in BOOLEAN : StopAgent(i, refused)
    \/ AwaitStop(i)
    \/ CommitAndClose(i)
    \/ \E closed \in BOOLEAN : Archive(i, closed)
    \/ SaveArchive(i)
    \/ SaveClose(i)

Request(i) ==
    \/ \E s \in {"backlog", "active", "closed"} : SetItemState(i, s)
    \/ \E b \in 1 .. MaxBlockers : AddBlocker(i, b)
    \/ \E kind \in {"ensure", "start"} : StartOrEnsure(i, kind)
    \/ SetupAgain(i)
    \/ StartAgent(i)
    \/ ReleaseWorkspace(i)
    \/ Shelve(i)
    \/ \E force, commit \in BOOLEAN : Close(i, force, commit)
    \/ CommitWorkspace(i)

Environment(i) ==
    \/ Sweep(i)
    \/ AgentExit(i)
    \/ \E n \in Slots : Edit(i, n)
    \/ Detach(i)
    \/ Repair(i)

Next == Crash \/ \E i \in Items : Continue(i) \/ Request(i) \/ Environment(i)

\* Every step of an operation is a bounded call or a wait with a deadline.
Fairness == \A i \in Items : WF_vars(Continue(i))

Spec == Init /\ [][Next]_vars /\ Fairness

----------------------------------------------------------------------------
(* Properties. *)

Setups == [gen : 0 .. MaxGen, status : {"none", "running", "succeeded", "failed", "skipped"}]
Agents == [on : BOOLEAN, slot : 0 .. MaxSlots, gen : 0 .. MaxGen]
Operations == [pc : Steps, kind : Kinds, force : BOOLEAN, commit : BOOLEAN,
               slot : 0 .. MaxSlots, taken : SUBSET Slots, max : 0 .. MaxSlots, m : Manifest]

TypeOK ==
    /\ item \in [Items -> Manifest]
    /\ setup \in [Items -> Setups]
    /\ agent \in [Items -> Agents]
    /\ branch \in [Slots -> Items \union {Absent, Detached}]
    /\ dirt \in [Slots -> SUBSET Items]
    /\ strayed \subseteq Items \X Items
    /\ raced \subseteq Items \X (1 .. MaxGen) \X Items \X (1 .. MaxGen)
    /\ op \in [Items -> Operations]
    /\ cleared \in [Items -> SUBSET (1 .. MaxBlockers)]

\* Each work item is isolated in its own worktree (skills/wi/SKILL.md).  The
\* code does not keep it: assignSlot (slots.go) reads the other items' claims
\* before it switches the branch and saves its own, under its item's lock only.
SlotsExclusive ==
    \A i, j \in Items : i # j /\ item[i].claim # None => item[i].claim # item[j].claim

Raced(i, g, j, h) == <<i, g, j, h>> \in raced \/ <<j, h, i, g>> \in raced

HaveRaced(i, j) == \E g, h \in 1 .. MaxGen : Raced(i, g, j, h)

\* What the code does keep: two items claim one slot only if these very claims
\* were assigned at once.  No release, shelve, close, reuse, crash or failed
\* assignment makes a claim unseen by an assignment that lists after it.
SlotsSharedOnlyByRace ==
    \A i, j \in Items : i # j /\ item[i].claim # None /\ item[i].claim = item[j].claim
        => Raced(i, item[i].gen, j, item[j].gen)

\* Uncommitted work stays on the branch it was written for, in a checkout
\* that is claimed, being released or already reused (slots.go, Release,
\* Shelve, Close), and what Wi commits goes to the branch of its item: unless
\* it is the work of one of two items that were assigned at once.
WorkStaysWithItsItem ==
    /\ \A n \in Slots : \A i \in dirt[n] : branch[n] \in {i, Detached} \/ HaveRaced(i, branch[n])
    /\ \A p \in strayed : HaveRaced(p[1], p[2])

\* A live agent works in the checkout its item claims now, under the claim it
\* was started for, and that claim's setup ended well or was skipped: no
\* release, shelve, close, crash during setup or repeated setup overtakes it.
AgentsWorkOnReadyClaims ==
    \A i \in Items : agent[i].on =>
        /\ item[i].state = "active" /\ item[i].claim = agent[i].slot /\ item[i].gen = agent[i].gen
        /\ setup[i].gen = agent[i].gen /\ setup[i].status \in {"succeeded", "skipped"}

\* A blocker that was cleared never comes back with a manifest that was
\* loaded before (SaveManifest retried by daemonapp/store.go).
ClearedStaysCleared == \A i \in Items : item[i].blocker \notin cleared[i]

\* Every operation ends and frees the item's lock.
OperationsEnd == \A i \in Items : ~Idle(i) ~> Idle(i)
=============================================================================
