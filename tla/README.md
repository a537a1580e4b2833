# Verification of wi

`wi` keeps work items: each has a lifecycle, a checkout, a conversation with a
coding agent, and a place in the operator's queue. A daemon owns all of it. Its
core is the *coordinator* (`internal/coordinator`): a bbolt database of
manifests, events and projections behind a Unix socket. Around it sit the
application layer (`internal/app`), which drives Git, tmux and agent processes,
and the API server (`internal/daemonapi`), which browsers, terminals and the
command line call.

This directory models the parts of the daemon that hold shared state, checks
them with TLC on small instances, and proves their safety properties for
every value of the constants with TLAPS. `PROJECT.json` lists the components, the runs, the mutants that show
each property can fail, the source lines of every definition, the hazards the
properties are for, and the theorems.

## Inventory

| Part | State | Operations | What is hard |
| --- | --- | --- | --- |
| Canonical items (`blockers.go`, `domain.go`, `create_domain.go`, `edit_item.go`, `store_command.go`) | manifests, revisions, events, attention markers | create, edit, state changes, blocker add and clear, delete, sweep, imports | cycles of waits, slugs given up and taken again, markers out of order |
| Change log (`changes.go`, `views.go`) | epoch, revision, last 1024 entries, notify channel | record, recordAll, since, WatchChanges, changes_wait | readers that fall behind, lost wake-ups, restarts |
| Native writes (`native_materialization.go`, `native_description_edit.go`) | pending writes, staged files, description files | stage, commit, materialize, startup recovery, cleanup | crashes between file operations, retries, edits by a person |
| Jobs (`jobs.go`, `api_jobs.go`) | registry, durable summaries | start, change, cancel, approve, prune, restart | failed saves, shutdown, duplicate starts |
| Control (`lease.go`, `access_control.go`, `control_admission.go`, `control.go`) | lease table, runtime, tmux pane | plan, acquire, renew, release, send | three locks, expiry, stale plans, turns that begin meanwhile |
| Approvals (`jobs.go`, `plugins/direnv`) | the question of a job, its channel, what direnv trusts | ask, answer, expire, compare, trust | late and repeated answers, failed saves, files that change meanwhile |
| Message delivery (`agents.go`, `api_messages.go`, `live_transport.go`, `rpc_transport.go`) | receipts by message ID, the driver's known commands | send, start first, submit, answer, forget, retry | lost answers, requests that outlive their caller, a runtime replaced in between |
| Use cases (`usecase_*.go`, `daemonapi/lifecycle.go`, `daemonapp/store.go`) | the item's lock; a manifest loaded earlier | start, shelve, close, commit and close, release, delete | several commands and external effects per operation, stale manifests, agents that refuse to stop |
| Workspaces (`workspace/slots.go`, `materialization.go`, `workspace_setup.go`) | claims and generations, slots and their branches, setup records | assign, publish, set up, release, commit | items that race for a slot, crashes during a setup, people editing and switching branches |
| Runtimes (`primaryagent`, `runtime_ingest.go`, `source_stream.go`, `external_observer.go`) | the saved runtime record, live activity, the observation | prepare, save by host, ingest events, inspect, recompute | late, lost and repeated events, records and process lists read earlier |
| Live content (`protocol/content.go`, `WatchLiveContent`) | snapshot, sequence, subscribers' queues | update, publish, subscribe, receive, forward | slow readers, limits, a runtime replaced under a stream |
| Repositories (`repository_sync.go`) | durable plan, reconciliation checkout, recovery refs, integration lock | fast-forward, reconcile, reset, continue, abort | a stop between any two steps, branches that move outside Wi |
| Merges (`integration_merge.go`) | none of its own | preflight, rebase, update, roll back | what was seen before the lock, the item's checkout in use |
| Conversation import (`conversation_importer.go`, `source_store.go`) | a checkpoint by file, an index by item | list, fingerprint, decode, commit, fork | imports that race, of one file or of a file and its fork, truncated and replaced files |
| Settings, profiles, notes, usage, plugins | various | various | mostly I/O |

How they interact: every mutation reaches the coordinator as a command under
its domain lock and ends in a record of the change log, which wakes the readers.
Commands with a description leave pending native writes. Long API operations
(acquiring control that starts an agent, setting up a workspace) run as jobs.
Messages pass the control lease before they reach the runtime, whose driver
serves a control socket and a socket of live content. Operations on one item take
its lock; slots, the integration branch and the blockers are shared by items. The observer
turns what runtimes and conversations show into attention markers, which the
sweep reads to clear snoozes.

## Modules

| Module | Models | Instance |
| --- | --- | --- |
| `Items` | canonical items, the blocker sweep, attention markers | `MCItems` |
| `WaitSearch` | the search that refuses a cycle of waits | `MCItems` |
| `ItemsProofs` | theorems about `Items` and `WaitSearch` | |
| `JobRegistryProofs`, `ControlLeaseProofs`, `WorkspacesProofs`, `IntegrationProofs` | theorems about the module they are named for | |
| `AgentProofs` | theorems about `Approvals` and `LiveContent` | |
| `CommandProofs` | theorems about `Delivery` and `NativeWrites` | |
| `FeedProofs` | theorems about `RuntimeEvents`, `ConversationImport` and `ChangeLog` | |
| `ChangeLog` | the change log, streams, polls, restarts | `MCFeeds` |
| `NativeWrites` | staging, transactions and file operations of descriptions | `MCCommands` |
| `JobRegistry` | background jobs and their durable summaries | `MCJobRegistry` |
| `ControlLease` | the lease, acquisition, delivery and the pane of one item | `MCControlLease` |
| `Workspaces` | lifecycle operations, slots, claims, setup and agents | `MCWorkspaces` |
| `Delivery` | messages with a client ID, from the API to the driver | `MCCommands` |
| `Handoff` | what sending a message promises; `Delivery` implements it | |
| `LiveContent` | the content server, its subscribers and the watching client | `MCAgents` |
| `Integration` | synchronization of the integration branch, and merges into it | `MCIntegration` |
| `Approvals` | the question a start asks about a `.envrc`, its answers, and the trust that follows | `MCAgents` |
| `ConversationImport` | importers of one item's conversation, their checkpoints and the index | `MCFeeds`, `MCConversationImport` |
| `RuntimeEvents` | events of runtimes, the runtime record, and what is shown of them | `MCRuntimeEvents` |

`NativeWrites`, `ConversationImport`, `ChangeLog`, `LiveContent` and `WaitSearch` prefix
`Init`, `Next` and `Spec`, so that one module can extend them beside another
component. `MCAgents`, `MCCommands` and `MCFeeds` do so with two components that share
no state: one moves while the other is where it begins (or has nothing to do), so every
behaviour of each is checked, and the two are not multiplied.

**Items.** One action per bbolt transaction: commands hold the domain lock and a
transaction is atomic, so nothing finer can be seen. Variables are fields of the
manifest and of the attention projection, by item. `Create`, `Edit`,
`Activate`, `Deactivate`, `Close`, `Reopen`, `Delete` are the commands of
`applyManifestCommand` and `applyStateSetCommand`; `AddBlockers` is one command
with a batch of blockers, all or none. `SweepBlockers` is one pass over every
open item. `blocksTransitively` is stated by what it decides (reachability by a
closed set); `WaitSearch` is the stack search as it is written, shown to decide
that. Slugs are model values: a table says which slug a title gives and which numbered slug follows. A command
carries its creation time, which may trail its commit. `excused` and `cause` are
history for the properties.

**WaitSearch.** `blocksTransitively`, one action per turn of a loop: take an item from the
stack (`Pop`), look at one of its blockers (`Look`), find the stack empty (`Exhaust`).
The graph, the question and the order of an item's blockers are arbitrary. The search
runs inside one transaction, so `Items` needs only its answer, and `MCItems` runs the two
one beside the other.

**ChangeLog.** `record` and `since` hold a mutex and are single steps. A
snapshot and the delivery of its answer are two, so records, disconnects and
restarts fall between them. The epoch is a counter. `told` is what a reader has
been told of each item, `changed` the last record that named it.

**NativeWrites.** One step per file operation or transaction: staging, commit,
the opening and the writing of a new file (`os.WriteFile` is not atomic), the
check and the rename of an edit, the removal of a stage, the removal of a
pending entry. A crash or a failed operation may come at each of them, startup
reruns `MaterializeNativeWrites` and then cleans orphaned stages, and a person
may edit a description at any time. Requests are resent at will. A careless client may
use the ID of a pending command for other input.

**JobRegistry.** The registry lock, a job's lock and the summary's transaction
each make one step. The shown state, the saved state and the goroutine are
separate variables, because saves fail, jobs are cancelled and processes end
between them.

**ControlLease.** One item. An acquisition under the controller lock is a
sequence of steps (read the lease, read the rest and plan, grant, effect,
shutdown, ensure, sync the pane); everything that does not take that lock
(renewal, release, expiry, `StartAgent`, `StopAgent`, turns, terminals) goes on
between them. Plan tokens carry what `planToken` signs: lease ID, runtime,
terminal. There is no clock: a lease with a time to live may expire at any time.

**Workspaces.** The operations of several items interleave; those of one item
exclude each other (`Server.lock`), except the sweep, people and agents. Each
call that reads or changes something another party can reach is a step: list the
claims, inspect a slot, switch it or create it, prepare it and save the claim; record a
setup, run its hooks; check, stop, wait, commit, check again, save. Nothing keeps the
assignments of two items apart, as nothing in the code does. `raced` is history: the pairs
of claims (item and generation) whose assignments overlapped. `op[i].m` is the
manifest an operation loaded, so a save is a save of what was read then:
`Accepts` is the store's comparison of its blockers, which lets the retry of a
revision conflict through only when the sweep was not what changed it. A branch
is named by its item, uncommitted work by the item it was written for. A crash
ends every operation and leaves agents, setups and files.

**Delivery and Handoff.** The steps of `SendMessage` and `send` up to the
runtime's socket, the driver's `handleControlRequest`, and the answer. A deadline
or a crash leaves the request with the runtime (`orphans`), where it is handled
at any later time and in any order. A runtime may end after it wrote the command
and before it answered. `Handoff` is the contract, with two variables: how often
each runtime was given each message, and which are confirmed. The refinement
`KeepsPromise` maps `log` to itself and `confirmed` to the receipts marked
delivered: at most once per runtime, later runtimes only later, confirmed only
when handed over, and nothing after the confirmation.

**LiveContent.** `Apply` is `ApplyContent`, which both ends use, and `ApplyAll` applies a
sequence of events one after the other; texts are sequences of words, limits are
constants. The server's updates hold its lock. A
subscriber's queue stands for the channel and the socket buffer. `WatchLiveContent`
is four positions of a watcher (away, reading the status, subscribing,
streaming), and the runtime may end or be replaced between them. The client's
state is what the forwarded events make of it.

**Integration.** A commit is a change and a number, a tip the set of commits it
reaches, so ancestry is inclusion and a rebase keeps changes under new numbers.
`resumeRepositorySync` is one step per Git command or database write that a stop
can separate: checkout, merge, prepared phase, recovery ref, update of the
branch, applied phase, removal, end of the plan. `Seen` is how a continued plan
finds that its update had happened. `MayResume` is what `resumeRepositorySync` and
`ensureRepositoryIdle` refuse: a Git operation under way in another checkout
(`elsewhere`), a reconciliation checkout that is on a branch or in another operation
(`aside`), a branch or a checkout that is not as the plan left it. The plan an item's merge saw before it took
the lock is looked at again under it. Commits, pushes, a changed configuration,
work in both kinds of checkouts and Git operations in them come from outside at any time.
`late` is history: an item's commits made while its merge could still roll them back
(`AtRisk`).

**Approvals.** One job at a time starts the agent of one checkout. The steps are
those of the direnv plugin (`runtime`: status, first snapshot, approval, second
snapshot, `direnv allow`, `direnv exec`) and, inside the approval, those of
`jobRun.approve`: a question with a channel, its publication, the select, the
resumption, the comparison of digests. `ChangeTo` is `jobRun.change`, whose save
may fail for good. Clients answer any question of the start, the timer and the
cancellation may come at any time, people edit the file and trust it by hand. A
content stands for its digest and for its snapshot. `consents` holds the answers
that `AnswerApproval` accepted, `slipped` an edit after the last comparison: both
are history for the properties.

**ConversationImport.** A record is a line, an offset counts records, a
fingerprint is the prefix it covers. Each importer goes through the steps that
another party can fall between: list, `Lstat`, read the checkpoint, fingerprint,
read and decode, commit under the domain lock or find itself raced. Files are
appended to, replaced (in whole or behind a part that stays) and forked by
`ensureConversationCheckout`, and a crash ends every import. An import of an old file may
be under way when the conversation has moved to a fork, and is saved all the same, since
its own checkpoint is still current: `belated` is history for that.

**RuntimeEvents.** One item and its runtimes, one after the other. `Ingest` is
`IngestRuntimeEvent` (the fences of owner and claim, the duplicate by event ID,
`Activity`, `Shown`, the readiness of the record), which the socket handler runs
under the domain lock. An event waits in its driver's queue and may be lost,
handled late, or sent again and handled twice. A host loads the runtime record
and saves it later (`HostLoad`, `HostSave`, `Save`; its two saves at startup are
one). `Inspect` lists processes without the lock, and `ReconcileWith` and
`ReconcileActionability` recompute what is shown (`Recomputed`, the cases of
`applyActionability`). Times are positions in the order of events.

## Runs

| Run | Expect | Properties | Bounds |
| --- | --- | --- | --- |
| `items` | pass | TypeOK, SlugsIdentifyOpenItems, WaitGraphAcyclic, SearchMeetsSpecification, CapacityRespected, ParkedStaysParked, UnparkedForCause, OverdueBlockersAreSwept | 3 items without times (colliding slugs, or waits, or deep work), 2 items with times 0 to 2 and lag 1; one blocker per command; the search on every graph over 3 items, every question and order of blockers; 282,227 states |
| `jobs` | pass | OneWorkerPerKey, SummariesHold, ActiveJobsFinish | 3 jobs, 2 keys, history of 1, 1 failed save, 1 restart; 188,776 states |
| `control` | pass | PaneMatchesController, DeliveredByController, InterruptedOnlyByConsent | browser and terminal, 2 leases, 2 runtimes, 1 failure; 6,081,490 states |
| `workspaces` | pass | SlotsSharedOnlyByRace, WorkStaysWithItsItem, AgentsWorkOnReadyClaims, ClearedStaysCleared, OperationsEnd | 2 items, 2 slots, 2 claims in all, 1 blocker, any number of crashes; 359,298 states |
| `integration` | pass | NoWorkIsLost, BranchMovesByRule, PendingPlansEnd | 1 user, 1 item, 1 plan, 3 changes, rebases or interferences, 1 stop; 421,586 states |
| `events` | pass | ReadinessIsTheOwners, SettledIsShown | a driver that retries; 2 runtimes, 1 turn, 1 blocked input, lost or late event or lost claim; 925,005 states |
| `agents` | pass | AnswersDecide, TrustOnlyByConsent, StartsEnd (`Approvals`); StreamsAreComplete, ClientSeesTheTurn, WatchersCatchUp (`LiveContent`) | 2 contents, 2 starts, 3 edits, 1 failed save or restart; 1 watcher, queue of 2, limits of 1, 3 events and a second runtime with 1; 293,249 states |
| `commands` | pass | AnswersHold, KeepsPromise, CallsEnd (`Delivery`); FilesFollowItems, StartupSettlesWrites, DaemonComesUp (`NativeWrites`) | 2 messages, 2 runtimes, 1 request of each message without a caller; 3 commands, 3 texts, 2 failures, 1 edit by a person, 1 reused ID; 957,928 states |
| `feeds` | pass | MissedOnlyInCutRevisions, LaggingStreamCatchesUp (`ChangeLog`); IndexFollowsFile, IndexCatchesUp (`ConversationImport`) | log of 2 entries, 5 revisions, 2 epochs; 2 importers, files of up to 3 records, batches of 2, 1 replacement, 1 fork, 1 crash; 935,975 states |
| `sharing` | violation | SlotsExclusive | the instance of `workspaces` |
| `mixing` | violation | ImportsNeverRepeat | 2 importers, a file of up to 3 records, 1 fork, nothing replaced |
| `lossy` | violation | SettledIsShown | a driver that sends an event once; 1 runtime, 1 turn |

The three violations are disagreements between the code and what its documents say;
`PROJECT.json` lists them as findings.

- `sharing`: two items are started together. The first creates slot 1; the second lists
  claims and slots before the first has saved its claim, so slot 1 is there and nobody's.
  The first saves its claim; the second inspects slot 1, finds it clean, switches it to its
  own branch and saves a claim of it too. The run `workspaces` shows that nothing but such
  a race shares a slot: not a release, a reuse, a failed switch or a crash between the
  steps.
- `mixing`: an import of the conversation's file has decoded a batch when the conversation
  moves to a fork, whose file begins with copies of the old one's records. The fork is
  imported, then the old import is saved, because its file's checkpoint has not moved: the
  index holds those records twice. The run `feeds` shows that imports of one file never
  do this.
- `lossy`: the driver's settlement is lost. The saved activity stays at the beginning of
  the turn and takes precedence over the imported conversation for as long as the runtime
  lives. The run `events` shows that a driver that sends its events until they are answered
  recovers from every loss.

A property of a run may have named parts: `FilesFollowItems` is
`DescriptionsSurvive` and `DeletedStaysDeleted`, `SummariesHold` is
`OutcomeIsFinal` and `ActiveJobsAreDurable`, `InterruptedOnlyByConsent` is
`DisplacedOnlyByConsent` and `TurnsAbortedOnlyByConsent`, `AnswersHold` is
`ReplayNeedsRefusal` and `RefusedWasNotSent`, `ClientSeesTheTurn` is
`ClientFollowsStream` and `SavedTextIsHistory`, `NoWorkIsLost` is
`LandedCommitsAreKept` and `ItemWorkSurvives`, `BranchMovesByRule` is
`HistoryOnlyGrows` and `MergesLandWhole`.

Each module states a type invariant, `TypeOK`. The `items` run lists its own; the
others hold in the same instances, and are proved or replaced by the typing part of
an inductive invariant where there is one (see Proofs).

Why the bounds are enough. Three items give every shape of wait graph that
matters: chains, diamonds and cycles longer than two; the search is tried on
every graph over them, cyclic ones included. A log of two entries is truncated
by a single record of two items, so all of since's cases arise; the code's limit
of 1024 differs only in size. Two failures allow a crash during the recovery from
a crash. A history of one makes every second finished job an eviction. Two leases
let one lease replace another of the same client, the case a client comparison
cannot tell. Two slots and two claims let an item come back to a slot of its own
or to one that another item left, and let the second item take the slot that the
first gives up; an operation's stale manifest needs only one other writer. Two
messages and two runtimes give reordered orphans, and a retry that meets the
runtime of the first attempt, its successor, or none. Limits of one word and one
tool call make each second one exceed them; three events fill a queue of two and
overrun it. One plan suffices because a plan is over before the next begins, and
three changes let the branch, the upstream and the item diverge, or one of them
move twice. Three edits of two contents let a file change and change back between two comparisons,
and a second start meet what the first left. A third importer would do nothing
that the two do not, since only the checkpoint is shared. A second runtime gives
every late event an owner it is not from; with one runtime the properties also
hold with two troubles (a blocked input that an event is lost about).

`OneFeature`, `SendsOrReplacements`, `InOrder` and `Focus` in the MC modules keep
to behaviours that do not combine unrelated features, or that take
interchangeable IDs in one order; the actions that they cut never undo what they
keep, so liveness over the rest is not weakened. In `items`, three items wait on
each other without times, and two items have deadlines, deferrals and markers
with times; in `control`, messages are not sent once a runtime was replaced.

`Focus` of `MCWorkspaces` gives the second item what it needs to compete for the slots:
it claims, is edited, is released and crashes, and the assignments of both overlap at every
step. What does not touch slots (blockers, setup hooks, a close, a detached HEAD) the
first item does alone.

## Differences between documents and code

These came up while modelling. Where a module contains the behaviour, its
properties say so by what they exclude.

- `changes.go:18` says `All` covers every caller that fell too far behind.
  `record` drops the oldest entries one by one, and a reader one revision behind
  a revision that was cut in part is answered with the rest of it
  (`MissedOnlyInCutRevisions`).
- `native_materialization.go:16` says an interrupted command finishes its write.
  A stop between the creation of a description file and its content leaves it
  empty for good, and a create ID used again with another text while pending
  makes later starts fail (`FilesFollowItems`, `DaemonComesUp`).
- `docs/design/lifecycle-blockers-control.md:96` says a browser's control
  disables the agent's pane. A TUI started while a browser holds the lease has an
  enabled one until control is next acquired (`PaneMatchesController`).
- `access_control.go:196` says takeover never aborts a turn unconfirmed. A driver
  without an idle guard loses a turn that begins between the check and the
  shutdown (`InterruptedOnlyByConsent`).
- `api_messages.go:15` says a pending receipt is never replayed into a
  replacement runtime. A retry that the stopping runtime refuses before it looks
  for the command removes the receipt, and a further send reaches the next
  runtime (`AnswersHold`).
- `docs/src/content/docs/concepts/lifecycle.md` gives closed items no checkout. A
  forced close whose terminal cannot be closed keeps the claim.
- `docs/src/content/docs/concepts/repositories.md` says a reset checks that the
  confirmed tips have not changed. `SyncRepository` reads both tips itself when
  the job begins, so it compares what it has just read.
- A `tool.cleared` event is never forwarded to the API's client, although
  `agents.proto` names it, and a delta past the limit is sent whole
  (`ClientSeesTheTurn`).
- A rollback of a merge that rebased in place resets the item's checkout hard,
  also over what was committed or edited there meanwhile
  (`integration_merge.go:393`). `NoWorkIsLost` says that no other commit is lost: it
  excuses the commits made while the item's merge could roll back (`AtRisk`), and does not
  follow edits that were not committed.
- A commit in the reconciliation checkout after its plan was applied, or after
  an abort kept its tip, makes continuing and aborting refuse
  (`PendingPlansEnd`).
- `docs/design/api/README.md:99` promises that clearing an absent blocker
  succeeds, while `applyBlockerClearCommand` reports an error; and
  `docs/design/lifecycle-blockers-control.md:27` says an item blocker is cleared
  when the other item closes, while the sweep misses a close and reopen between
  two passes.
- `skills/wi/SKILL.md:8` says each work item is isolated in its own worktree, and
  `docs/src/content/docs/concepts/lifecycle.md:69` that no sequence of calls, from any
  client, leaves an unsafe state. `assignSlot` (`slots.go:43`) reads which slots other items
  claim, then switches a clean one and prepares it, and saves its own claim last. The locks
  on the way belong to one item each, and the store compares no claims, so two items
  started together can claim one slot: `SlotsExclusive`, run `sharing`. What the code does
  keep is `SlotsSharedOnlyByRace`, and `WorkStaysWithItsItem` for items that did not race.
- `docs/design/live-content-stream.md:160` says that concurrent imports never
  apply records twice because an import applies only if the checkpoint it started
  from is still current. The checkpoint belongs to the file and the index to the
  item (`conversation_importer.go:253-263`): when the conversation has moved to a
  fork, an import of the old file that is still under way finds its own checkpoint
  current and adds the old file's records to the index of the new one:
  `ImportsNeverRepeat`, run `mixing`. The next reset repairs it. `IndexFollowsFile` and
  `IndexCatchesUp` hold unless such an import was saved (`belated`).
- `docs/src/content/docs/reference/agent-driver-protocol.md:142` says producers must retry the same
  event ID in order. Pi's driver does (`rpc_transport.go:501`); Claude's sends an event once
  (`claude/run.go:169`), so a lost settlement leaves the item shown as busy:
  `SettledIsShown`, run `lossy`. A status event that arrives
  after a newer event is committed and not shown, so with such a driver the saved readiness
  may also be an older one (`ReadinessIsTheOwners` fails with `Retries = FALSE`).
- `runtime_ingest.go:278` says that returning to an empty inbox must not erase an
  actionable failure. A pass while the input is blocked takes the turn from the
  conversation, which may not record the failure, and a following `ready` then
  shows the item as idle until the next pass recomputes it; `SettledIsShown` is
  therefore about what is shown in the end.
- A `.envrc` that is edited before its question is asked, and allowed as it then
  is, is still refused ("changed while approval was pending; retry"): the second
  snapshot is compared with the one before the question.

## Fairness

- `Items`: weak fairness of the sweep. `Server.sweepBlockers` runs it on a
  ticker for as long as the daemon lives.
- `WaitSearch` states no fairness: that the search ends is proved from its steps.
- `ChangeLog`: weak fairness of a connected stream's own steps, a goroutine that
  loops. Clients are free to disconnect, and the daemon to restart.
- `NativeWrites`: weak fairness of the materialization loop and of starting the
  daemon again, which is what the claim "the daemon comes up" presupposes.
  Crashes are bounded.
- `JobRegistry`: weak fairness of a job's begin and of its return. Approvals
  expire and contexts are cancelled, so a job that waits returns.
- `ControlLease` states no liveness and no fairness.
- `Workspaces`: weak fairness of each item's operation. Its steps are bounded
  calls or waits with a deadline (`ArchiveRuntimeStopTimeout`); the agent need
  not ever stop.
- `Delivery`: weak fairness of the call's own steps and of the driver's loop,
  which becomes ready or ends, and handles what it was sent: a living runtime answers.
  A deadline may pass at any time and need not, so `CallsEnd` is about a runtime that
  ends under a call; against one that hangs, the code has only the deadline.
- `LiveContent`: weak fairness of each watcher's goroutine. Nothing is assumed of
  updates, of runtimes or of clients that leave.
- `Integration`: weak fairness that some operation proceeds, weaker than that
  each does. Ending a plan needs its users: they resolve conflicts, clean the
  checkout up, put it back where it was, end Git operations in other checkouts, and ask
  again to continue and to abort (strong fairness, since the lock they find taken is
  given up again and again).
- `Approvals`: weak fairness of the job's goroutine and of the passing of ten
  minutes. Nobody need answer.
- `ConversationImport`: weak fairness of each importer, a loop with a ticker.
- `RuntimeEvents`: weak fairness of each driver's sender, of the observer's
  inspections and passes, and of imports, all loops with tickers. Hosts, agents
  and clients are free.

## Proofs

Every theorem holds for all values of the constants that satisfy the assumptions
named in its module: sets are arbitrary (finite where the code counts them), bounds
are natural numbers, markers such as `None` are not members of the sets they stand
beside. TLC evaluates the assumptions in each run. Two theorems need more and say so:
`EventsInvariant` and `ReadinessIsCurrent` are about drivers that send an event until it is
answered (`Retries = TRUE`), as Pi's does and the protocol demands; the run `lossy` is the
other case.

The shape is the same throughout. A property is seldom inductive, so an invariant
implies it that is: it holds initially, and one lemma per action, or
per group of actions that disturb the same parts, shows that steps keep it. Before
it was proved, TLC checked each inductive invariant on the instance of the
component's run (33,768 states for the search).

**Items** (`ItemsProofs`).

- `TypeCorrect`: `TypeOK` is inductive as it stands.
- `NoWaitCycles`: `WaitGraphAcyclic`. A step other than `AddBlockers`
  only removes waits (`OnlyAddBlockersAdds`), which cannot close a cycle
  (`ShrinkingKeepsAcyclic`). For `AddBlockers` (`AddingKeepsAcyclic`), take a
  nonempty set. Each item that is newly waited on did not reach the waiter, so
  it lies in a closed set from which nobody waits on it; an item of the set that
  waits on nobody within it is found inside that closed set, or in the whole set
  by the old invariant.
- `SlugsStayUnique`: `SlugsIdentifyOpenItems`, from `TypeOK` and the
  lemma that a slug `UniqueSlug` returns is held by no other open item.
- `ParkingHolds`: `ParkedStaysParked` says nothing of items that are not eligible.
  `ReadSinceParked` adds that the read marker is at least as late as every
  blocker of the item, which `AddBlockers` establishes and no other step
  undoes, because markers never move back and only closed items are deleted.
- `CapacityHolds`: `CapacityRespected`. With finitely many items at work, a step
  that takes items out of the counted set cannot raise its size (`LessWorkFits`),
  and the two that put one in (`Edit`, `Activate`) compare the size first or excuse
  the item.
- `WaitsEndForCause`: `UnparkedForCause`, a property of steps. A command that
  does not clear or close, and every import and mark, keeps an item's blockers
  (`CommandsKeepBlockers`, `KeptBlockersWait`), so the clock and the sweep are left,
  each with its cause.

- `SearchIsRight`: `SearchMeetsSpecification`. `SearchInv` says that what was found
  (`Found`) lies in every closed set that holds the origin, and that what a visited item
  waits on was found or is about to be pushed, the goal only while it has not been
  looked at. When the stack is empty, `Found` is itself a closed set without the goal;
  when the goal is met, every closed set holds somebody who waits on it.
  `SearchCannotRunOn` says that with finitely many items each step answers, visits one
  more item or leaves less to do, so the search ends; some step is always possible before it
  has answered. `SearchServesItems` says that the answer on the current wait graph is the
  `BlocksTransitively` of `Items`, on which `NoWaitCycles` rests.

**Delivery** (`CommandProofs`). `DeliveryInv` relates what is in different hands: the
driver knows exactly what its agent was given (`DriverRemembers`), a call under way
owns the receipt it made (`CallOwnsReceipt`), an undecided message has the receipt of
the runtime that got it (`ReceiptNamesRuntime`), and a settled one was handed over only
by its delivery (`SettledIsKnown`). These decide what a request that outlived its
caller can still do. `AnswersAreTrue` follows (`AnswersHold`), and
`DeliveryKeepsPromise` is the refinement `KeepsPromise`: each step of `Delivery` is a
step of `Handoff` or changes neither of its variables.

**Native writes** (`CommandProofs`). `NativeInv` accounts for each description while a loop
may stop anywhere: pending writes are those of the recorded commands, an item has one
pending create and one edit, and a create precedes its item's delete (`PendingSound`,
`InTurn`); the loop has all creates and deletes before it in that order (`QueueSound`);
how far its first write has come (`PartSound`) and what the request under way staged
(`RequestSound`) say which staged texts are needed no more. `Kept` sharpens the property:
before its item's file is written a description is staged for the create, after that
it is in the file or staged for an edit; the weaker disjunction would let a removed stage
take it away. `NativeFilesFollowItems` is `FilesFollowItems`. A deleted item stays
deleted because no loop carries out a create after the delete that followed it
(`ClearPendingStep`). `NativeStartupSettles` is `StartupSettlesWrites`, about the step that
begins to serve.

**Approvals** (`AgentProofs`). `ApprovalInv` says what an open channel means (no answer
was accepted), that each question has one accepted answer (`OneAnswerEach`), that
`approve` acts on the answer to its last question (`ActsOnAnswer`), and that what is
left of earlier questions has expired or was cancelled (`LeftoversAreDead`).
`AcceptedAnswersDecide` is `AnswersDecide`, `NothingTrustedWithoutConsent` is
`TrustOnlyByConsent`, about every step that adds to what direnv trusts.

**Live content** (`AgentProofs`). `ContentInv`: the reader of an open stream, applying what is
queued for it, arrives at the server's snapshot; no queued event adds text to a text that
was cut (`Guarded`, `Fits`); its client shows what the reader has read so far
(`LiveStreams`); and only a text that history has is called saved
(`SavedTextIsHistory`). An update publishes a sequence of events, the later ones computed
from what the earlier ones made of the snapshot, so the lemmas about `After` and
`ApplyAll` (`AfterTyped`, `QueuedFits`) are proved by induction over the events: among
the numbers at which a claim fails take the least (`LeastNumber`). Most of the work is
that each event, applied within limits of any size, gives a snapshot (`ContentTypesCorrect`) and
leaves the client's view in `Shows`. Hence `StreamsTellAll` (`StreamsAreComplete`) and
`ClientsShowTheTurn` (`ClientSeesTheTurn`).

**Jobs** (`JobRegistryProofs`). `JobInv` relates the shown, the saved and the running
state of a job: `SavedAgrees` lists how a summary may lag behind, `BrokenIsOver` that a
job whose summary could not be saved is over. `OneWorker` is `OneWorkerPerKey`,
`SummariesSurvive` is `SummariesHold`.

**Workspaces** (`WorkspacesProofs`). `WorkspaceInv` holds however operations interleave:
an operation does not pull a checkout from under its item's agent
(`OperationsMindAgents`), and no loaded manifest brings back a cleared blocker. It gives
`AgentsAreReady` and `BlockersStayCleared`. `SlotInv` says what is left of the order in
which slots are claimed when nothing orders assignments. Two assignments under way know of
each other (`RacersKnown`). A claim that an assignment is about to take over is one it
listed and passes over, or one that was assigned beside it (`ClaimsKnown`): this is what a
crash, a release and a claim that fails to be saved must not disturb. The work in a slot
(`WorkIsItsOwn`) and its branch (`SlotsAreHeld`) are those of its claimant, of the item that
chose it, or of an item that raced with that one. `OnlyRacesShareSlots`
(`SlotsSharedOnlyByRace`) and `WorkIsKept` (`WorkStaysWithItsItem`) follow, for any number
of items whose assignments overlap at any step.

**Control** (`ControlLeaseProofs`). `ControlInv`: the controller lock has one holder, the
lease an acquisition read is there or gone until it is granted and afterwards its own or
gone (`LeaseUnderLock`), what it does is what its plan allows of the status it saw
(`PlanHolds`), and the pane follows the lease until an acquisition is granted another
one, single deliveries apart (`PaneFollows`). It gives `PaneFollowsController`, `MessagesHaveTheController`
and, for steps, `NobodyInterruptedUnasked`.

**Integration** (`IntegrationProofs`). `IntegrationInv`: who holds the integration lock is
past its first steps (`LockHeld`); the synchronization that holds it has the saved plan's
branch and tips and, before it moves the branch, their recovery ref (`SyncAgrees`); a
merge knows the work a rollback would restore, but for what was committed since it may
(`MergeAgrees`). What is committed beside a merge that rebased elsewhere is never at risk,
because only a merge that rebased in place resets the checkout. `WorkIsNeverLost` is
`NoWorkIsLost`, `TheBranchMovesByRule` is `BranchMovesByRule`, `IntegrationTypes` the
type invariant.

**Feeds** (`FeedProofs`).

- `EventsInvariant`, `ReadinessIsCurrent`: with a driver that sends an event until it is
  answered (`Retries = TRUE`, Pi's), what waits in its queue is in order and later than
  all that was committed (`QueueInOrder`, `Behind`); an event that is handled late was
  committed before, is the next one, or is from no owner (`NextInLine`); and a record that
  a host loaded is no newer than the saved one (`CopyIsOlder`). Hence
  `ReadinessIsTheOwners`.
- `ImportInvariant`, `NoRecordIsLostOrRepeated`: imports of any of the item's files
  overlap. One under way holds the records behind the place it started from (`Holds`), which
  the growth of files and the commits of others do not change. Until an import of an old
  file is saved after its fork's (`belated`), the index is about the last file that has a
  checkpoint and holds the records up to it (`IndexAgrees`). A commit that finds its
  checkpoint unmoved is about that file, and joins two adjacent pieces (`PiecesJoin`), or
  is the first of a later one, or is belated. Hence `IndexFollowsFile`.
- `LogInvariant`, `NothingIsMissed`: the last record of an item is in the log, older than all
  of it, or cut (`Remembered`), which truncation keeps (`TruncateKeeps`); what a reader was
  not told of is after its cursor (`TellsAll`), or after the cursor it will have when the
  answer under way arrives and not in that answer (`AnswerTells`). Hence
  `MissedOnlyInCutRevisions`, for logs of any size and restarts of the daemon.

Every safety property of a run is stated by a theorem. Checked with TLC only:

- liveness under fairness, which the prover does not cover: `OverdueBlockersAreSwept`,
  `LaggingStreamCatchesUp`, `DaemonComesUp`, `ActiveJobsFinish`, `OperationsEnd`,
  `CallsEnd`, `WatchersCatchUp`, `PendingPlansEnd`, `StartsEnd`, `IndexCatchesUp`,
  `SettledIsShown`;
- in `JobRegistry`, how many finished jobs are kept and the types of finish times, which
  no property rests on.

## Left out

- The contents of prompts, logs, labels, priorities and resolutions: no property
  tells them apart.
- Atomicity and durability of bbolt and of `rename` are taken as given.
- Git, tmux and agent processes appear only through their effects on the state
  above (turns, terminals, a runtime that exits).
- An edit made by a person between the last comparison and the rename of a
  description edit is lost; no file operation can close that window, and
  `FilesFollowItems` excludes it.
- `Workspaces`: external checkouts, copies of attachments, a slot repaired by
  hand outside the item's own, deletion of an item, and how an agent registers.
- `Delivery`: messages without a client ID, which have no receipt, and the lease
  check itself, which is `ControlLease`'s. The driver is the RPC driver; Claude's TUI driver
  (`claude/controls.go:220-256`) types a message into a terminal and answers an error when
  it does not know whether it arrived.
- `Integration`: merge targets that another worktree has checked out, a rebase
  whose abort fails, and upstreams that are force-pushed.
- `Approvals`: answers to the questions of earlier starts (another job, so another
  channel) and the revocation of trust when a slot is reused.
- `ConversationImport`: decoding, malformed and oversized lines, and the deletion
  of items. `IndexCatchesUp` names the files that escape a fingerprint.
- `RuntimeEvents`: tool, turn, command, settings and native state events,
  `waiting_input` and questions that await an answer, and the check of the
  control socket (`runtimeControlUnavailable`).
- The components listed as `not_modelled` in `PROJECT.json`, with reasons: the
  generated API (about 22,000 lines), the command line and views, wrappers of
  Git and tmux and the plugins hold no state that several parties change, and
  make up most of the source lines that no definition maps.

## Plan

1. `Settings` and the deletion of items; `Priority` as a pure algorithm against a
   reference order.
2. An abstract specification of exclusive control, which `ControlLease`
   implements under a refinement mapping, and one of a reliable notification
   service for `ChangeLog`.
