---------------------------- MODULE Integration ----------------------------
(***************************************************************************)
(* A repository's integration branch: its synchronization with an upstream *)
(* through a durable plan, a reconciliation checkout and recovery refs     *)
(* (coordinator/repository_sync.go, git/repository_sync.go), and the       *)
(* merging of items' branches into it (app/integration_merge.go).          *)
(*                                                                         *)
(* A commit is a pair: the change it carries and a number of its own.  A   *)
(* tip is the set of the commits it reaches, so one tip is an ancestor of  *)
(* another when it is a subset of it.  Rebasing gives commits new numbers  *)
(* and keeps their changes.                                                *)
(***************************************************************************)
EXTENDS Integers

CONSTANTS
    Users,       \* who ask for synchronizations
    Items,       \* items that are merged
    Nobody,      \* no holder of the integration lock
    MaxCommits,  \* bound: changes made around the daemon, and rebases
    MaxPlans,    \* bound: plans
    MaxFailures  \* bound: operations that stop halfway

ASSUME NamesAssumption == Users \intersect Items = {} /\ Nobody \notin Users \union Items
ASSUME BoundsAssumption == MaxCommits \in Nat /\ MaxPlans \in Nat /\ MaxFailures \in Nat

Procs == Users \union Items
Commits == (0 .. MaxCommits + MaxPlans) \X (0 .. MaxCommits + MaxPlans)

VARIABLES
    ref,        \* the tip of the integration branch
    remote,     \* the tip of the upstream's branch
    config,     \* which configuration of the upstream Git holds
    elsewhere,  \* a Git operation is under way in another item's checkout
    plan,       \* the durable plan (RepositorySyncPlan)
    checkout,   \* the reconciliation checkout
    recovery,   \* recovery[n]: the tip under the recovery ref of plan n
    retained,   \* retained[n]: the tip kept of its checkout when it was aborted
    lock,       \* the holder of the integration lock
    op,         \* op[p]: the operation of p
    source,     \* source[i]: the item's checkout: its tip and whether it has changes
    made,       \* the number of changes made around the daemon, and of rebases
    planned,    \* the number of plans made
    failures,   \* the number of operations stopped halfway
    landed,     \* history: the commits that were ever on the integration branch
    authored,   \* history: the changes committed in the item's checkout
    late        \* history: those that a rollback of its last merge drops, or that an earlier one did

store == <<plan, checkout, recovery, retained, planned>>
items == <<source, authored, late>>
vars == <<ref, remote, config, elsewhere, store, lock, op, items, made, failures, landed>>

----------------------------------------------------------------------------
Changes(tip) == {c[1] : c \in tip}
NoTip == {}
NoPlan == [id |-> 0, mode |-> "ff", phase |-> "none", old |-> NoTip, up |-> NoTip, new |-> NoTip, config |-> 0]
NoCheckout == [there |-> FALSE, head |-> NoTip, merging |-> FALSE, resolved |-> FALSE, dirty |-> FALSE,
               aside |-> FALSE]

Idle == [pc |-> "idle", mode |-> "ff", local |-> NoTip, up |-> NoTip, config |-> 0, plan |-> NoPlan,
         old |-> NoTip, target |-> NoTip, new |-> NoTip, inplace |-> FALSE]

Init ==
    /\ ref = {<<0, 0>>} /\ remote = ref /\ landed = ref
    /\ config = 1 /\ elsewhere = FALSE
    /\ plan = NoPlan /\ checkout = NoCheckout
    /\ recovery = [n \in 1 .. MaxPlans |-> NoTip] /\ retained = recovery
    /\ lock = Nobody
    /\ op = [p \in Procs |-> Idle]
    /\ source = [i \in Items |-> [head |-> ref, dirty |-> FALSE]]
    /\ made = 0 /\ planned = 0 /\ failures = 0
    /\ authored = [i \in Items |-> {}] /\ late = authored

\* A commit of a new change, and the commit of a plan's merge.
New == <<made + 1, made + 1>>
MergeOf(pl) == <<MaxCommits + pl.id, MaxCommits + pl.id>>
MayCommit == made < MaxCommits

\* Mutant: the tip taken for the rebased one is the base.
RebasedNone(tip, base) == base

\* The commits of tip that base lacks, applied to base: the changes stay, the
\* commits are new ones.
Rebased(tip, base) == base \union {<<c, made + 1>> : c \in Changes(tip \ base)}

Unlock(p) == lock' = IF lock = p THEN Nobody ELSE lock
At(p, pc) == op' = [op EXCEPT ![p].pc = pc]

\* An operation ends with an error.
Refuse(p) == op' = [op EXCEPT ![p] = Idle] /\ Unlock(p)

\* A synchronization ends well: a merge that asked for it goes on from its tip.
Succeed(p, tip) ==
    /\ op' = [op EXCEPT ![p] = IF p \in Items
                 THEN [Idle EXCEPT !.pc = "lock", !.local = tip, !.config = op[p].config]
                 ELSE Idle]
    /\ Unlock(p)

----------------------------------------------------------------------------
(* Synchronization. *)

\* What repositoryAccess and the look at the plan allow: the lock is not
\* waited for, and a pending plan is only continued or aborted.
Admits(mode) == lock = Nobody /\ (mode \in {"continue", "abort"} <=> plan # NoPlan)

\* SyncRepository.
Begin(u, mode) ==
    /\ op[u].pc = "idle" /\ Admits(mode)
    /\ lock' = u
    /\ op' = [op EXCEPT ![u] = [Idle EXCEPT !.mode = mode, !.plan = plan,
                 !.pc = IF plan = NoPlan THEN "fetch" ELSE "resume"]]
    /\ UNCHANGED <<ref, remote, config, elsewhere, store, items, made, failures, landed>>

\* A reset first looks at both tips, and releases the lock.
BeginReset(u) ==
    /\ op[u].pc = "idle" /\ lock = Nobody
    /\ op' = [op EXCEPT ![u] = [Idle EXCEPT !.pc = "access", !.mode = "reset", !.local = ref, !.up = remote]]
    /\ UNCHANGED <<ref, remote, config, elsewhere, store, lock, items, made, failures, landed>>

\* The synchronization of a reset or before a merge.
Access(p) ==
    /\ op[p].pc = "access"
    /\ IF Admits(op[p].mode) THEN lock' = p /\ At(p, "fetch") ELSE Refuse(p)
    /\ UNCHANGED <<ref, remote, config, elsewhere, store, items, made, failures, landed>>

\* Fetches, compares with what was confirmed, and drafts a plan.
Fetch(p) ==
    LET mode == op[p].mode
        diverged == ~(ref \subseteq remote) /\ ~(remote \subseteq ref)
        merges == mode = "merge" /\ diverged
    IN /\ op[p].pc = "fetch"
       /\ CASE elsewhere -> Refuse(p)
            [] (op[p].local # NoTip /\ op[p].local # ref) \/ (op[p].up # NoTip /\ op[p].up # remote) -> Refuse(p)
            [] ref = remote \/ (remote \subseteq ref /\ mode # "reset") -> Succeed(p, ref)
            [] (diverged /\ mode = "ff") \/ planned = MaxPlans -> Refuse(p)
            [] OTHER ->
                  /\ op' = [op EXCEPT ![p].pc = "save",
                        ![p].plan = [id |-> planned + 1, mode |-> mode, config |-> config,
                                     phase |-> IF merges THEN "merging" ELSE "prepared",
                                     old |-> ref, up |-> remote, new |-> IF merges THEN NoTip ELSE remote]]
                  /\ UNCHANGED lock
       /\ UNCHANGED <<ref, remote, config, elsewhere, store, items, made, failures, landed>>

SavePlan(p) ==
    /\ op[p].pc = "save"
    /\ plan' = op[p].plan
    /\ planned' = planned + 1
    /\ At(p, "resume")
    /\ UNCHANGED <<ref, remote, config, elsewhere, checkout, recovery, retained, lock, items, made, failures, landed>>

\* The plan as the branch shows it.
Seen(pl) == IF pl.new # NoTip /\ ref = pl.new THEN [pl EXCEPT !.phase = "applied"] ELSE pl

\* No checkout of an item has a Git operation under way, and the one of the
\* reconciliation is on no branch and has none but a merge.
Unhindered == ~elsewhere /\ ~checkout.aside

\* The branch and the checkout are as the plan left them.
AsPlanned(pl) ==
    /\ pl.phase = "applied" \/ ref = pl.old
    /\ checkout.there /\ pl.new # NoTip => checkout.head = pl.new

\* Mutant: only a reconciliation can be aborted.
MayResumeStrict(pl, abort) ==
    Unhindered /\ IF abort THEN pl.phase = "merging" ELSE AsPlanned(pl)

\* The checks at the head of resumeRepositorySync.
MayResume(pl, abort) ==
    Unhindered /\ IF abort THEN pl.phase # "applied" ELSE AsPlanned(pl)

Resume(p) ==
    LET pl == Seen(op[p].plan)
        abort == op[p].mode = "abort"
    IN /\ op[p].pc = "resume"
       /\ IF ~MayResume(pl, abort) THEN Refuse(p)
          ELSE /\ op' = [op EXCEPT ![p].plan = pl,
                     ![p].pc = CASE abort -> "abort" [] pl.phase = "merging" -> "merge" [] OTHER -> "backup"]
               /\ UNCHANGED lock
       /\ UNCHANGED <<ref, remote, config, elsewhere, store, items, made, failures, landed>>

AddCheckout(p) ==
    /\ op[p].pc = "merge" /\ ~checkout.there
    /\ checkout' = [NoCheckout EXCEPT !.there = TRUE, !.head = op[p].plan.old]
    /\ UNCHANGED <<ref, remote, config, elsewhere, plan, recovery, retained, planned, lock, op, items, made, failures, landed>>

\* Commits a resolved merge, begins one, or accepts what the user committed.
Merge(p) ==
    LET pl == op[p].plan
        begins == ~checkout.merging /\ checkout.head = pl.old
    IN /\ op[p].pc = "merge" /\ checkout.there
       /\ \/ /\ begins \/ (checkout.merging /\ checkout.resolved)
             /\ checkout' = [checkout EXCEPT !.head = pl.old \union pl.up \union {MergeOf(pl)},
                                !.merging = FALSE, !.resolved = FALSE]
             /\ At(p, "prepare") /\ UNCHANGED lock
          \/ \* conflicts, left to be resolved
             /\ begins \/ (checkout.merging /\ ~checkout.resolved)
             /\ checkout' = [checkout EXCEPT !.merging = TRUE]
             /\ Refuse(p)
          \/ /\ ~checkout.merging /\ ~begins
             /\ At(p, "prepare") /\ UNCHANGED <<checkout, lock>>
       /\ UNCHANGED <<ref, remote, config, elsewhere, plan, recovery, retained, planned, items, made, failures, landed>>

Prepare(p) ==
    LET pl == [op[p].plan EXCEPT !.new = checkout.head, !.phase = "prepared"] IN
    /\ op[p].pc = "prepare"
    /\ IF checkout.dirty \/ ~(pl.old \union pl.up \subseteq pl.new)
          THEN Refuse(p) /\ UNCHANGED plan
          ELSE /\ plan' = pl
               /\ op' = [op EXCEPT ![p].pc = "backup", ![p].plan = pl]
               /\ UNCHANGED lock
    /\ UNCHANGED <<ref, remote, config, elsewhere, checkout, recovery, retained, planned, items, made, failures, landed>>

\* Mutant: the tip to come is kept, not the one that goes.
ProtectedNew(pl) == pl.new

\* What the recovery ref of a plan holds.
Protected(pl) == pl.old

Backup(p) ==
    LET pl == op[p].plan IN
    /\ op[p].pc = "backup"
    /\ IF recovery[pl.id] \notin {NoTip, Protected(pl)} \/ (pl.mode # "reset" /\ ~(pl.old \union pl.up \subseteq pl.new))
          THEN Refuse(p) /\ UNCHANGED recovery
          ELSE /\ recovery' = [recovery EXCEPT ![pl.id] = Protected(pl)]
               /\ At(p, IF pl.phase = "applied" THEN "remove" ELSE "apply")
               /\ UNCHANGED lock
    /\ UNCHANGED <<ref, remote, config, elsewhere, plan, checkout, retained, planned, items, made, failures, landed>>

\* UpdateRef compares the branch with the expected tip and sets it.
Swaps(old, new) == ref = old

Apply(p) ==
    LET pl == op[p].plan IN
    /\ op[p].pc = "apply"
    /\ IF pl.config # config \/ elsewhere \/ ~Swaps(pl.old, pl.new)
          THEN Refuse(p) /\ UNCHANGED <<ref, landed>>
          ELSE /\ ref' = pl.new /\ landed' = landed \union pl.new
               /\ At(p, "applied") /\ UNCHANGED lock
    /\ UNCHANGED <<remote, config, elsewhere, store, items, made, failures>>

SaveApplied(p) ==
    /\ op[p].pc = "applied"
    /\ plan' = [op[p].plan EXCEPT !.phase = "applied"]
    /\ At(p, "remove")
    /\ UNCHANGED <<ref, remote, config, elsewhere, checkout, recovery, retained, planned, lock, items, made, failures, landed>>

\* Git keeps a worktree with changes.
Remove(p) ==
    /\ op[p].pc = "remove"
    /\ IF checkout.there /\ (checkout.dirty \/ checkout.merging)
          THEN Refuse(p) /\ UNCHANGED checkout
          ELSE checkout' = NoCheckout /\ At(p, "forget") /\ UNCHANGED lock
    /\ UNCHANGED <<ref, remote, config, elsewhere, plan, recovery, retained, planned, items, made, failures, landed>>

\* Ends a merge in the checkout and keeps the commits made there.
Abort(p) ==
    LET id == op[p].plan.id IN
    /\ op[p].pc = "abort"
    /\ checkout' = [checkout EXCEPT !.merging = FALSE, !.resolved = FALSE]
    /\ IF ~checkout.there \/ checkout.head = op[p].plan.old
          THEN At(p, "remove") /\ UNCHANGED <<retained, lock>>
          ELSE IF retained[id] \in {NoTip, checkout.head}
          THEN /\ retained' = [retained EXCEPT ![id] = checkout.head]
               /\ At(p, "remove") /\ UNCHANGED lock
          ELSE Refuse(p) /\ UNCHANGED retained
    /\ UNCHANGED <<ref, remote, config, elsewhere, plan, recovery, planned, items, made, failures, landed>>

\* The plan is done, or given up.
Forget(p) ==
    /\ op[p].pc = "forget"
    /\ plan' = NoPlan
    /\ Succeed(p, ref)
    /\ UNCHANGED <<ref, remote, config, elsewhere, checkout, recovery, retained, planned, items, made, failures, landed>>

\* The daemon stops, or the operation's time is over, between two steps.
Fail(p) ==
    /\ op[p].pc # "idle" /\ failures < MaxFailures
    /\ failures' = failures + 1
    /\ Refuse(p)
    /\ UNCHANGED <<ref, remote, config, elsewhere, store, items, made, landed>>

----------------------------------------------------------------------------
(* Merging an item's branch into the integration branch. *)

\* The synchronization before it is skipped on request (--local).
StartMerge(i, isLocal) ==
    /\ op[i].pc = "idle" /\ plan = NoPlan
    /\ op' = [op EXCEPT ![i] = [Idle EXCEPT !.pc = IF isLocal THEN "lock" ELSE "access", !.config = config]]
    /\ UNCHANGED <<ref, remote, config, elsewhere, store, lock, items, made, failures, landed>>

\* Mutant: what was seen before the lock is not looked at again.
StillGoodUnchecked(i) == TRUE

\* What the merge saw before it had the lock still holds.
StillGood(i) ==
    plan = NoPlan /\ config = op[i].config /\ op[i].local \in {NoTip, ref}

\* Waits for the lock, and reads both tips under it.
LockMerge(i) ==
    LET head == source[i].head IN
    /\ op[i].pc = "lock" /\ lock = Nobody
    /\ IF ~StillGood(i) THEN Refuse(i) /\ UNCHANGED late
       ELSE /\ lock' = i
            /\ late' = [late EXCEPT ![i] = @ \ Changes(head)]
            /\ op' = [op EXCEPT ![i].pc = IF ref \subseteq head THEN "check" ELSE "rebase",
                         ![i].old = head, ![i].target = ref, ![i].new = head]
    /\ UNCHANGED <<ref, remote, config, elsewhere, store, source, authored, made, failures, landed>>

\* With changes in the checkout, the commits are rebased elsewhere; without,
\* in place, onto the branch as it is now.
Rebase(i) ==
    LET isolated == Rebased(op[i].old, op[i].target)
        inplace == Rebased(source[i].head, ref)
    IN /\ op[i].pc = "rebase" /\ MayCommit
       /\ made' = made + 1
       /\ IF source[i].dirty
             THEN /\ op' = [op EXCEPT ![i].pc = "check", ![i].new = isolated]
                  /\ UNCHANGED source
             ELSE /\ op' = [op EXCEPT ![i].pc = "check", ![i].new = inplace, ![i].inplace = TRUE]
                  /\ source' = [source EXCEPT ![i].head = inplace]
       /\ UNCHANGED <<ref, remote, config, elsewhere, store, lock, authored, late, failures, landed>>

\* A conflict: the rebase is aborted and nothing has changed.
Conflict(i) ==
    /\ op[i].pc = "rebase"
    /\ Refuse(i)
    /\ UNCHANGED <<ref, remote, config, elsewhere, store, items, made, failures, landed>>

\* reset --hard to the tip that the merge began with.
Restored(i) == [head |-> op[i].old, dirty |-> FALSE]

\* failMergeWithRollback, before the branch has moved.
Rollback(i) ==
    /\ source' = IF op[i].inplace THEN [source EXCEPT ![i] = Restored(i)] ELSE source
    /\ Refuse(i)

\* A source that was not rebased in place must not have moved.
Check(i) ==
    /\ op[i].pc = "check"
    /\ IF op[i].target \subseteq op[i].new /\ (op[i].inplace \/ source[i].head = op[i].old)
          THEN At(i, "update") /\ UNCHANGED <<source, lock>>
          ELSE Rollback(i)
    /\ UNCHANGED <<ref, remote, config, elsewhere, store, authored, late, made, failures, landed>>

\* Any Git error here rolls back as well.
Update(i) ==
    /\ op[i].pc = "update"
    /\ \/ /\ Swaps(op[i].target, op[i].new)
          /\ ref' = op[i].new /\ landed' = landed \union op[i].new
          /\ Refuse(i) /\ UNCHANGED source
       \/ Rollback(i) /\ UNCHANGED <<ref, landed>>
    /\ UNCHANGED <<remote, config, elsewhere, store, authored, late, made, failures>>

----------------------------------------------------------------------------
(* Around the daemon: agents in the items' checkouts, Git in the owned     *)
(* repository, the upstream, and the user in the reconciliation checkout.  *)

\* A rollback of the item's merge drops what is committed now.
AtRisk(i) == op[i].pc = "rebase" \/ (op[i].pc \in {"check", "update"} /\ op[i].inplace)

CommitIn(i) ==
    /\ MayCommit /\ made' = made + 1
    /\ source' = [source EXCEPT ![i] = [head |-> @.head \union {New}, dirty |-> FALSE]]
    /\ authored' = [authored EXCEPT ![i] = @ \union {made + 1}]
    /\ late' = [late EXCEPT ![i] = IF AtRisk(i) THEN @ \union {made + 1} ELSE @]
    /\ UNCHANGED <<ref, remote, config, elsewhere, store, lock, op, failures, landed>>

EditIn(i) ==
    /\ ~source[i].dirty /\ MayCommit /\ made' = made + 1
    /\ source' = [source EXCEPT ![i].dirty = TRUE]
    /\ UNCHANGED <<ref, remote, config, elsewhere, store, lock, op, authored, late, failures, landed>>

OutsideCommit ==
    /\ MayCommit /\ made' = made + 1
    /\ ref' = ref \union {New} /\ landed' = landed \union {New}
    /\ UNCHANGED <<remote, config, elsewhere, store, lock, op, items, failures>>

RemotePush ==
    /\ MayCommit /\ made' = made + 1
    /\ remote' = remote \union {New}
    /\ UNCHANGED <<ref, config, elsewhere, store, lock, op, items, failures, landed>>

OutsideConfig ==
    /\ MayCommit /\ made' = made + 1 /\ config' = config + 1
    /\ UNCHANGED <<ref, remote, elsewhere, store, lock, op, items, failures, landed>>

\* setRepositoryUpstream, under the lock, and not while a plan is pending.
SetUpstream ==
    /\ lock = Nobody /\ plan = NoPlan
    /\ MayCommit /\ made' = made + 1 /\ config' = config + 1
    /\ UNCHANGED <<ref, remote, elsewhere, store, lock, op, items, failures, landed>>

Resolve ==
    /\ checkout.merging /\ ~checkout.resolved
    /\ checkout' = [checkout EXCEPT !.resolved = TRUE]
    /\ UNCHANGED <<ref, remote, config, elsewhere, plan, recovery, retained, planned, lock, op, items, made, failures, landed>>

\* A commit in the checkout; it concludes a merge.
UserCommit ==
    /\ checkout.there /\ MayCommit /\ made' = made + 1
    /\ checkout' = [checkout EXCEPT !.merging = FALSE, !.resolved = FALSE, !.dirty = FALSE,
                       !.head = @ \union {New} \union (IF checkout.merging THEN plan.up ELSE {})]
    /\ UNCHANGED <<ref, remote, config, elsewhere, plan, recovery, retained, planned, lock, op, items, failures, landed>>

UserEdit ==
    /\ checkout.there /\ ~checkout.dirty /\ MayCommit /\ made' = made + 1
    /\ checkout' = [checkout EXCEPT !.dirty = TRUE]
    /\ UNCHANGED <<ref, remote, config, elsewhere, plan, recovery, retained, planned, lock, op, items, failures, landed>>

UserClean ==
    /\ checkout.dirty
    /\ checkout' = [checkout EXCEPT !.dirty = FALSE]
    /\ UNCHANGED <<ref, remote, config, elsewhere, plan, recovery, retained, planned, lock, op, items, made, failures, landed>>

\* The checkout is put on a branch or begins a rebase, and is back as it was.
UserAside ==
    /\ checkout.there /\ ~checkout.aside /\ MayCommit /\ made' = made + 1
    /\ checkout' = [checkout EXCEPT !.aside = TRUE]
    /\ UNCHANGED <<ref, remote, config, elsewhere, plan, recovery, retained, planned, lock, op, items, failures, landed>>

UserBack ==
    /\ checkout.aside
    /\ checkout' = [checkout EXCEPT !.aside = FALSE]
    /\ UNCHANGED <<ref, remote, config, elsewhere, plan, recovery, retained, planned, lock, op, items, made, failures, landed>>

\* A Git operation in another item's checkout.
GitBegins ==
    /\ ~elsewhere /\ MayCommit /\ made' = made + 1
    /\ elsewhere' = TRUE
    /\ UNCHANGED <<ref, remote, config, store, lock, op, items, failures, landed>>

GitEnds ==
    /\ elsewhere
    /\ elsewhere' = FALSE
    /\ UNCHANGED <<ref, remote, config, store, lock, op, items, made, failures, landed>>

----------------------------------------------------------------------------
SyncStep(p) ==
    \/ Access(p) \/ Fetch(p) \/ SavePlan(p) \/ Resume(p) \/ AddCheckout(p) \/ Merge(p) \/ Prepare(p)
    \/ Backup(p) \/ Apply(p) \/ SaveApplied(p) \/ Remove(p) \/ Abort(p) \/ Forget(p)

MergeStep(i) == LockMerge(i) \/ Rebase(i) \/ Conflict(i) \/ Check(i) \/ Update(i)

Environment ==
    \/ OutsideCommit \/ RemotePush \/ OutsideConfig \/ SetUpstream
    \/ Resolve \/ UserCommit \/ UserEdit \/ UserClean \/ UserAside \/ UserBack
    \/ GitBegins \/ GitEnds
    \/ \E i \in Items : CommitIn(i) \/ EditIn(i)

Next ==
    \/ \E u \in Users : BeginReset(u) \/ \E mode \in {"ff", "merge", "continue", "abort"} : Begin(u, mode)
    \/ \E p \in Procs : SyncStep(p) \/ Fail(p)
    \/ \E i \in Items : MergeStep(i) \/ \E isLocal \in BOOLEAN : StartMerge(i, isLocal)
    \/ Environment

Progress == (\E p \in Procs : SyncStep(p)) \/ (\E i \in Items : MergeStep(i))

\* Operations proceed.  Users resolve conflicts, clean up the checkout, put it
\* back, end what Git does elsewhere, and ask for both ways to end a pending plan
\* again and again.
Fairness ==
    /\ WF_vars(Progress)
    /\ WF_vars(Resolve) /\ WF_vars(UserClean) /\ WF_vars(UserBack) /\ WF_vars(GitEnds)
    /\ \A u \in Users : SF_vars(Begin(u, "continue")) /\ SF_vars(Begin(u, "abort"))

Spec == Init /\ [][Next]_vars /\ Fairness
----------------------------------------------------------------------------
(* Properties. *)

Tips == SUBSET Commits

TypeOK ==
    /\ ref \in Tips /\ remote \in Tips /\ landed \in Tips
    /\ config \in 1 .. MaxCommits + 1 /\ elsewhere \in BOOLEAN /\ made \in 0 .. MaxCommits
    /\ plan.id \in 0 .. planned /\ planned \in 0 .. MaxPlans
    /\ plan.phase \in {"none", "merging", "prepared", "applied"}
    /\ recovery \in [1 .. MaxPlans -> Tips] /\ retained \in [1 .. MaxPlans -> Tips]
    /\ checkout.there => plan.mode = "merge" /\ plan # NoPlan
    /\ lock \in Procs \union {Nobody}
    /\ \A p \in Procs : lock = p <=> op[p].pc \notin {"idle", "access", "lock"}
    /\ \A i \in Items : source[i].head \in Tips /\ authored[i] \subseteq 1 .. MaxCommits

\* No commit that was ever on the integration branch is lost: it is on the
\* branch or under a recovery ref, whatever is reset, reconciled, merged,
\* interrupted and continued, also when the branch moves outside Wi.
LandedCommitsAreKept == landed \subseteq ref \union UNION {recovery[n] : n \in 1 .. MaxPlans}

\* The branch only grows, except by a reset, which takes it from exactly the
\* tip its plan protects to exactly the upstream tip it names.
HistoryOnlyGrows ==
    \/ ref \subseteq ref'
    \/ plan.mode = "reset" /\ ref = plan.old /\ ref' = plan.up /\ recovery[plan.id] = ref

\* A step in which the item's merge moves the branch.
Lands(i) == op[i].pc = "update" /\ op'[i].pc = "idle" /\ ref' # ref

\* Merging loses none of the item's work: every change committed in its
\* checkout is still on its branch, but for one committed during a merge that
\* rebased in place and then rolled back: failMergeWithRollback resets to the
\* tip that the merge began with.
ItemWorkSurvives ==
    \A i \in Items : authored[i] \subseteq Changes(source[i].head) \union late[i]

\* No work is lost, neither the team's nor the item's.
NoWorkIsLost == LandedCommitsAreKept /\ ItemWorkSurvives

\* What a merge lands is all that the item had committed when it began, on top
\* of what the branch holds, and it lands nothing while a reconciliation is
\* pending, not even one that a stop left behind or that began in between.
MergesLandWhole ==
    \A i \in Items : Lands(i) =>
        plan = NoPlan /\ Changes(op[i].old) \union Changes(ref) \subseteq Changes(ref')

\* Whoever moves the branch moves it by these two rules.
BranchMovesByRule == [][HistoryOnlyGrows /\ MergesLandWhole]_vars

\* Neither continuing nor aborting gets on: the user committed to the
\* checkout after the plan was applied, or after an abort kept its tip.
NeedsTheUser ==
    /\ checkout.there
    /\ \/ Seen(plan).phase = "applied" /\ checkout.head # plan.new
       \/ retained[plan.id] \notin {NoTip, checkout.head}

\* A pending plan can be ended by asking: whatever stopped it and whatever
\* moved meanwhile, continuing or aborting it ends it in the end, unless the
\* user's own commits in the checkout are in the way.
PendingPlansEnd == plan # NoPlan ~> (plan = NoPlan \/ NeedsTheUser)
=============================================================================
