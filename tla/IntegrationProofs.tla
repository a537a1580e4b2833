-------------------------- MODULE IntegrationProofs --------------------------
(***************************************************************************)
(* Proofs about Integration, for any users and items, any number of        *)
(* changes, plans and stops: no commit that was on the integration branch  *)
(* and no work of an item is lost, and the branch moves only by the rules. *)
(***************************************************************************)
EXTENDS Integration, TLAPS

----------------------------------------------------------------------------
(* The inductive invariant *)

Plans == [id : 0 .. MaxPlans, mode : {"ff", "merge", "reset", "continue", "abort"},
          phase : {"none", "merging", "prepared", "applied"}, old : Tips, up : Tips, new : Tips, config : Nat]

Free == {"idle", "access", "lock"}
Resuming == {"resume", "merge", "prepare", "backup", "apply", "applied", "remove", "abort", "forget"}
Merging == {"rebase", "check", "update"}

Operations == [pc : Free \union {"fetch", "save"} \union Resuming \union Merging,
               mode : {"ff", "merge", "reset", "continue", "abort"}, local : Tips, up : Tips, config : Nat,
               plan : Plans, old : Tips, target : Tips, new : Tips, inplace : BOOLEAN]
Checkouts == [there : BOOLEAN, head : Tips, merging : BOOLEAN, resolved : BOOLEAN, dirty : BOOLEAN,
              aside : BOOLEAN]

\* What the variables hold.
StoreTyped ==
    /\ ref \in Tips /\ remote \in Tips /\ landed \in Tips
    /\ config \in 1 .. MaxCommits + 1 /\ made \in 0 .. MaxCommits /\ config <= made + 1
    /\ elsewhere \in BOOLEAN
    /\ plan \in Plans /\ planned \in 0 .. MaxPlans /\ checkout \in Checkouts
    /\ recovery \in [1 .. MaxPlans -> Tips] /\ retained \in [1 .. MaxPlans -> Tips]
    /\ lock \in Procs \union {Nobody}
ItemsTyped ==
    /\ source \in [Items -> [head : Tips, dirty : BOOLEAN]]
    /\ authored \in [Items -> SUBSET (1 .. MaxCommits)]
    /\ late \in [Items -> SUBSET (1 .. MaxCommits)]

\* Only a reconciliation has a merge under way, and a reset has no tip but the
\* upstream's.
Sound(pl) ==
    /\ pl.phase = "merging" => pl.mode = "merge"
    /\ pl.mode = "reset" => pl.new = pl.up

\* The plan that is saved is sound and numbered, and only a reconciliation has a
\* checkout.
PlanStands ==
    /\ Sound(plan)
    /\ plan = NoPlan \/ plan.id \in 1 .. planned
    /\ checkout.there => plan.mode = "merge"

\* Who holds the lock is past its first steps.
LockHeld(p) == lock = p <=> op[p].pc \notin Free

\* The synchronization that holds the lock has the plan that is saved: its
\* branch and its tips, and, before it moves the branch, their recovery ref.
SyncAgrees(p) ==
    LET o == op[p] IN
    /\ Sound(o.plan)
    /\ o.pc = "access" => o.mode \notin {"continue", "abort"}
    /\ o.pc \in {"fetch", "save"} \union Merging => plan = NoPlan
    /\ o.pc = "save" => o.plan.id = planned + 1
    /\ o.pc \in Resuming =>
          /\ plan # NoPlan
          /\ plan.id = o.plan.id /\ plan.mode = o.plan.mode /\ plan.old = o.plan.old /\ plan.up = o.plan.up
    /\ o.pc \in {"merge", "prepare"} => o.plan.phase = "merging"
    /\ o.pc = "apply" =>
          /\ recovery[o.plan.id] = o.plan.old
          /\ o.plan.mode # "reset" => o.plan.old \subseteq o.plan.new
    /\ o.pc = "forget" => ~checkout.there

\* A merge that holds the lock knows the work that a rollback would restore, and
\* has carried it over.
MergeAgrees(i) ==
    LET o == op[i] IN
    /\ AtRisk(i) => authored[i] \subseteq Changes(o.old) \union late[i]
    /\ o.pc = "rebase" => o.old \subseteq source[i].head
    /\ o.pc \in {"check", "update"} => Changes(o.old) \subseteq Changes(o.new)
    /\ o.pc = "update" => o.target \subseteq o.new

IntegrationInv ==
    /\ StoreTyped /\ ItemsTyped
    /\ op \in [Procs -> Operations]
    /\ PlanStands
    /\ \A p \in Procs : LockHeld(p) /\ SyncAgrees(p)
    /\ \A i \in Items : MergeAgrees(i)
    /\ LandedCommitsAreKept
    /\ ItemWorkSurvives

----------------------------------------------------------------------------
(* Tips and records *)

LEMMA Nothing == NoTip \in Tips /\ NoPlan \in Plans /\ NoCheckout \in Checkouts /\ Idle \in Operations
<1>1. NoTip \in Tips
  BY DEF NoTip, Tips
<1>2. NoPlan \in Plans
  BY <1>1, BoundsAssumption DEF NoPlan, Plans
<1>3. NoCheckout \in Checkouts
  BY <1>1 DEF NoCheckout, Checkouts
<1>4. Idle \in Operations
  BY <1>1, <1>2 DEF Idle, Operations, Free
<1> QED BY <1>1, <1>2, <1>3, <1>4

\* The changes of a tip, and of two.
LEMMA ChangesOfTips ==
    /\ \A s, t : Changes(s \union t) = Changes(s) \union Changes(t)
    /\ \A s, t : s \subseteq t => Changes(s) \subseteq Changes(t)
    /\ \A c, n : Changes({<<c, n>>}) = {c}
BY DEF Changes

\* Rebasing a tip keeps its changes, and the base.
LEMMA RebasedKeeps ==
    ASSUME NEW tip, NEW base
    PROVE  /\ base \subseteq Rebased(tip, base)
           /\ Changes(tip) \union Changes(base) \subseteq Changes(Rebased(tip, base))
<1>1. base \subseteq Rebased(tip, base)
  BY DEF Rebased
<1>2. ASSUME NEW c \in tip PROVE c[1] \in Changes(Rebased(tip, base))
  <2>1. CASE c \in base
    BY <2>1 DEF Rebased, Changes
  <2>2. CASE c \notin base
    <3>1. c[1] \in Changes(tip \ base)
      BY <1>2, <2>2 DEF Changes
    <3>2. <<c[1], made + 1>> \in Rebased(tip, base)
      BY <3>1 DEF Rebased
    <3> QED BY <3>2 DEF Changes
  <2> QED BY <2>1, <2>2
<1> QED BY <1>1, <1>2 DEF Changes

\* New commits have numbers within the bound.
LEMMA NewCommits ==
    ASSUME StoreTyped, MayCommit
    PROVE  /\ made + 1 \in 1 .. MaxCommits
           /\ New \in Commits
           /\ \A tip, base \in Tips : Rebased(tip, base) \in Tips
<1>1. made + 1 \in 1 .. MaxCommits
  BY BoundsAssumption DEF StoreTyped, MayCommit
<1>2. made + 1 \in 0 .. MaxCommits + MaxPlans
  BY <1>1, BoundsAssumption
<1>3. New \in Commits
  BY <1>2 DEF New, Commits
<1>4. ASSUME NEW tip \in Tips, NEW base \in Tips PROVE Rebased(tip, base) \in Tips
  <2>1. ASSUME NEW c \in Changes(tip \ base) PROVE <<c, made + 1>> \in Commits
    <3>1. PICK d \in Commits : c = d[1]
      BY <1>4, <2>1 DEF Changes, Tips
    <3>2. d[1] \in 0 .. MaxCommits + MaxPlans
      BY DEF Commits
    <3> QED BY <1>2, <3>1, <3>2 DEF Commits
  <2> QED BY <1>4, <2>1 DEF Rebased, Tips
<1> QED BY <1>1, <1>3, <1>4

----------------------------------------------------------------------------
(* One process at a time *)

\* What a step of p does to its own operation and to the lock.
Moves(p) ==
    /\ op' = [op EXCEPT ![p] = op'[p]]
    /\ op'[p] \in Operations
    /\ lock' = lock \/ (lock = Nobody /\ lock' = p) \/ (lock = p /\ lock' = Nobody)
    /\ LockHeld(p)' /\ SyncAgrees(p)'
    /\ p \in Items => MergeAgrees(p)'

\* A step of p leaves alone what only the holder of the lock changes, and what is
\* known of the work of other items.
Guarded == <<plan, planned, recovery, checkout.there, source, authored>>
Spares(p) == UNCHANGED Guarded /\ \A k \in Items \ {p} : late'[k] = late[k]

LEMMA OneMoves ==
    ASSUME IntegrationInv, NEW p \in Procs, Moves(p), lock = p \/ Spares(p),
           StoreTyped', ItemsTyped', PlanStands', LandedCommitsAreKept', ItemWorkSurvives'
    PROVE  IntegrationInv'
<1>1. op' \in [Procs -> Operations] /\ \A q \in Procs \ {p} : op'[q] = op[q]
  BY DEF IntegrationInv, Moves
<1>2. ASSUME NEW q \in Procs \ {p} PROVE LockHeld(q)'
  BY <1>1, <1>2, NamesAssumption DEF IntegrationInv, Moves, LockHeld, Procs
<1>3. ASSUME NEW q \in Procs \ {p} PROVE SyncAgrees(q)'
  <2>1. SyncAgrees(q) /\ op'[q] = op[q]
    BY <1>1 DEF IntegrationInv
  <2>2. CASE lock = p
    <3>1. op[q].pc \in Free
      BY <1>3, <2>2 DEF IntegrationInv, LockHeld
    <3> QED BY <2>1, <3>1 DEF SyncAgrees, Free, Resuming, Merging
  <2>3. CASE Spares(p)
    BY <2>1, <2>3 DEF SyncAgrees, Spares, Guarded
  <2> QED BY <2>2, <2>3
<1>4. ASSUME NEW i \in Items \ {p} PROVE MergeAgrees(i)'
  <2>1. MergeAgrees(i) /\ i \in Procs /\ op'[i] = op[i]
    BY <1>1 DEF IntegrationInv, Procs
  <2>2. CASE lock = p
    <3>1. op[i].pc \in Free
      BY <1>4, <2>1, <2>2 DEF IntegrationInv, LockHeld
    <3> QED BY <2>1, <3>1 DEF MergeAgrees, AtRisk, Free
  <2>3. CASE Spares(p)
    BY <1>4, <2>1, <2>3 DEF MergeAgrees, AtRisk, Spares, Guarded
  <2> QED BY <2>2, <2>3
<1> QED BY <1>1, <1>2, <1>3, <1>4 DEF IntegrationInv, Moves

\* An operation that ends gives up the lock if it has it.
LEMMA RefusedMoves ==
    ASSUME IntegrationInv, NEW p \in Procs, Refuse(p)
    PROVE  Moves(p)
<1>1. op' = [op EXCEPT ![p] = Idle] /\ op'[p] = Idle /\ Idle \in Operations
  BY Nothing DEF Refuse, IntegrationInv
<1>2. lock' # p /\ (lock' = lock \/ (lock = p /\ lock' = Nobody))
  BY NamesAssumption DEF Refuse, Unlock, Procs
<1>3. Idle.pc = "idle" /\ Sound(Idle.plan)
  BY DEF Idle, NoPlan, Sound
<1> QED
  BY <1>1, <1>2, <1>3 DEF Moves, LockHeld, SyncAgrees, MergeAgrees, AtRisk, Free, Resuming, Merging

LEMMA SucceededMoves ==
    ASSUME IntegrationInv, NEW p \in Procs, NEW tip \in Tips, Succeed(p, tip)
    PROVE  Moves(p)
<1>1. op[p] \in Operations
  BY DEF IntegrationInv
<1>2. /\ op' = [op EXCEPT ![p] = op'[p]]
      /\ op'[p] = Idle \/ op'[p] = [Idle EXCEPT !.pc = "lock", !.local = tip, !.config = op[p].config]
  BY DEF Succeed, IntegrationInv
<1>3. op'[p] \in Operations
  BY <1>1, <1>2, Nothing DEF Operations, Free
<1>4. lock' # p /\ (lock' = lock \/ (lock = p /\ lock' = Nobody))
  BY NamesAssumption DEF Succeed, Unlock, Procs
<1>5. op'[p].pc \in {"idle", "lock"} /\ op'[p].plan = NoPlan
  <2>1. CASE op'[p] = Idle
    BY <2>1 DEF Idle
  <2>2. CASE op'[p] = [Idle EXCEPT !.pc = "lock", !.local = tip, !.config = op[p].config]
    BY <2>2 DEF Idle
  <2> QED BY <1>2, <2>1, <2>2
<1>6. Sound(NoPlan)
  BY DEF NoPlan, Sound
<1> QED
  BY <1>2, <1>3, <1>4, <1>5, <1>6 DEF Moves, LockHeld, SyncAgrees, MergeAgrees, AtRisk, Free, Resuming, Merging

\* An operation that goes on with the lock, from one of its steps to the next.
LEMMA GoesOn ==
    ASSUME IntegrationInv, NEW p \in Procs, NEW pc \in {"fetch", "save"} \union Resuming \union Merging,
           At(p, pc), op[p].pc \notin Free, UNCHANGED lock
    PROVE  /\ op' = [op EXCEPT ![p] = op'[p]] /\ op'[p] \in Operations /\ LockHeld(p)' /\ lock = p
           /\ op'[p] = [op[p] EXCEPT !.pc = pc] /\ op'[p].pc = pc /\ op'[p].plan = op[p].plan
<1>1. op[p] \in Operations
  BY DEF IntegrationInv
<1>2. op' = [op EXCEPT ![p] = op'[p]] /\ op'[p] = [op[p] EXCEPT !.pc = pc]
  BY DEF At, IntegrationInv
<1>3. op'[p] \in Operations /\ op'[p].pc = pc /\ op'[p].plan = op[p].plan
  BY <1>1, <1>2 DEF Operations
<1>4. lock = p /\ LockHeld(p)'
  BY <1>3 DEF IntegrationInv, LockHeld, Free, Resuming, Merging
<1> QED BY <1>2, <1>3, <1>4

----------------------------------------------------------------------------
(* The steps of a synchronization *)

\* Steps that change an operation and the lock only.
LEMMA OnlyMoves ==
    ASSUME IntegrationInv, NEW p \in Procs, Moves(p),
           UNCHANGED <<ref, remote, config, elsewhere, store, items, made, landed>>
    PROVE  IntegrationInv'
<1>1. StoreTyped'
  <2>1. lock' \in Procs \union {Nobody}
    BY DEF Moves, IntegrationInv, StoreTyped
  <2> QED BY <2>1 DEF IntegrationInv, StoreTyped, store
<1>2. ItemsTyped' /\ PlanStands' /\ LandedCommitsAreKept' /\ ItemWorkSurvives'
  BY DEF IntegrationInv, ItemsTyped, PlanStands, LandedCommitsAreKept, ItemWorkSurvives, store, items
<1>3. Spares(p)
  BY DEF Spares, Guarded, store, items
<1> QED BY <1>1, <1>2, <1>3, OneMoves

\* An operation that starts.
LEMMA BeginMoves ==
    ASSUME IntegrationInv, NEW u \in Users, NEW mode \in {"ff", "merge", "continue", "abort"}, Begin(u, mode)
    PROVE  IntegrationInv'
<1>1. /\ u \in Procs /\ lock = Nobody /\ lock' = u /\ plan \in Plans /\ u \notin Items
      /\ UNCHANGED <<ref, remote, config, elsewhere, store, items, made, landed>>
  BY NamesAssumption DEF Begin, Admits, Procs, IntegrationInv, StoreTyped
<1>2. /\ op' = [op EXCEPT ![u] = op'[u]]
      /\ op'[u] = [Idle EXCEPT !.mode = mode, !.plan = plan, !.pc = IF plan = NoPlan THEN "fetch" ELSE "resume"]
  BY <1>1 DEF Begin, IntegrationInv
<1>3. op'[u] \in Operations /\ op'[u].plan = plan
  BY <1>1, <1>2, Nothing DEF Operations, Resuming
<1>4. op'[u].pc = IF plan = NoPlan THEN "fetch" ELSE "resume"
  BY <1>2 DEF Idle
<1>5. UNCHANGED <<plan, planned, recovery, checkout>> /\ Sound(plan)
  BY <1>1 DEF store, IntegrationInv, PlanStands
<1>6. Moves(u)
  BY <1>1, <1>2, <1>3, <1>4, <1>5
  DEF Moves, LockHeld, SyncAgrees, Free, Resuming, Merging
<1> QED BY <1>1, <1>6, OnlyMoves

LEMMA ResetMoves ==
    ASSUME IntegrationInv, NEW u \in Users, BeginReset(u)
    PROVE  IntegrationInv'
<1>1. /\ u \in Procs /\ u \notin Items /\ lock = Nobody /\ lock' # u /\ ref \in Tips /\ remote \in Tips
      /\ UNCHANGED <<ref, remote, config, elsewhere, store, items, made, landed, lock>>
  BY NamesAssumption DEF BeginReset, Procs, IntegrationInv, StoreTyped
<1>2. /\ op' = [op EXCEPT ![u] = op'[u]]
      /\ op'[u] = [Idle EXCEPT !.pc = "access", !.mode = "reset", !.local = ref, !.up = remote]
  BY <1>1 DEF BeginReset, IntegrationInv
<1>3. op'[u] \in Operations /\ op'[u].plan = NoPlan /\ op'[u].pc = "access" /\ Sound(NoPlan)
      /\ op'[u].mode = "reset"
  BY <1>1, <1>2, Nothing DEF Operations, Free, Idle, Sound, NoPlan
<1>4. Moves(u)
  BY <1>1, <1>2, <1>3 DEF Moves, LockHeld, SyncAgrees, Free, Resuming, Merging
<1> QED BY <1>1, <1>4, OnlyMoves

LEMMA StartMoves ==
    ASSUME IntegrationInv, NEW i \in Items, NEW isLocal, StartMerge(i, isLocal)
    PROVE  IntegrationInv'
<1>1. /\ i \in Procs /\ op[i].pc \in Free /\ config \in Nat
      /\ UNCHANGED <<ref, remote, config, elsewhere, store, items, made, landed, lock>>
  BY BoundsAssumption DEF StartMerge, Procs, Free, IntegrationInv, StoreTyped
<1>2. lock # i
  BY <1>1 DEF IntegrationInv, LockHeld
<1>3. /\ op' = [op EXCEPT ![i] = op'[i]]
      /\ op'[i] = [Idle EXCEPT !.pc = IF isLocal THEN "lock" ELSE "access", !.config = config]
  BY <1>1 DEF StartMerge, IntegrationInv
<1>4. op'[i] \in Operations /\ op'[i].plan = NoPlan /\ op'[i].pc \in {"lock", "access"} /\ Sound(NoPlan)
      /\ op'[i].mode = "ff"
  BY <1>1, <1>3, Nothing DEF Operations, Free, Idle, Sound, NoPlan
<1>5. Moves(i)
  BY <1>1, <1>2, <1>3, <1>4 DEF Moves, LockHeld, SyncAgrees, MergeAgrees, AtRisk, Free, Resuming, Merging
<1> QED BY <1>1, <1>5, OnlyMoves

LEMMA AccessMoves ==
    ASSUME IntegrationInv, NEW p \in Procs, Access(p)
    PROVE  IntegrationInv'
<1>1. UNCHANGED <<ref, remote, config, elsewhere, store, items, made, landed>> /\ op[p] \in Operations
  BY DEF Access, IntegrationInv
<1>2. CASE Refuse(p)
  BY <1>1, <1>2, RefusedMoves, OnlyMoves
<1>3. CASE lock = Nobody /\ Admits(op[p].mode) /\ lock' = p /\ At(p, "fetch")
  <2>1. op' = [op EXCEPT ![p] = op'[p]] /\ op'[p] = [op[p] EXCEPT !.pc = "fetch"]
    BY <1>3 DEF At, IntegrationInv
  <2>2. op'[p] \in Operations /\ op'[p].plan = op[p].plan /\ op'[p].pc = "fetch"
    BY <1>1, <2>1 DEF Operations
  <2>3. plan = NoPlan /\ UNCHANGED plan
    BY <1>1, <1>3 DEF Access, Admits, store, IntegrationInv, SyncAgrees
  <2>4. Sound(op[p].plan)
    BY DEF IntegrationInv, SyncAgrees
  <2>5. Moves(p)
    BY <1>3, <2>1, <2>2, <2>3, <2>4 DEF Moves, LockHeld, SyncAgrees, MergeAgrees, AtRisk, Free, Resuming,
       Merging
  <2> QED BY <1>1, <2>5, OnlyMoves
<1> QED BY <1>2, <1>3 DEF Access, Admits

\* What a synchronization with the lock relies on.
LEMMA Holding ==
    ASSUME IntegrationInv, NEW p \in Procs, op[p].pc \in {"fetch", "save"} \union Resuming
    PROVE  /\ lock = p /\ op[p].pc \notin Free /\ op[p].pc \notin Merging
           /\ op[p] \in Operations /\ op[p].plan \in Plans /\ SyncAgrees(p)
<1>1. op[p] \in Operations
  BY DEF IntegrationInv
<1>2. op[p].plan \in Plans
  BY <1>1 DEF Operations
<1> QED BY <1>1, <1>2 DEF IntegrationInv, LockHeld, Free, Resuming, Merging

LEMMA FetchMoves ==
    ASSUME IntegrationInv, NEW p \in Procs, Fetch(p)
    PROVE  IntegrationInv'
<1> DEFINE merges == op[p].mode = "merge" /\ ~(ref \subseteq remote) /\ ~(remote \subseteq ref)
           pl == [id |-> planned + 1, mode |-> op[p].mode, config |-> config,
                  phase |-> IF merges THEN "merging" ELSE "prepared",
                  old |-> ref, up |-> remote, new |-> IF merges THEN NoTip ELSE remote]
<1>1. /\ op[p].pc = "fetch" /\ ref \in Tips
      /\ UNCHANGED <<ref, remote, config, elsewhere, store, items, made, landed>>
  BY DEF Fetch, IntegrationInv, StoreTyped
<1>2. \/ Refuse(p) \/ Succeed(p, ref)
      \/ planned # MaxPlans /\ op' = [op EXCEPT ![p].pc = "save", ![p].plan = pl] /\ UNCHANGED lock
  BY DEF Fetch
<1>3. CASE Refuse(p)
  BY <1>1, <1>3, RefusedMoves, OnlyMoves
<1>4. CASE Succeed(p, ref)
  BY <1>1, <1>4, SucceededMoves, OnlyMoves
<1>5. CASE planned # MaxPlans /\ op' = [op EXCEPT ![p].pc = "save", ![p].plan = pl] /\ UNCHANGED lock
  <2>1. planned + 1 \in 0 .. MaxPlans /\ config \in Nat /\ ref \in Tips /\ remote \in Tips
    BY <1>5, BoundsAssumption DEF IntegrationInv, StoreTyped
  <2>2. lock = p /\ op[p] \in Operations /\ plan = NoPlan
    BY <1>1, Holding DEF SyncAgrees
  <2>3. op[p].mode \in {"ff", "merge", "reset", "continue", "abort"}
    BY <2>2 DEF Operations
  <2>4. pl \in Plans
    BY <2>1, <2>3, Nothing DEF Plans
  <2>5. Sound(pl) /\ pl.id = planned + 1
    BY DEF Sound
  <2> HIDE DEF pl
  <2>6. op' = [op EXCEPT ![p] = op'[p]] /\ op'[p] = [op[p] EXCEPT !.pc = "save", !.plan = pl]
    BY <1>5 DEF IntegrationInv
  <2>7. op'[p] \in Operations /\ op'[p].pc = "save" /\ op'[p].plan = pl
    BY <2>2, <2>4, <2>6 DEF Operations
  <2>8. Moves(p)
    BY <1>1, <1>5, <2>2, <2>5, <2>6, <2>7
    DEF Moves, LockHeld, SyncAgrees, MergeAgrees, AtRisk, Free, Resuming, Merging, store
  <2> QED BY <1>1, <2>8, OnlyMoves
<1> QED BY <1>2, <1>3, <1>4, <1>5

LEMMA SaveMoves ==
    ASSUME IntegrationInv, NEW p \in Procs, SavePlan(p)
    PROVE  IntegrationInv'
<1>1. /\ op[p].pc = "save" /\ At(p, "resume") /\ plan' = op[p].plan /\ planned' = planned + 1
      /\ UNCHANGED <<ref, remote, config, elsewhere, checkout, recovery, retained, lock, items, made, landed>>
  BY DEF SavePlan
<1>2. /\ lock = p /\ op[p].plan \in Plans /\ SyncAgrees(p) /\ op[p].pc \notin Free
      /\ plan = NoPlan /\ op[p].plan.id = planned + 1 /\ Sound(op[p].plan)
  BY <1>1, Holding DEF SyncAgrees
<1>3. planned \in 0 .. MaxPlans /\ op[p].plan.id \in 0 .. MaxPlans
  BY <1>2 DEF IntegrationInv, StoreTyped, Plans
<1>4. planned' \in 0 .. MaxPlans /\ plan'.id \in 1 .. planned' /\ plan' # NoPlan
  BY <1>1, <1>2, <1>3, BoundsAssumption DEF NoPlan
<1>5. Moves(p)
  <2>1. /\ op' = [op EXCEPT ![p] = op'[p]] /\ op'[p] \in Operations /\ LockHeld(p)'
        /\ op'[p].pc = "resume" /\ op'[p].plan = op[p].plan
    BY <1>1, <1>2, GoesOn DEF Resuming
  <2> QED BY <1>1, <1>2, <1>4, <2>1 DEF Moves, SyncAgrees, MergeAgrees, AtRisk, Resuming, Merging
<1>6. StoreTyped'
  BY <1>1, <1>2, <1>4 DEF IntegrationInv, StoreTyped
<1>7. PlanStands'
  BY <1>1, <1>2, <1>4 DEF IntegrationInv, PlanStands, NoPlan
<1>8. ItemsTyped' /\ LandedCommitsAreKept' /\ ItemWorkSurvives'
  BY <1>1 DEF IntegrationInv, ItemsTyped, LandedCommitsAreKept, ItemWorkSurvives, items
<1> QED BY <1>2, <1>5, <1>6, <1>7, <1>8, OneMoves

LEMMA ResumeMoves ==
    ASSUME IntegrationInv, NEW p \in Procs, Resume(p)
    PROVE  IntegrationInv'
<1> DEFINE pl == Seen(op[p].plan)
           pc == CASE op[p].mode = "abort" -> "abort" [] pl.phase = "merging" -> "merge" [] OTHER -> "backup"
<1>1. /\ op[p].pc = "resume"
      /\ UNCHANGED <<ref, remote, config, elsewhere, store, items, made, landed>>
  BY DEF Resume
<1>2. Refuse(p) \/ (op' = [op EXCEPT ![p].plan = pl, ![p].pc = pc] /\ UNCHANGED lock)
  BY DEF Resume
<1>3. CASE Refuse(p)
  BY <1>1, <1>3, RefusedMoves, OnlyMoves
<1>4. CASE op' = [op EXCEPT ![p].plan = pl, ![p].pc = pc] /\ UNCHANGED lock
  <2>1. lock = p /\ op[p] \in Operations /\ op[p].plan \in Plans /\ SyncAgrees(p)
    BY <1>1, Holding DEF Resuming
  <2>2. pl \in Plans /\ Sound(pl) /\ pl.id = op[p].plan.id /\ pl.mode = op[p].plan.mode
        /\ pl.old = op[p].plan.old /\ pl.up = op[p].plan.up
    BY <2>1 DEF Seen, Plans, Sound, SyncAgrees
  <2>3. pc \in {"abort", "merge", "backup"} /\ (pc = "merge" => pl.phase = "merging")
    OBVIOUS
  <2> HIDE DEF pl, pc
  <2>4. op' = [op EXCEPT ![p] = op'[p]] /\ op'[p] = [op[p] EXCEPT !.pc = pc, !.plan = pl]
    BY <1>4 DEF IntegrationInv
  <2>5. op'[p] \in Operations /\ op'[p].pc = pc /\ op'[p].plan = pl
    BY <2>1, <2>2, <2>3, <2>4 DEF Operations, Resuming
  <2>6. UNCHANGED <<plan, planned, recovery, checkout>>
    BY <1>1 DEF store
  <2>7. Moves(p)
    BY <1>1, <1>4, <2>1, <2>2, <2>3, <2>4, <2>5, <2>6
    DEF Moves, LockHeld, SyncAgrees, MergeAgrees, AtRisk, Free, Resuming, Merging
  <2> QED BY <1>1, <2>7, OnlyMoves
<1> QED BY <1>2, <1>3, <1>4

LEMMA AddCheckoutMoves ==
    ASSUME IntegrationInv, NEW p \in Procs, AddCheckout(p)
    PROVE  IntegrationInv'
<1>1. /\ op[p].pc = "merge" /\ checkout' = [NoCheckout EXCEPT !.there = TRUE, !.head = op[p].plan.old]
      /\ UNCHANGED <<ref, remote, config, elsewhere, plan, recovery, retained, planned, lock, op, items, made, landed>>
  BY DEF AddCheckout
<1>2. lock = p /\ op[p] \in Operations /\ op[p].plan \in Plans /\ SyncAgrees(p) /\ op[p].pc \notin Merging
  BY <1>1, Holding DEF Resuming
<1>3. plan.mode = "merge"
  BY <1>1, <1>2 DEF SyncAgrees, Sound, Resuming
<1>4. checkout' \in Checkouts
  BY <1>1, <1>2, Nothing DEF Checkouts, Plans
<1>5. Moves(p)
  BY <1>1, <1>2 DEF Moves, LockHeld, SyncAgrees, MergeAgrees, AtRisk, IntegrationInv, items
<1>6. StoreTyped' /\ PlanStands'
  BY <1>1, <1>3, <1>4 DEF IntegrationInv, StoreTyped, PlanStands
<1>7. ItemsTyped' /\ LandedCommitsAreKept' /\ ItemWorkSurvives'
  BY <1>1 DEF IntegrationInv, ItemsTyped, LandedCommitsAreKept, ItemWorkSurvives, items
<1> QED BY <1>2, <1>5, <1>6, <1>7, OneMoves

\* Steps that change the checkout besides.
LEMMA CheckoutMoves ==
    ASSUME IntegrationInv, NEW p \in Procs, Moves(p), lock = p, checkout' \in Checkouts,
           checkout'.there => checkout.there,
           UNCHANGED <<ref, remote, config, elsewhere, plan, recovery, planned, items, made, landed>>,
           retained' \in [1 .. MaxPlans -> Tips]
    PROVE  IntegrationInv'
<1>1. StoreTyped'
  <2>1. lock' \in Procs \union {Nobody}
    BY DEF Moves, IntegrationInv, StoreTyped
  <2> QED BY <2>1 DEF IntegrationInv, StoreTyped
<1>2. ItemsTyped' /\ PlanStands' /\ LandedCommitsAreKept' /\ ItemWorkSurvives'
  BY DEF IntegrationInv, ItemsTyped, PlanStands, LandedCommitsAreKept, ItemWorkSurvives, items
<1> QED BY <1>1, <1>2, OneMoves

LEMMA MergeMoves ==
    ASSUME IntegrationInv, NEW p \in Procs, Merge(p)
    PROVE  IntegrationInv'
<1> DEFINE pl == op[p].plan
<1>1. /\ op[p].pc = "merge" /\ checkout.there
      /\ UNCHANGED <<ref, remote, config, elsewhere, plan, recovery, retained, planned, items, made, landed>>
  BY DEF Merge
<1>2. \/ /\ At(p, "prepare") /\ UNCHANGED lock
         /\ \/ UNCHANGED checkout
            \/ checkout' = [checkout EXCEPT !.head = pl.old \union pl.up \union {MergeOf(pl)},
                                            !.merging = FALSE, !.resolved = FALSE]
      \/ Refuse(p) /\ checkout' = [checkout EXCEPT !.merging = TRUE]
  BY DEF Merge
<1>3. /\ lock = p /\ op[p] \in Operations /\ pl \in Plans /\ SyncAgrees(p) /\ op[p].pc \notin Free
      /\ checkout \in Checkouts /\ retained' \in [1 .. MaxPlans -> Tips]
  BY <1>1, Holding DEF Resuming, IntegrationInv, StoreTyped
<1>4. pl.old \union pl.up \union {MergeOf(pl)} \in Tips
  <2>1. pl.id \in 0 .. MaxPlans /\ pl.old \in Tips /\ pl.up \in Tips
    BY <1>3 DEF Plans
  <2>2. MaxCommits + pl.id \in 0 .. MaxCommits + MaxPlans
    BY <2>1, BoundsAssumption
  <2> QED BY <2>1, <2>2 DEF MergeOf, Tips, Commits
<1>5. checkout' \in Checkouts
  BY <1>2, <1>3, <1>4 DEF Checkouts
<1>6. Moves(p)
  <2>1. CASE At(p, "prepare") /\ UNCHANGED lock
    <3>1. /\ op' = [op EXCEPT ![p] = op'[p]] /\ op'[p] \in Operations /\ LockHeld(p)'
          /\ op'[p].pc = "prepare" /\ op'[p].plan = op[p].plan
      BY <1>3, <2>1, GoesOn DEF Resuming
    <3> QED BY <1>1, <1>3, <2>1, <3>1 DEF Moves, SyncAgrees, MergeAgrees, AtRisk, Resuming, Merging
  <2>2. CASE Refuse(p)
    BY <2>2, RefusedMoves
  <2> QED BY <1>2, <2>1, <2>2
<1> QED BY <1>1, <1>3, <1>5, <1>6, CheckoutMoves

LEMMA PrepareMoves ==
    ASSUME IntegrationInv, NEW p \in Procs, Prepare(p)
    PROVE  IntegrationInv'
<1> DEFINE pl == [op[p].plan EXCEPT !.new = checkout.head, !.phase = "prepared"]
<1>1. /\ op[p].pc = "prepare"
      /\ UNCHANGED <<ref, remote, config, elsewhere, checkout, recovery, retained, planned, items, made, landed>>
  BY DEF Prepare
<1>2. \/ Refuse(p) /\ UNCHANGED plan
      \/ plan' = pl /\ op' = [op EXCEPT ![p].pc = "backup", ![p].plan = pl] /\ UNCHANGED lock
  BY DEF Prepare
<1>3. /\ lock = p /\ op[p] \in Operations /\ op[p].plan \in Plans /\ SyncAgrees(p)
      /\ checkout.head \in Tips /\ retained' \in [1 .. MaxPlans -> Tips]
  BY <1>1, Holding DEF Resuming, IntegrationInv, StoreTyped, Checkouts
<1>4. CASE Refuse(p) /\ UNCHANGED plan
  BY <1>1, <1>4, RefusedMoves, OnlyMoves DEF store
<1>5. CASE plan' = pl /\ op' = [op EXCEPT ![p].pc = "backup", ![p].plan = pl] /\ UNCHANGED lock
  <2>1. /\ pl \in Plans /\ pl.id = op[p].plan.id /\ pl.mode = op[p].plan.mode
        /\ pl.old = op[p].plan.old /\ pl.up = op[p].plan.up /\ pl.phase = "prepared"
    BY <1>3 DEF Plans
  <2>2. op[p].plan.mode = "merge" /\ op[p].plan.id = plan.id /\ plan # NoPlan
    BY <1>1, <1>3 DEF SyncAgrees, Sound, Resuming
  <2>3. Sound(pl) /\ pl.id \in 1 .. planned /\ pl # NoPlan
    BY <2>1, <2>2 DEF Sound, IntegrationInv, PlanStands, NoPlan
  <2> HIDE DEF pl
  <2>4. op' = [op EXCEPT ![p] = op'[p]] /\ op'[p] = [op[p] EXCEPT !.pc = "backup", !.plan = pl]
    BY <1>5 DEF IntegrationInv
  <2>5. op'[p] \in Operations /\ op'[p].pc = "backup" /\ op'[p].plan = pl
    BY <1>3, <2>1, <2>4 DEF Operations, Resuming
  <2>6. Moves(p)
    BY <1>3, <1>5, <2>3, <2>4, <2>5
    DEF Moves, LockHeld, SyncAgrees, MergeAgrees, AtRisk, Free, Resuming, Merging
  <2>7. StoreTyped' /\ PlanStands'
    BY <1>1, <1>5, <2>1, <2>2, <2>3 DEF IntegrationInv, StoreTyped, PlanStands
  <2>8. ItemsTyped' /\ LandedCommitsAreKept' /\ ItemWorkSurvives'
    BY <1>1 DEF IntegrationInv, ItemsTyped, LandedCommitsAreKept, ItemWorkSurvives, items
  <2> QED BY <1>3, <2>6, <2>7, <2>8, OneMoves
<1> QED BY <1>2, <1>4, <1>5

LEMMA BackupMoves ==
    ASSUME IntegrationInv, NEW p \in Procs, Backup(p)
    PROVE  IntegrationInv'
<1> DEFINE pl == op[p].plan
<1>1. /\ op[p].pc = "backup"
      /\ UNCHANGED <<ref, remote, config, elsewhere, plan, checkout, retained, planned, items, made, landed>>
  BY DEF Backup
<1>2. \/ Refuse(p) /\ UNCHANGED recovery
      \/ /\ recovery[pl.id] \in {NoTip, pl.old} /\ (pl.mode # "reset" => pl.old \union pl.up \subseteq pl.new)
         /\ recovery' = [recovery EXCEPT ![pl.id] = pl.old]
         /\ At(p, IF pl.phase = "applied" THEN "remove" ELSE "apply") /\ UNCHANGED lock
  BY DEF Backup, Protected
<1>3. /\ lock = p /\ op[p] \in Operations /\ pl \in Plans /\ SyncAgrees(p) /\ op[p].pc \notin Free
      /\ recovery \in [1 .. MaxPlans -> Tips] /\ planned \in 0 .. MaxPlans
  BY <1>1, Holding DEF Resuming, IntegrationInv, StoreTyped
<1>4. CASE Refuse(p) /\ UNCHANGED recovery
  BY <1>1, <1>4, RefusedMoves, OnlyMoves DEF store
<1>5. CASE /\ recovery[pl.id] \in {NoTip, pl.old} /\ (pl.mode # "reset" => pl.old \union pl.up \subseteq pl.new)
           /\ recovery' = [recovery EXCEPT ![pl.id] = pl.old]
           /\ At(p, IF pl.phase = "applied" THEN "remove" ELSE "apply") /\ UNCHANGED lock
  <2>1. plan # NoPlan /\ pl.id = plan.id /\ pl.id \in 1 .. MaxPlans /\ pl.old \in Tips
    <3>1. plan # NoPlan /\ pl.id = plan.id /\ pl.old \in Tips
      BY <1>1, <1>3 DEF SyncAgrees, Resuming, Plans
    <3>2. plan.id \in 1 .. planned
      BY <3>1 DEF IntegrationInv, PlanStands
    <3> QED BY <1>3, <3>1, <3>2, BoundsAssumption
  <2>2. recovery' \in [1 .. MaxPlans -> Tips] /\ recovery'[pl.id] = pl.old
        /\ \A n \in 1 .. MaxPlans : recovery[n] \subseteq recovery'[n]
    BY <1>3, <1>5, <2>1 DEF NoTip
  <2>3. Moves(p)
    <3>1. \E pc \in {"apply", "remove"} : At(p, pc)
      BY <1>5
    <3>2. PICK pc \in {"apply", "remove"} : At(p, pc)
      BY <3>1
    <3>3. /\ op' = [op EXCEPT ![p] = op'[p]] /\ op'[p] \in Operations /\ LockHeld(p)'
          /\ op'[p].pc = pc /\ op'[p].plan = op[p].plan
      BY <1>3, <1>5, <3>2, GoesOn DEF Resuming
    <3> QED BY <1>1, <1>3, <1>5, <2>2, <3>3 DEF Moves, SyncAgrees, MergeAgrees, AtRisk, Resuming, Merging
  <2>4. StoreTyped' /\ PlanStands'
    BY <1>1, <1>5, <2>2 DEF IntegrationInv, StoreTyped, PlanStands
  <2>5. LandedCommitsAreKept'
    BY <1>1, <2>2 DEF IntegrationInv, LandedCommitsAreKept
  <2>6. ItemsTyped' /\ ItemWorkSurvives'
    BY <1>1 DEF IntegrationInv, ItemsTyped, ItemWorkSurvives, items
  <2> QED BY <1>3, <2>3, <2>4, <2>5, <2>6, OneMoves
<1> QED BY <1>2, <1>4, <1>5

LEMMA ApplyMoves ==
    ASSUME IntegrationInv, NEW p \in Procs, Apply(p)
    PROVE  IntegrationInv'
<1> DEFINE pl == op[p].plan
<1>1. op[p].pc = "apply" /\ UNCHANGED <<remote, config, elsewhere, store, items, made>>
  BY DEF Apply
<1>2. \/ Refuse(p) /\ UNCHANGED <<ref, landed>>
      \/ ref = pl.old /\ ref' = pl.new /\ landed' = landed \union pl.new /\ At(p, "applied") /\ UNCHANGED lock
  BY DEF Apply, Swaps
<1>3. lock = p /\ op[p] \in Operations /\ pl \in Plans /\ SyncAgrees(p) /\ op[p].pc \notin Free
  BY <1>1, Holding DEF Resuming
<1>4. CASE Refuse(p) /\ UNCHANGED <<ref, landed>>
  BY <1>1, <1>4, RefusedMoves, OnlyMoves
<1>5. CASE ref = pl.old /\ ref' = pl.new /\ landed' = landed \union pl.new /\ At(p, "applied") /\ UNCHANGED lock
  <2>1. /\ op' = [op EXCEPT ![p] = op'[p]] /\ op'[p] \in Operations /\ LockHeld(p)'
        /\ op'[p].pc = "applied" /\ op'[p].plan = op[p].plan
    BY <1>3, <1>5, GoesOn DEF Resuming
  <2>2. Moves(p)
    BY <1>1, <1>3, <1>5, <2>1 DEF Moves, SyncAgrees, MergeAgrees, AtRisk, Resuming, Merging, store
  <2>3. ref' \in Tips /\ landed' \in Tips
    <3>1. pl.new \in Tips /\ landed \in Tips
      BY <1>3 DEF Plans, IntegrationInv, StoreTyped
    <3> QED BY <1>5, <3>1 DEF Tips
  <2>4. StoreTyped' /\ PlanStands'
    BY <1>1, <1>5, <2>3 DEF IntegrationInv, StoreTyped, PlanStands, store
  <2>5. ref = recovery[pl.id] /\ pl.id \in 1 .. MaxPlans
    <3>1. recovery[pl.id] = pl.old /\ plan # NoPlan /\ pl.id = plan.id
      BY <1>1, <1>3 DEF SyncAgrees, Resuming
    <3>2. plan.id \in 1 .. planned /\ planned \in 0 .. MaxPlans
      BY <3>1 DEF IntegrationInv, PlanStands, StoreTyped
    <3> QED BY <1>5, <3>1, <3>2, BoundsAssumption
  <2>6. LandedCommitsAreKept'
    BY <1>1, <1>5, <2>5 DEF IntegrationInv, LandedCommitsAreKept, store
  <2>7. ItemsTyped' /\ ItemWorkSurvives'
    BY <1>1 DEF IntegrationInv, ItemsTyped, ItemWorkSurvives, items
  <2> QED BY <1>3, <2>2, <2>4, <2>6, <2>7, OneMoves
<1> QED BY <1>2, <1>4, <1>5

LEMMA SaveAppliedMoves ==
    ASSUME IntegrationInv, NEW p \in Procs, SaveApplied(p)
    PROVE  IntegrationInv'
<1> DEFINE pl == [op[p].plan EXCEPT !.phase = "applied"]
<1>1. /\ op[p].pc = "applied" /\ plan' = pl /\ At(p, "remove")
      /\ UNCHANGED <<ref, remote, config, elsewhere, checkout, recovery, retained, planned, lock, items, made, landed>>
  BY DEF SaveApplied
<1>2. lock = p /\ op[p] \in Operations /\ op[p].plan \in Plans /\ SyncAgrees(p) /\ op[p].pc \notin Free
  BY <1>1, Holding DEF Resuming
<1>3. /\ pl \in Plans /\ pl.id = op[p].plan.id /\ pl.mode = op[p].plan.mode
      /\ pl.old = op[p].plan.old /\ pl.up = op[p].plan.up /\ Sound(pl)
  BY <1>2 DEF Plans, SyncAgrees, Sound
<1>4. plan # NoPlan /\ plan.id = pl.id /\ plan.mode = pl.mode /\ plan.old = pl.old /\ plan.up = pl.up
  BY <1>1, <1>2, <1>3 DEF SyncAgrees, Resuming
<1>5. pl.id \in 1 .. planned /\ pl # NoPlan
  BY <1>3, <1>4 DEF IntegrationInv, PlanStands, NoPlan
<1>6. Moves(p)
  <2>1. /\ op' = [op EXCEPT ![p] = op'[p]] /\ op'[p] \in Operations /\ LockHeld(p)'
        /\ op'[p].pc = "remove" /\ op'[p].plan = op[p].plan
    BY <1>1, <1>2, GoesOn DEF Resuming
  <2> QED BY <1>1, <1>2, <1>3, <1>5, <2>1 DEF Moves, SyncAgrees, MergeAgrees, AtRisk, Resuming, Merging
<1>7. StoreTyped' /\ PlanStands'
  BY <1>1, <1>3, <1>4, <1>5 DEF IntegrationInv, StoreTyped, PlanStands
<1>8. ItemsTyped' /\ LandedCommitsAreKept' /\ ItemWorkSurvives'
  BY <1>1 DEF IntegrationInv, ItemsTyped, LandedCommitsAreKept, ItemWorkSurvives, items
<1> QED BY <1>2, <1>6, <1>7, <1>8, OneMoves

LEMMA RemoveMoves ==
    ASSUME IntegrationInv, NEW p \in Procs, Remove(p)
    PROVE  IntegrationInv'
<1>1. /\ op[p].pc = "remove"
      /\ UNCHANGED <<ref, remote, config, elsewhere, plan, recovery, retained, planned, items, made, landed>>
  BY DEF Remove
<1>2. \/ Refuse(p) /\ UNCHANGED checkout
      \/ checkout' = NoCheckout /\ At(p, "forget") /\ UNCHANGED lock
  BY DEF Remove
<1>3. /\ lock = p /\ op[p] \in Operations /\ SyncAgrees(p) /\ op[p].pc \notin Free
      /\ retained' \in [1 .. MaxPlans -> Tips] /\ checkout \in Checkouts
  BY <1>1, Holding DEF Resuming, IntegrationInv, StoreTyped
<1>4. CASE Refuse(p) /\ UNCHANGED checkout
  BY <1>1, <1>4, RefusedMoves, OnlyMoves DEF store
<1>5. CASE checkout' = NoCheckout /\ At(p, "forget") /\ UNCHANGED lock
  <2>1. checkout' \in Checkouts /\ ~checkout'.there
    BY <1>5, Nothing DEF NoCheckout
  <2>2. /\ op' = [op EXCEPT ![p] = op'[p]] /\ op'[p] \in Operations /\ LockHeld(p)'
        /\ op'[p].pc = "forget" /\ op'[p].plan = op[p].plan
    BY <1>3, <1>5, GoesOn DEF Resuming
  <2>3. Moves(p)
    BY <1>1, <1>3, <1>5, <2>1, <2>2 DEF Moves, SyncAgrees, MergeAgrees, AtRisk, Resuming, Merging
  <2> QED BY <1>1, <1>3, <2>1, <2>3, CheckoutMoves
<1> QED BY <1>2, <1>4, <1>5

LEMMA AbortMoves ==
    ASSUME IntegrationInv, NEW p \in Procs, Abort(p)
    PROVE  IntegrationInv'
<1> DEFINE id == op[p].plan.id
<1>1. /\ op[p].pc = "abort" /\ checkout' = [checkout EXCEPT !.merging = FALSE, !.resolved = FALSE]
      /\ UNCHANGED <<ref, remote, config, elsewhere, plan, recovery, planned, items, made, landed>>
  BY DEF Abort
<1>2. /\ Refuse(p) \/ (At(p, "remove") /\ UNCHANGED lock)
      /\ UNCHANGED retained \/ retained' = [retained EXCEPT ![id] = checkout.head]
  BY DEF Abort
<1>3. /\ lock = p /\ op[p] \in Operations /\ SyncAgrees(p) /\ op[p].pc \notin Free
      /\ retained \in [1 .. MaxPlans -> Tips] /\ checkout \in Checkouts
  BY <1>1, Holding DEF Resuming, IntegrationInv, StoreTyped
<1>4. checkout' \in Checkouts /\ checkout'.there = checkout.there /\ checkout.head \in Tips
  BY <1>1, <1>3 DEF Checkouts
<1>5. retained' \in [1 .. MaxPlans -> Tips]
  BY <1>2, <1>3, <1>4
<1>6. Moves(p)
  <2>1. CASE At(p, "remove") /\ UNCHANGED lock
    <3>1. /\ op' = [op EXCEPT ![p] = op'[p]] /\ op'[p] \in Operations /\ LockHeld(p)'
          /\ op'[p].pc = "remove" /\ op'[p].plan = op[p].plan
      BY <1>3, <2>1, GoesOn DEF Resuming
    <3> QED BY <1>1, <1>3, <2>1, <3>1 DEF Moves, SyncAgrees, MergeAgrees, AtRisk, Resuming, Merging
  <2> QED BY <1>2, <2>1, RefusedMoves
<1> QED BY <1>1, <1>3, <1>4, <1>5, <1>6, CheckoutMoves

LEMMA ForgetMoves ==
    ASSUME IntegrationInv, NEW p \in Procs, Forget(p)
    PROVE  IntegrationInv'
<1>1. /\ op[p].pc = "forget" /\ plan' = NoPlan /\ Succeed(p, ref) /\ ref \in Tips
      /\ UNCHANGED <<ref, remote, config, elsewhere, checkout, recovery, retained, planned, items, made, landed>>
  BY DEF Forget, IntegrationInv, StoreTyped
<1>2. lock = p /\ ~checkout.there
  BY <1>1, Holding DEF Resuming, SyncAgrees
<1>3. Moves(p)
  BY <1>1, SucceededMoves
<1>4. StoreTyped' /\ PlanStands'
  <2>1. lock' \in Procs \union {Nobody}
    BY <1>3 DEF Moves, IntegrationInv, StoreTyped
  <2>2. Sound(NoPlan)
    BY DEF Sound, NoPlan
  <2> QED BY <1>1, <1>2, <2>1, <2>2, Nothing DEF IntegrationInv, StoreTyped, PlanStands
<1>5. ItemsTyped' /\ LandedCommitsAreKept' /\ ItemWorkSurvives'
  BY <1>1 DEF IntegrationInv, ItemsTyped, LandedCommitsAreKept, ItemWorkSurvives, items
<1> QED BY <1>2, <1>3, <1>4, <1>5, OneMoves

LEMMA FailMoves ==
    ASSUME IntegrationInv, NEW p \in Procs, Fail(p)
    PROVE  IntegrationInv'
BY RefusedMoves, OnlyMoves DEF Fail

----------------------------------------------------------------------------
(* The steps of a merge *)

\* What a merge with the lock relies on.
LEMMA HoldingMerge ==
    ASSUME IntegrationInv, NEW i \in Items, op[i].pc \in Merging
    PROVE  /\ i \in Procs /\ lock = i /\ op[i].pc \notin Free
           /\ op[i] \in Operations /\ SyncAgrees(i) /\ MergeAgrees(i) /\ plan = NoPlan
           /\ source[i] \in [head : Tips, dirty : BOOLEAN]
<1>1. i \in Procs
  BY DEF Procs
<1>2. op[i] \in Operations /\ LockHeld(i) /\ SyncAgrees(i) /\ MergeAgrees(i)
      /\ source[i] \in [head : Tips, dirty : BOOLEAN]
  BY <1>1 DEF IntegrationInv, ItemsTyped
<1>3. op[i].pc \notin Free
  BY DEF Free, Merging
<1> QED BY <1>1, <1>2, <1>3 DEF LockHeld, SyncAgrees

LEMMA LockMoves ==
    ASSUME IntegrationInv, NEW i \in Items, LockMerge(i)
    PROVE  IntegrationInv'
<1> DEFINE head == source[i].head
           pc == IF ref \subseteq head THEN "check" ELSE "rebase"
<1>1. /\ op[i].pc = "lock" /\ lock = Nobody
      /\ UNCHANGED <<ref, remote, config, elsewhere, store, source, authored, made, landed>>
  BY DEF LockMerge
<1>2. \/ Refuse(i) /\ UNCHANGED late
      \/ /\ StillGood(i) /\ lock' = i /\ late' = [late EXCEPT ![i] = @ \ Changes(head)]
         /\ op' = [op EXCEPT ![i].pc = pc, ![i].old = head, ![i].target = ref, ![i].new = head]
  BY DEF LockMerge
<1>3. i \in Procs /\ op[i] \in Operations /\ SyncAgrees(i) /\ head \in Tips /\ ref \in Tips
      /\ authored[i] \subseteq Changes(head) \union late[i]
  BY DEF Procs, IntegrationInv, StoreTyped, ItemsTyped, ItemWorkSurvives
<1>4. CASE Refuse(i) /\ UNCHANGED late
  BY <1>1, <1>3, <1>4, RefusedMoves, OnlyMoves DEF items
<1>5. CASE /\ StillGood(i) /\ lock' = i /\ late' = [late EXCEPT ![i] = @ \ Changes(head)]
           /\ op' = [op EXCEPT ![i].pc = pc, ![i].old = head, ![i].target = ref, ![i].new = head]
  <2>1. pc \in {"check", "rebase"}
    OBVIOUS
  <2> HIDE DEF pc
  <2>2. /\ op' = [op EXCEPT ![i] = op'[i]]
        /\ op'[i] = [op[i] EXCEPT !.pc = pc, !.old = head, !.target = ref, !.new = head]
    BY <1>3, <1>5 DEF IntegrationInv
  <2>3. /\ late' \in [Items -> SUBSET (1 .. MaxCommits)] /\ late'[i] = late[i] \ Changes(head)
        /\ \A k \in Items \ {i} : late'[k] = late[k]
    BY <1>5 DEF IntegrationInv, ItemsTyped
  <2>4. authored[i] \subseteq Changes(head) \union late'[i]
    BY <1>3, <2>3
  <2>5. ItemsTyped' /\ ItemWorkSurvives'
    <3>1. UNCHANGED <<source, authored>>
      BY <1>1
    <3>2. ASSUME NEW k \in Items PROVE authored[k] \subseteq Changes(source[k].head) \union late'[k]
      BY <2>3, <2>4 DEF IntegrationInv, ItemWorkSurvives
    <3>3. ItemWorkSurvives'
      BY <3>1, <3>2 DEF ItemWorkSurvives
    <3> QED BY <2>3, <3>1, <3>3 DEF IntegrationInv, ItemsTyped
  <2> HIDE DEF head
  <2>6. /\ op'[i] \in Operations /\ op'[i].pc = pc /\ op'[i].plan = op[i].plan
        /\ op'[i].old = head /\ op'[i].new = head
    BY <1>3, <2>1, <2>2 DEF Operations, Merging
  <2>7. plan = NoPlan /\ UNCHANGED <<plan, planned, recovery, checkout, source, authored>>
    BY <1>1, <1>5 DEF StillGood, store
  <2>8. LockHeld(i)' /\ SyncAgrees(i)'
    BY <1>3, <1>5, <2>1, <2>6, <2>7 DEF LockHeld, SyncAgrees, Free, Resuming, Merging
  <2>9. MergeAgrees(i)'
    <3>1. authored'[i] \subseteq Changes(op'[i].old) \union late'[i]
      BY <2>4, <2>6, <2>7
    <3>2. op'[i].old \subseteq source'[i].head /\ op'[i].pc # "update"
      BY <2>1, <2>6, <2>7 DEF head
    <3>3. Changes(op'[i].old) \subseteq Changes(op'[i].new)
      BY <2>6
    <3> QED BY <3>1, <3>2, <3>3 DEF MergeAgrees
  <2>10. Moves(i)
    BY <1>1, <1>5, <2>2, <2>6, <2>8, <2>9 DEF Moves
  <2>11. Spares(i)
    BY <2>3, <2>7 DEF Spares, Guarded
  <2>12. StoreTyped' /\ PlanStands' /\ LandedCommitsAreKept'
    BY <1>1, <1>3, <1>5 DEF IntegrationInv, StoreTyped, PlanStands, LandedCommitsAreKept, store
  <2> QED BY <1>3, <2>5, <2>10, <2>11, <2>12, OneMoves
<1> QED BY <1>2, <1>4, <1>5

\* The steps of a merge that change the item's branch besides.
LEMMA SourceMoves ==
    ASSUME IntegrationInv, NEW i \in Items, Moves(i), lock = i,
           UNCHANGED <<ref, remote, config, elsewhere, store, landed, authored, late>>, made' \in 0 .. MaxCommits, made <= made',
           source' = [source EXCEPT ![i] = source'[i]], source'[i] \in [head : Tips, dirty : BOOLEAN],
           authored[i] \subseteq Changes(source'[i].head) \union late[i]
    PROVE  IntegrationInv'
<1>1. StoreTyped'
  <2>1. lock' \in Procs \union {Nobody}
    BY DEF Moves, IntegrationInv, StoreTyped, Procs
  <2>2. config <= made' + 1
    BY BoundsAssumption DEF IntegrationInv, StoreTyped
  <2> QED BY <2>1, <2>2 DEF IntegrationInv, StoreTyped, store
<1>2. ItemsTyped' /\ \A k \in Items \ {i} : source'[k] = source[k]
  BY DEF IntegrationInv, ItemsTyped
<1>3. PlanStands' /\ LandedCommitsAreKept'
  BY DEF IntegrationInv, PlanStands, LandedCommitsAreKept, store
<1>4. ItemWorkSurvives'
  BY <1>2 DEF IntegrationInv, ItemWorkSurvives
<1>5. i \in Procs
  BY DEF Procs
<1> QED BY <1>1, <1>2, <1>3, <1>4, <1>5, OneMoves

LEMMA RebaseMoves ==
    ASSUME IntegrationInv, NEW i \in Items, Rebase(i)
    PROVE  IntegrationInv'
<1>1. /\ op[i].pc = "rebase" /\ MayCommit /\ made' = made + 1
      /\ UNCHANGED <<ref, remote, config, elsewhere, store, lock, authored, late, landed>>
  BY DEF Rebase
<1>2. /\ i \in Procs /\ lock = i /\ op[i] \in Operations /\ SyncAgrees(i) /\ MergeAgrees(i) /\ plan = NoPlan
      /\ source[i] \in [head : Tips, dirty : BOOLEAN] /\ op[i].pc \in Merging
  BY <1>1, HoldingMerge DEF Merging
<1>3. ref \in Tips /\ op[i].old \in Tips /\ op[i].target \in Tips /\ source[i].head \in Tips
  BY <1>2 DEF IntegrationInv, StoreTyped, Operations
<1>4. made' \in 0 .. MaxCommits /\ made <= made' /\ \A tip, base \in Tips : Rebased(tip, base) \in Tips
  BY <1>1, NewCommits, BoundsAssumption DEF IntegrationInv, StoreTyped
<1>5. authored[i] \subseteq Changes(op[i].old) \union late[i] /\ op[i].old \subseteq source[i].head
      /\ authored[i] \subseteq Changes(source[i].head) \union late[i]
  BY <1>1, <1>2 DEF MergeAgrees, AtRisk, IntegrationInv, ItemWorkSurvives
<1>6. ASSUME NEW new \in Tips, NEW inplace \in BOOLEAN, Changes(op[i].old) \subseteq Changes(new),
             op' = [op EXCEPT ![i].pc = "check", ![i].new = new, ![i].inplace = inplace]
      PROVE  Moves(i)
  <2>1. /\ op' = [op EXCEPT ![i] = op'[i]]
        /\ op'[i] = [op[i] EXCEPT !.pc = "check", !.new = new, !.inplace = inplace]
    BY <1>2, <1>6 DEF IntegrationInv
  <2>2. op'[i] \in Operations /\ op'[i].pc = "check" /\ op'[i].plan = op[i].plan
        /\ op'[i].old = op[i].old /\ op'[i].new = new
    BY <1>2, <2>1 DEF Operations, Merging
  <2>3. UNCHANGED plan
    BY <1>1 DEF store
  <2>4. LockHeld(i)' /\ SyncAgrees(i)'
    BY <1>1, <1>2, <2>2, <2>3 DEF LockHeld, SyncAgrees, Free, Resuming, Merging
  <2>5. MergeAgrees(i)'
    BY <1>1, <1>5, <1>6, <2>2 DEF MergeAgrees, AtRisk
  <2> QED BY <1>1, <2>1, <2>2, <2>4, <2>5 DEF Moves
<1>7. CASE source[i].dirty
  <2> DEFINE new == Rebased(op[i].old, op[i].target)
  <2>1. op' = [op EXCEPT ![i].pc = "check", ![i].new = new] /\ UNCHANGED source
    BY <1>7 DEF Rebase
  <2>2. new \in Tips /\ Changes(op[i].old) \subseteq Changes(new)
    BY <1>3, <1>4, RebasedKeeps
  <2> HIDE DEF new
  <2>3. op' = [op EXCEPT ![i].pc = "check", ![i].new = new, ![i].inplace = op[i].inplace]
    BY <1>2, <2>1 DEF IntegrationInv, Operations
  <2>4. op[i].inplace \in BOOLEAN
    BY <1>2 DEF Operations
  <2>5. Moves(i)
    BY <1>6, <2>2, <2>3, <2>4
  <2>6. source' = [source EXCEPT ![i] = source'[i]]
    BY <2>1 DEF IntegrationInv, ItemsTyped
  <2> QED BY <1>1, <1>2, <1>4, <1>5, <2>1, <2>5, <2>6, SourceMoves
<1>8. CASE ~source[i].dirty
  <2> DEFINE new == Rebased(source[i].head, ref)
  <2>1. /\ op' = [op EXCEPT ![i].pc = "check", ![i].new = new, ![i].inplace = TRUE]
        /\ source' = [source EXCEPT ![i].head = new]
    BY <1>8 DEF Rebase
  <2>2. new \in Tips /\ Changes(source[i].head) \subseteq Changes(new)
    BY <1>3, <1>4, RebasedKeeps
  <2>3. Changes(op[i].old) \subseteq Changes(new)
    BY <1>5, <2>2, ChangesOfTips
  <2> HIDE DEF new
  <2>4. Moves(i)
    BY <1>6, <2>1, <2>2, <2>3
  <2>5. /\ source' = [source EXCEPT ![i] = source'[i]] /\ source'[i].head = new
        /\ source'[i] \in [head : Tips, dirty : BOOLEAN]
    BY <1>2, <2>1, <2>2 DEF IntegrationInv, ItemsTyped
  <2> QED BY <1>1, <1>2, <1>4, <1>5, <2>2, <2>4, <2>5, SourceMoves
<1> QED BY <1>2, <1>7, <1>8

LEMMA ConflictMoves ==
    ASSUME IntegrationInv, NEW i \in Items, Conflict(i)
    PROVE  IntegrationInv'
<1>1. i \in Procs
  BY DEF Procs
<1> QED BY <1>1, RefusedMoves, OnlyMoves DEF Conflict

\* A rollback gives the item back what it had committed when the merge began.
LEMMA RollbackMoves ==
    ASSUME IntegrationInv, NEW i \in Items, op[i].pc \in Merging, Rollback(i),
           UNCHANGED <<ref, remote, config, elsewhere, store, landed, authored, late, made>>
    PROVE  IntegrationInv'
<1>1. /\ i \in Procs /\ lock = i /\ op[i] \in Operations /\ MergeAgrees(i)
      /\ source[i] \in [head : Tips, dirty : BOOLEAN]
  BY HoldingMerge
<1>2. Moves(i)
  BY <1>1, RefusedMoves DEF Rollback
<1>3. /\ op[i].inplace => authored[i] \subseteq Changes(op[i].old) \union late[i]
      /\ authored[i] \subseteq Changes(source[i].head) \union late[i]
      /\ op[i].old \in Tips
  <2>1. op[i].inplace => AtRisk(i)
    BY DEF AtRisk, Merging
  <2>2. op[i].old \in Tips
    BY <1>1 DEF Operations
  <2> QED BY <1>1, <2>1, <2>2 DEF MergeAgrees, IntegrationInv, ItemWorkSurvives
<1>4. /\ source' = [source EXCEPT ![i] = source'[i]] /\ source'[i] \in [head : Tips, dirty : BOOLEAN]
      /\ source'[i].head = IF op[i].inplace THEN op[i].old ELSE source[i].head
  BY <1>1, <1>3 DEF Rollback, Restored, IntegrationInv, ItemsTyped
<1>5. made \in 0 .. MaxCommits /\ made <= made
  BY BoundsAssumption DEF IntegrationInv, StoreTyped
<1> QED BY <1>1, <1>2, <1>3, <1>4, <1>5, SourceMoves

LEMMA CheckMoves ==
    ASSUME IntegrationInv, NEW i \in Items, Check(i)
    PROVE  IntegrationInv'
<1>1. /\ op[i].pc = "check" /\ op[i].pc \in Merging
      /\ UNCHANGED <<ref, remote, config, elsewhere, store, authored, late, made, landed>>
  BY DEF Check, Merging
<1>2. CASE Rollback(i)
  BY <1>1, <1>2, RollbackMoves
<1>3. CASE op[i].target \subseteq op[i].new /\ At(i, "update") /\ UNCHANGED <<source, lock>>
  <2>1. /\ i \in Procs /\ op[i].pc \notin Free /\ op[i] \in Operations /\ SyncAgrees(i) /\ MergeAgrees(i)
        /\ plan = NoPlan
    BY <1>1, HoldingMerge
  <2>2. /\ op' = [op EXCEPT ![i] = op'[i]] /\ op'[i] \in Operations /\ LockHeld(i)'
        /\ op'[i] = [op[i] EXCEPT !.pc = "update"] /\ op'[i].pc = "update" /\ op'[i].plan = op[i].plan
    BY <1>3, <2>1, GoesOn DEF Merging
  <2>3. op'[i].old = op[i].old /\ op'[i].new = op[i].new /\ op'[i].target = op[i].target
    BY <2>1, <2>2 DEF Operations
  <2>4. SyncAgrees(i)'
    BY <1>1, <2>1, <2>2 DEF SyncAgrees, Resuming, Merging, store
  <2>5. MergeAgrees(i)'
    BY <1>1, <1>3, <2>1, <2>2, <2>3 DEF MergeAgrees, AtRisk, Merging
  <2>6. Moves(i)
    BY <1>3, <2>2, <2>4, <2>5 DEF Moves
  <2> QED BY <1>1, <1>3, <2>1, <2>6, OnlyMoves DEF items
<1> QED BY <1>2, <1>3 DEF Check

LEMMA UpdateMoves ==
    ASSUME IntegrationInv, NEW i \in Items, Update(i)
    PROVE  IntegrationInv'
<1>1. /\ op[i].pc = "update" /\ op[i].pc \in Merging
      /\ UNCHANGED <<remote, config, elsewhere, store, authored, late, made>>
  BY DEF Update, Merging
<1>2. CASE Rollback(i) /\ UNCHANGED <<ref, landed>>
  BY <1>1, <1>2, RollbackMoves
<1>3. CASE /\ ref = op[i].target /\ ref' = op[i].new /\ landed' = landed \union op[i].new
           /\ Refuse(i) /\ UNCHANGED source
  <2>1. i \in Procs /\ lock = i /\ op[i] \in Operations /\ MergeAgrees(i)
    BY <1>1, HoldingMerge
  <2>2. Moves(i)
    BY <1>3, <2>1, RefusedMoves
  <2>3. op[i].target \subseteq op[i].new /\ op[i].new \in Tips
    BY <1>1, <2>1 DEF MergeAgrees, AtRisk, Operations
  <2>4. StoreTyped'
    <3>1. ref' \in Tips /\ landed' \in Tips
      BY <1>3, <2>3 DEF IntegrationInv, StoreTyped, Tips
    <3>2. lock' \in Procs \union {Nobody}
      BY <2>1, <2>2 DEF Moves
    <3> QED BY <1>1, <3>1, <3>2 DEF IntegrationInv, StoreTyped, store
  <2>5. LandedCommitsAreKept'
    BY <1>1, <1>3, <2>3 DEF IntegrationInv, LandedCommitsAreKept, store
  <2>6. ItemsTyped' /\ PlanStands' /\ ItemWorkSurvives'
    BY <1>1, <1>3 DEF IntegrationInv, ItemsTyped, PlanStands, ItemWorkSurvives, store
  <2> QED BY <2>1, <2>2, <2>4, <2>5, <2>6, OneMoves
<1> QED BY <1>2, <1>3 DEF Update, Swaps

----------------------------------------------------------------------------
(* Around the daemon *)

\* What happens outside leaves the operations, the plan and the items alone, and
\* takes nothing from the branch.
LEMMA OutsideKeeps ==
    ASSUME IntegrationInv, StoreTyped', checkout'.there = checkout.there,
           ref \subseteq ref', landed' \subseteq landed \union ref',
           UNCHANGED <<op, lock, plan, planned, recovery, items>>
    PROVE  IntegrationInv'
<1>1. ItemsTyped' /\ PlanStands' /\ LandedCommitsAreKept' /\ ItemWorkSurvives'
  BY DEF IntegrationInv, ItemsTyped, PlanStands, LandedCommitsAreKept, ItemWorkSurvives, items
<1>2. \A p \in Procs : LockHeld(p)' /\ SyncAgrees(p)'
  BY DEF IntegrationInv, LockHeld, SyncAgrees
<1>3. \A i \in Items : MergeAgrees(i)'
  BY DEF IntegrationInv, MergeAgrees, AtRisk, items
<1> QED BY <1>1, <1>2, <1>3 DEF IntegrationInv

LEMMA OutsideMoves ==
    ASSUME IntegrationInv,
           \/ OutsideCommit \/ RemotePush \/ OutsideConfig \/ SetUpstream \/ GitBegins \/ GitEnds
           \/ Resolve \/ UserCommit \/ UserEdit \/ UserClean \/ UserAside \/ UserBack
    PROVE  IntegrationInv'
<1>1. UNCHANGED <<op, lock, plan, planned, recovery, retained, items>>
  BY DEF OutsideCommit, RemotePush, OutsideConfig, SetUpstream, Resolve, UserCommit, UserEdit,
     UserClean, UserAside, UserBack, GitBegins, GitEnds, store
<1>2. StoreTyped
  BY DEF IntegrationInv
<1>3. MayCommit => /\ made + 1 \in 0 .. MaxCommits /\ New \in Commits /\ made + 1 \in 1 .. MaxCommits
                   /\ made \in Nat /\ config \in Nat
  BY <1>2, NewCommits, BoundsAssumption DEF StoreTyped
<1>4. /\ (OutsideCommit => ref' \in Tips /\ landed' \in Tips) /\ (RemotePush => remote' \in Tips)
  BY <1>2, <1>3 DEF OutsideCommit, RemotePush, StoreTyped, Tips
<1>5. UserCommit => checkout' \in Checkouts /\ checkout'.there = checkout.there
  <2> SUFFICES ASSUME UserCommit PROVE checkout' \in Checkouts /\ checkout'.there = checkout.there
    OBVIOUS
  <2> DEFINE tip == checkout.head \union {New} \union (IF checkout.merging THEN plan.up ELSE {})
  <2>1. tip \in Tips
    <3>1. checkout.head \in Tips /\ plan.up \in Tips /\ New \in Commits
      BY <1>2, <1>3 DEF UserCommit, StoreTyped, Checkouts, Plans
    <3> QED BY <3>1 DEF Tips
  <2> HIDE DEF tip
  <2>2. checkout' = [checkout EXCEPT !.merging = FALSE, !.resolved = FALSE, !.dirty = FALSE, !.head = tip]
    BY <1>2 DEF UserCommit, tip, StoreTyped, Checkouts
  <2> QED BY <1>2, <2>1, <2>2 DEF StoreTyped, Checkouts
<1>6. Resolve \/ UserEdit \/ UserClean \/ UserAside \/ UserBack =>
         checkout' \in Checkouts /\ checkout'.there = checkout.there
  BY <1>2 DEF Resolve, UserEdit, UserClean, UserAside, UserBack, StoreTyped, Checkouts
<1>7. OutsideCommit \/ RemotePush \/ OutsideConfig \/ SetUpstream \/ GitBegins \/ GitEnds => UNCHANGED checkout
  BY DEF OutsideCommit, RemotePush, OutsideConfig, SetUpstream, GitBegins, GitEnds, store
<1>8. ref \subseteq ref' /\ landed' \subseteq landed \union ref'
  BY DEF OutsideCommit, RemotePush, OutsideConfig, SetUpstream, Resolve, UserCommit, UserEdit, UserClean,
     UserAside, UserBack, GitBegins, GitEnds
<1>9. StoreTyped'
  <2>1. CASE OutsideCommit
    BY <1>1, <1>2, <1>3, <1>4, <1>7, <2>1 DEF OutsideCommit, StoreTyped
  <2>2. CASE RemotePush
    BY <1>1, <1>2, <1>3, <1>4, <1>7, <2>2 DEF RemotePush, StoreTyped
  <2>3. CASE OutsideConfig \/ SetUpstream
    <3>1. config' \in 1 .. MaxCommits + 1 /\ made' \in 0 .. MaxCommits /\ config' <= made' + 1
      BY <1>2, <1>3, <2>3, BoundsAssumption DEF OutsideConfig, SetUpstream, StoreTyped
    <3> QED BY <1>1, <1>2, <1>7, <2>3, <3>1 DEF OutsideConfig, SetUpstream, StoreTyped
  <2>4. CASE UserCommit \/ UserEdit \/ UserAside
    BY <1>1, <1>2, <1>3, <1>5, <1>6, <2>4 DEF UserCommit, UserEdit, UserAside, StoreTyped
  <2>5. CASE Resolve \/ UserClean \/ UserBack
    BY <1>1, <1>2, <1>6, <2>5 DEF Resolve, UserClean, UserBack, StoreTyped
  <2>6. CASE GitBegins \/ GitEnds
    <3>1. elsewhere' \in BOOLEAN /\ made' \in 0 .. MaxCommits /\ config <= made' + 1
      <4>1. /\ elsewhere' = TRUE \/ elsewhere' = FALSE
            /\ (MayCommit /\ made' = made + 1) \/ made' = made
        BY <2>6 DEF GitBegins, GitEnds
      <4>2. made \in 0 .. MaxCommits /\ config <= made + 1 /\ config \in 1 .. MaxCommits + 1
        BY <1>2 DEF StoreTyped
      <4> HIDE DEF MayCommit
      <4>3. made' \in 0 .. MaxCommits /\ config <= made' + 1
        BY <1>3, <4>1, <4>2, BoundsAssumption
      <4> QED BY <4>1, <4>3
    <3>2. UNCHANGED <<ref, remote, config, landed, plan, planned, checkout, recovery, retained, lock>>
      BY <1>1, <1>7, <2>6 DEF GitBegins, GitEnds
    <3> QED BY <1>2, <3>1, <3>2 DEF StoreTyped
  <2> QED BY <2>1, <2>2, <2>3, <2>4, <2>5, <2>6
<1>10. checkout'.there = checkout.there
  BY <1>5, <1>6, <1>7
<1> QED BY <1>1, <1>8, <1>9, <1>10, OutsideKeeps

\* A commit in an item's checkout is known to be late if a rollback would drop it.
LEMMA CommitMoves ==
    ASSUME IntegrationInv, NEW i \in Items, CommitIn(i) \/ EditIn(i)
    PROVE  IntegrationInv'
<1> DEFINE new == IF CommitIn(i) THEN {made + 1} ELSE {}
           tip == IF CommitIn(i) THEN source[i].head \union {New} ELSE source[i].head
<1>1. /\ MayCommit /\ made' = made + 1
      /\ UNCHANGED <<ref, remote, config, elsewhere, store, lock, op, landed>>
  BY DEF CommitIn, EditIn
<1>2. /\ made + 1 \in 1 .. MaxCommits /\ New \in Commits /\ made' \in 0 .. MaxCommits /\ config <= made' + 1
      /\ source[i] \in [head : Tips, dirty : BOOLEAN]
  BY <1>1, NewCommits, BoundsAssumption DEF IntegrationInv, StoreTyped, ItemsTyped
<1>3. tip \in Tips /\ source[i].head \subseteq tip /\ new \subseteq Changes(tip)
      /\ Changes(source[i].head) \subseteq Changes(tip)
  <2>1. source[i].head \in Tips /\ tip \in Tips /\ source[i].head \subseteq tip
    BY <1>2 DEF Tips
  <2>2. CommitIn(i) => Changes(tip) = Changes(source[i].head) \union {made + 1}
    <3>1. Changes({New}) = {made + 1}
      BY ChangesOfTips DEF New
    <3>2. CommitIn(i) => tip = source[i].head \union {New}
      OBVIOUS
    <3> HIDE DEF tip
    <3> QED BY <3>1, <3>2, ChangesOfTips
  <2> QED BY <2>1, <2>2, ChangesOfTips
<1>4. /\ authored' = [authored EXCEPT ![i] = @ \union new]
      /\ late' = [late EXCEPT ![i] = IF AtRisk(i) THEN @ \union new ELSE @]
      /\ \E dirty \in BOOLEAN : source' = [source EXCEPT ![i] = [head |-> tip, dirty |-> dirty]]
  <2>1. CASE CommitIn(i)
    BY <2>1 DEF CommitIn
  <2>2. CASE EditIn(i) /\ ~CommitIn(i)
    <3>1. source' = [source EXCEPT ![i] = [head |-> source[i].head, dirty |-> TRUE]]
      BY <1>2, <2>2 DEF EditIn, IntegrationInv, ItemsTyped
    <3> QED BY <2>2, <3>1 DEF EditIn, IntegrationInv, ItemsTyped
  <2> QED BY <2>1, <2>2
<1>5. new \subseteq 1 .. MaxCommits
  BY <1>2
<1> HIDE DEF new, tip
<1>6. /\ source'[i].head = tip /\ source'[i] \in [head : Tips, dirty : BOOLEAN]
      /\ authored'[i] = authored[i] \union new
      /\ late[i] \subseteq late'[i] /\ (AtRisk(i) => new \subseteq late'[i])
      /\ \A k \in Items \ {i} : source'[k] = source[k] /\ authored'[k] = authored[k] /\ late'[k] = late[k]
  BY <1>3, <1>4 DEF IntegrationInv, ItemsTyped
<1>7. StoreTyped'
  BY <1>1, <1>2 DEF IntegrationInv, StoreTyped, store
<1>8. ItemsTyped'
  <2>1. authored' \in [Items -> SUBSET (1 .. MaxCommits)] /\ late' \in [Items -> SUBSET (1 .. MaxCommits)]
    BY <1>4, <1>5 DEF IntegrationInv, ItemsTyped
  <2>2. source' \in [Items -> [head : Tips, dirty : BOOLEAN]]
    BY <1>3, <1>4 DEF IntegrationInv, ItemsTyped
  <2> QED BY <2>1, <2>2 DEF ItemsTyped
<1>9. PlanStands' /\ LandedCommitsAreKept' /\ \A p \in Procs : LockHeld(p)' /\ SyncAgrees(p)'
  BY <1>1 DEF IntegrationInv, PlanStands, LandedCommitsAreKept, LockHeld, SyncAgrees, store
<1>10. ItemWorkSurvives'
  <2>1. authored'[i] \subseteq Changes(source'[i].head) \union late'[i]
    BY <1>3, <1>6 DEF IntegrationInv, ItemWorkSurvives
  <2> QED BY <1>6, <2>1 DEF IntegrationInv, ItemWorkSurvives
<1>11. ASSUME NEW k \in Items PROVE MergeAgrees(k)'
  <2>1. MergeAgrees(k) /\ op'[k] = op[k]
    BY <1>1 DEF IntegrationInv
  <2>2. CASE k = i
    <3>1. AtRisk(i) => authored'[i] \subseteq Changes(op[i].old) \union late'[i]
      BY <1>6, <2>1, <2>2 DEF MergeAgrees
    <3>2. op[i].pc = "rebase" => op[i].old \subseteq source'[i].head
      BY <1>3, <1>6, <2>1, <2>2 DEF MergeAgrees
    <3>3. AtRisk(i)' <=> AtRisk(i)
      BY <2>1, <2>2 DEF AtRisk
    <3> QED BY <2>1, <2>2, <3>1, <3>2, <3>3 DEF MergeAgrees
  <2>3. CASE k # i
    BY <1>6, <2>1, <2>3 DEF MergeAgrees, AtRisk
  <2> QED BY <2>2, <2>3
<1> QED BY <1>1, <1>7, <1>8, <1>9, <1>10, <1>11 DEF IntegrationInv

LEMMA InvInit == Init => IntegrationInv
<1> SUFFICES ASSUME Init PROVE IntegrationInv
  OBVIOUS
<1>1. <<0, 0>> \in Commits
  <2>1. 0 \in 0 .. MaxCommits + MaxPlans
    BY BoundsAssumption
  <2> QED BY <2>1 DEF Commits
<1>2. ref = {<<0, 0>>} /\ ref \in Tips /\ remote = ref /\ landed = ref
  BY <1>1 DEF Init, Tips
<1>3. StoreTyped
  <2>1. /\ config = 1 /\ made = 0 /\ planned = 0 /\ elsewhere = FALSE /\ lock = Nobody
        /\ plan = NoPlan /\ checkout = NoCheckout /\ recovery = [n \in 1 .. MaxPlans |-> NoTip] /\ retained = recovery
    BY DEF Init
  <2>2. config \in 1 .. MaxCommits + 1 /\ made \in 0 .. MaxCommits /\ config <= made + 1 /\ planned \in 0 .. MaxPlans
    BY <2>1, BoundsAssumption
  <2> QED BY <1>2, <2>1, <2>2, Nothing DEF StoreTyped
<1>4. ItemsTyped
  BY <1>2 DEF Init, ItemsTyped
<1>5. op \in [Procs -> Operations] /\ \A p \in Procs : op[p].pc = "idle" /\ op[p].plan = NoPlan
  BY Nothing DEF Init, Idle
<1>6. PlanStands /\ Sound(NoPlan)
  BY DEF Init, PlanStands, Sound, NoPlan, NoCheckout
<1>7. \A p \in Procs : LockHeld(p) /\ SyncAgrees(p)
  BY <1>5, <1>6, NamesAssumption DEF Init, Procs, LockHeld, SyncAgrees, Free, Resuming, Merging
<1>8. \A i \in Items : MergeAgrees(i)
  BY <1>5 DEF Procs, MergeAgrees, AtRisk, Merging
<1>9. LandedCommitsAreKept /\ ItemWorkSurvives
  BY <1>2 DEF Init, LandedCommitsAreKept, ItemWorkSurvives
<1> QED BY <1>3, <1>4, <1>5, <1>6, <1>7, <1>8, <1>9 DEF IntegrationInv

LEMMA InvStep ==
    ASSUME IntegrationInv, [Next]_vars
    PROVE  IntegrationInv'
<1>1. CASE UNCHANGED vars
  <2>1. UNCHANGED <<ref, remote, config, elsewhere, store, lock, op, items, made, landed>>
    BY <1>1 DEF vars
  <2>2. StoreTyped'
    BY <2>1 DEF IntegrationInv, StoreTyped, store
  <2> QED BY <2>1, <2>2, OutsideKeeps DEF store
<1>2. ASSUME NEW p \in Procs, SyncStep(p) PROVE IntegrationInv'
  BY <1>2, AccessMoves, FetchMoves, SaveMoves, ResumeMoves, AddCheckoutMoves, MergeMoves,
     PrepareMoves, BackupMoves,
     ApplyMoves, SaveAppliedMoves, RemoveMoves, AbortMoves, ForgetMoves DEF SyncStep
<1>3. ASSUME NEW i \in Items, MergeStep(i) PROVE IntegrationInv'
  BY <1>3, LockMoves, RebaseMoves, ConflictMoves, CheckMoves, UpdateMoves DEF MergeStep
<1>4. CASE Environment
  BY <1>4, OutsideMoves, CommitMoves DEF Environment
<1> QED BY <1>1, <1>2, <1>3, <1>4, BeginMoves, ResetMoves, StartMoves, FailMoves DEF Next

----------------------------------------------------------------------------
(* Theorems *)

\* Whoever holds the integration lock agrees with the saved plan, its recovery
\* ref and the item it merges, through every stop and whatever moves outside.
THEOREM IntegrationInvariant == Spec => []IntegrationInv
<1>1. IntegrationInv /\ [Next]_vars => IntegrationInv'
  BY InvStep
<1> QED BY <1>1, InvInit, PTL DEF Spec

\* Every variable holds a value of its kind, and exactly the holder of the
\* integration lock is past its first steps (repositoryAccess).
THEOREM IntegrationTypes == Spec => []TypeOK
<1>1. IntegrationInv => TypeOK
  <2> SUFFICES ASSUME IntegrationInv PROVE TypeOK
    OBVIOUS
  <2>1. /\ plan.phase \in {"none", "merging", "prepared", "applied"} /\ plan.id \in 0 .. planned
        /\ checkout.there => plan # NoPlan /\ plan.mode = "merge"
    BY DEF IntegrationInv, StoreTyped, PlanStands, Plans, NoPlan
  <2>2. \A p \in Procs : lock = p <=> op[p].pc \notin {"idle", "access", "lock"}
    BY DEF IntegrationInv, LockHeld, Free
  <2>3. \A i \in Items : source[i].head \in Tips /\ authored[i] \subseteq 1 .. MaxCommits
    BY DEF IntegrationInv, ItemsTyped
  <2> QED BY <2>1, <2>2, <2>3 DEF IntegrationInv, StoreTyped, TypeOK
<1> QED BY <1>1, IntegrationInvariant, PTL

\* No commit that was ever on the integration branch is lost, and none of an
\* item's, except what was committed while a merge that rebased in place could
\* still roll back (applyRepositorySync, protectRepositorySync,
\* failMergeWithRollback).
THEOREM WorkIsNeverLost == Spec => []NoWorkIsLost
<1>1. IntegrationInv => NoWorkIsLost
  BY DEF IntegrationInv, NoWorkIsLost
<1> QED BY <1>1, IntegrationInvariant, PTL

\* What moves the branch.
LEMMA WhoMovesTheBranch ==
    ASSUME [Next]_vars, ref' # ref
    PROVE  (\E p \in Procs : Apply(p)) \/ (\E i \in Items : Update(i)) \/ OutsideCommit
BY DEF Next, vars, SyncStep, MergeStep, Environment, Begin, BeginReset, Access, Fetch, SavePlan,
   Resume, AddCheckout,
       Merge, Prepare, Backup, SaveApplied, Remove, Abort, Forget, Fail, StartMerge, LockMerge, Rebase, Conflict,
       Check, RemotePush, OutsideConfig, SetUpstream, Resolve, UserCommit, UserEdit, UserClean, UserAside, UserBack,
       GitBegins, GitEnds, CommitIn, EditIn

LEMMA BranchGrows ==
    ASSUME IntegrationInv, [Next]_vars
    PROVE  HistoryOnlyGrows
<1> SUFFICES ASSUME ref' # ref PROVE HistoryOnlyGrows
  BY DEF HistoryOnlyGrows
<1>1. ASSUME NEW p \in Procs, Apply(p) PROVE HistoryOnlyGrows
  <2> DEFINE pl == op[p].plan
  <2>1. op[p].pc = "apply" /\ ref = pl.old /\ ref' = pl.new
    BY <1>1 DEF Apply, Swaps
  <2>2. SyncAgrees(p) /\ op[p].pc \in Resuming
    BY <2>1 DEF IntegrationInv, Resuming
  <2>3. plan.id = pl.id /\ plan.mode = pl.mode /\ plan.old = pl.old /\ plan.up = pl.up /\ Sound(pl)
        /\ recovery[pl.id] = pl.old /\ (pl.mode # "reset" => pl.old \subseteq pl.new)
    BY <2>1, <2>2 DEF SyncAgrees
  <2> QED BY <2>1, <2>3 DEF HistoryOnlyGrows, Sound
<1>2. ASSUME NEW i \in Items, Update(i) PROVE HistoryOnlyGrows
  <2>1. op[i].pc = "update" /\ ref = op[i].target /\ ref' = op[i].new
    BY <1>2 DEF Update, Swaps
  <2>2. op[i].target \subseteq op[i].new
    BY <2>1 DEF IntegrationInv, MergeAgrees, AtRisk
  <2> QED BY <2>1, <2>2 DEF HistoryOnlyGrows
<1>3. CASE OutsideCommit
  BY <1>3 DEF OutsideCommit, HistoryOnlyGrows
<1> QED BY <1>1, <1>2, <1>3, WhoMovesTheBranch

LEMMA LandsWhole ==
    ASSUME IntegrationInv, [Next]_vars
    PROVE  MergesLandWhole
<1> SUFFICES ASSUME NEW i \in Items, Lands(i)
             PROVE  plan = NoPlan /\ Changes(op[i].old) \union Changes(ref) \subseteq Changes(ref')
  BY DEF MergesLandWhole
<1>1. /\ op[i].pc = "update" /\ op[i].pc \in Merging /\ op'[i].pc = "idle" /\ ref' # ref
      /\ op[i].pc # "apply"
  BY DEF Lands, Merging
<1>2. i \in Procs /\ lock = i /\ MergeAgrees(i) /\ plan = NoPlan
  BY <1>1, HoldingMerge
<1>3. ~OutsideCommit
  BY <1>1 DEF OutsideCommit
<1>4. ASSUME NEW p \in Procs, Apply(p) PROVE FALSE
  <2>1. op[p].pc = "apply"
    BY <1>4 DEF Apply
  <2>2. lock = p
    BY <2>1, Holding DEF Resuming
  <2> QED BY <1>1, <1>2, <2>1, <2>2
<1>5. ASSUME NEW k \in Items, Update(k) PROVE k = i
  <2>1. op[k].pc \in Merging
    BY <1>5 DEF Update, Merging
  <2> QED BY <1>2, <2>1, HoldingMerge
<1>6. ref = op[i].target /\ ref' = op[i].new
  BY <1>1, <1>3, <1>4, <1>5, WhoMovesTheBranch DEF Update, Swaps
<1> QED BY <1>1, <1>2, <1>6, ChangesOfTips DEF MergeAgrees, AtRisk

\* The branch moves forward, or by a reset whose old tip is kept; a merge lands
\* all of the item's work and never during a reconciliation (UpdateRef,
\* IntegrateItem).
THEOREM TheBranchMovesByRule == Spec => BranchMovesByRule
<1>1. IntegrationInv /\ [Next]_vars => [HistoryOnlyGrows /\ MergesLandWhole]_vars
  BY BranchGrows, LandsWhole
<1> QED BY <1>1, IntegrationInvariant, PTL DEF Spec, BranchMovesByRule
=============================================================================
