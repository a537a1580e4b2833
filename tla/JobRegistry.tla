---------------------------- MODULE JobRegistry ----------------------------
(***************************************************************************)
(* The daemon's background jobs (daemonapi/jobs.go) and their durable      *)
(* summaries (coordinator/api_jobs.go): deduplication by key, a summary    *)
(* saved before each change becomes visible, cancellation, shutdown,       *)
(* restart, and a bounded history of finished jobs.                        *)
(*                                                                         *)
(* What a job does is left out: it runs, changes its summary while it      *)
(* runs (phases, approvals), and returns.  The registry's lock, a job's    *)
(* lock and the summary's transaction each make one step atomic.           *)
(***************************************************************************)
EXTENDS Naturals, FiniteSets, Functions

CONSTANTS
    Jobs,          \* job IDs (random, never reused)
    Keys,          \* kind, key, item and repository of a start request
    Limit,         \* APIJobHistoryLimit (500 in the code)
    MaxFailures,   \* bound: summaries that cannot be saved
    MaxRestarts    \* bound: daemon restarts

ASSUME KeysAssumption == Keys # {}
ASSUME LimitAssumption == Limit \in Nat \ {0} /\ MaxFailures \in Nat /\ MaxRestarts \in Nat

VARIABLES
    mem,        \* mem[j]: the state clients are shown; "none" when not registered
    disk,       \* disk[j]: the state of the saved summary
    memAt,      \* when the job finished, in memory
    diskAt,     \*   and in its saved summary
    key,        \* key[j]: what the job was started for
    work,       \* the job's goroutine: "none", "starting", "running", "done"
    cancelled,  \* jobs whose context was cancelled
    broken,     \* jobs with a persistErr
    stopping,   \* the registry's context has ended
    clock,      \* counts finishes
    failures,   \* saves that failed so far
    restarts,   \* restarts so far
    said        \* history: the final state a client may have seen

shown == <<mem, memAt>>
saved == <<disk, diskAt>>
vars == <<shown, saved, key, work, cancelled, broken, stopping, clock, failures, restarts, said>>

----------------------------------------------------------------------------
Active == {"queued", "running", "waiting"}
Terminal == {"succeeded", "failed", "cancelled"}

\* Mutant: active jobs count as history too.
ExcessOfAll(states, at) ==
    {j \in Jobs : /\ states[j] # "none"
                  /\ Cardinality({k \in Jobs : states[k] # "none" /\ at[k] > at[j]}) >= Limit}

\* pruneLocked and SaveAPIJob: the finished jobs past the limit, newest kept.
Excess(states, at) ==
    {j \in Jobs : /\ states[j] \in Terminal
                  /\ Cardinality({k \in Jobs : states[k] \in Terminal /\ at[k] > at[j]}) >= Limit}

Prune(states, at) == [j \in Jobs |-> IF j \in Excess(states, at) THEN "none" ELSE states[j]]

\* The summaries after job j is saved in state s at time t: a finished one
\* bounds the history.
Saved(j, s, t) ==
    LET states == [disk EXCEPT ![j] = s] IN
    IF s \in Terminal THEN Prune(states, [diskAt EXCEPT ![j] = t]) ELSE states

\* The first final state is remembered for the property about it.
Say(states) ==
    said' = [j \in Jobs |-> IF said[j] = "none" /\ states[j] \in Terminal THEN states[j] ELSE said[j]]

----------------------------------------------------------------------------
Init ==
    /\ mem = [j \in Jobs |-> "none"]
    /\ disk = [j \in Jobs |-> "none"]
    /\ memAt = [j \in Jobs |-> 0]
    /\ diskAt = [j \in Jobs |-> 0]
    /\ key = [j \in Jobs |-> CHOOSE k \in Keys : TRUE]
    /\ work = [j \in Jobs |-> "none"]
    /\ cancelled = {}
    /\ broken = {}
    /\ stopping = FALSE
    /\ clock = 0
    /\ failures = 0
    /\ restarts = 0
    /\ said = [j \in Jobs |-> "none"]

Fresh(j) == mem[j] = "none" /\ disk[j] = "none" /\ work[j] = "none" /\ said[j] = "none"

\* Mutant: a queued job does not count.
BusyWhenRunning(k) == \E j \in Jobs : key[j] = k /\ mem[j] \in {"running", "waiting"}

\* startKey returns the active job of the same key instead of starting another.
Busy(k) == \E j \in Jobs : key[j] = k /\ mem[j] \in Active

\* startKey: the summary is saved before the job is registered; a job whose
\* summary cannot be saved is reported failed and not registered.
Start(j, k) ==
    /\ ~stopping
    /\ Fresh(j)
    /\ ~Busy(k)
    /\ disk' = Saved(j, "queued", 0)
    /\ mem' = [Prune(mem, memAt) EXCEPT ![j] = "queued"]
    /\ key' = [key EXCEPT ![j] = k]
    /\ work' = [work EXCEPT ![j] = "starting"]
    /\ UNCHANGED <<memAt, diskAt, cancelled, broken, stopping, clock, failures, restarts, said>>

\* startKey while the daemon stops: a cancelled job, its save best effort.
StartStopping(j, k, ok) ==
    /\ stopping
    /\ Fresh(j)
    /\ ok \/ failures < MaxFailures
    /\ failures' = IF ok THEN failures ELSE failures + 1
    /\ clock' = clock + 1
    /\ mem' = [mem EXCEPT ![j] = "cancelled"]
    /\ memAt' = [memAt EXCEPT ![j] = clock']
    /\ disk' = IF ok THEN Saved(j, "cancelled", clock') ELSE disk
    /\ diskAt' = IF ok THEN [diskAt EXCEPT ![j] = clock'] ELSE diskAt
    /\ key' = [key EXCEPT ![j] = k]
    /\ Say(mem')
    /\ UNCHANGED <<work, cancelled, broken, stopping, restarts>>

----------------------------------------------------------------------------
(* jobRun.change *)

\* The summary is saved in state s and then shown.
ChangeSaved(j, s) ==
    LET t == IF s \in Terminal THEN clock + 1 ELSE 0 IN
    /\ j \notin broken
    /\ clock' = IF s \in Terminal THEN clock + 1 ELSE clock
    /\ disk' = Saved(j, s, t)
    /\ diskAt' = [diskAt EXCEPT ![j] = t]
    /\ mem' = [mem EXCEPT ![j] = s]
    /\ memAt' = [memAt EXCEPT ![j] = t]
    /\ Say(mem')
    /\ UNCHANGED <<cancelled, broken, failures>>

\* The save fails: the job is shown as failed, its context is cancelled, and
\* nothing more is saved for it.
ChangeFailed(j) ==
    /\ j \notin broken
    /\ failures < MaxFailures
    /\ failures' = failures + 1
    /\ broken' = broken \cup {j}
    /\ cancelled' = cancelled \cup {j}
    /\ clock' = clock + 1
    /\ mem' = [mem EXCEPT ![j] = "failed"]
    /\ memAt' = [memAt EXCEPT ![j] = clock']
    /\ Say(mem')
    /\ UNCHANGED <<disk, diskAt>>

\* Every later change of a broken job.
ChangeRefused(j) ==
    /\ j \in broken
    /\ UNCHANGED <<shown, saved, cancelled, broken, clock, failures, said>>

----------------------------------------------------------------------------
(* The job's goroutine *)

Begin(j) ==
    /\ work[j] = "starting"
    /\ \/ ChangeSaved(j, "running") /\ work' = [work EXCEPT ![j] = "running"]
       \/ ChangeFailed(j) /\ work' = [work EXCEPT ![j] = "done"]
    /\ UNCHANGED <<key, stopping, restarts>>

\* The job reports progress, asks for an approval or goes on after one.
Update(j, s) ==
    /\ work[j] = "running"
    /\ mem[j] # s
    /\ ChangeSaved(j, s) \/ ChangeFailed(j)
    /\ UNCHANGED <<key, work, stopping, restarts>>

\* The state a returned job gets: an interrupted one counts as failed.
Final(r) == IF stopping THEN "failed" ELSE r

\* Mutant: a job that waits for an approval neither expires nor is cancelled.
EndWhenAnswered(j, r) ==
    /\ work[j] = "running" /\ mem[j] # "waiting"
    /\ r = "cancelled" => j \in cancelled \/ stopping
    /\ ChangeSaved(j, Final(r)) \/ ChangeFailed(j) \/ ChangeRefused(j)
    /\ work' = [work EXCEPT ![j] = "done"]
    /\ UNCHANGED <<key, stopping, restarts>>

\* The job returns and its outcome is recorded; only a cancelled context makes
\* it return context.Canceled.
End(j, r) ==
    /\ work[j] = "running"
    /\ r = "cancelled" => j \in cancelled \/ stopping
    /\ ChangeSaved(j, Final(r)) \/ ChangeFailed(j) \/ ChangeRefused(j)
    /\ work' = [work EXCEPT ![j] = "done"]
    /\ UNCHANGED <<key, stopping, restarts>>

\* pruneLocked: after a job ends, and on every lookup and listing.
Forget ==
    /\ Excess(mem, memAt) # {}
    /\ mem' = Prune(mem, memAt)
    /\ UNCHANGED <<memAt, saved, key, work, cancelled, broken, stopping, clock, failures, restarts, said>>

\* CancelJob
Cancel(j) ==
    /\ mem[j] # "none" /\ j \notin cancelled
    /\ cancelled' = cancelled \cup {j}
    /\ UNCHANGED <<shown, saved, key, work, broken, stopping, clock, failures, restarts, said>>

\* The daemon's context ends and wait cancels every job.
Stop ==
    /\ ~stopping
    /\ stopping' = TRUE
    /\ cancelled' = cancelled \cup {j \in Jobs : mem[j] # "none"}
    /\ UNCHANGED <<shown, saved, key, work, broken, clock, failures, restarts, said>>

\* The summaries that newPersistentJobRegistry marks as failed.
Interrupted == {j \in Jobs : disk[j] \in Active}

\* The process ends, by wait or by a kill, and newPersistentJobRegistry loads
\* what it left, marking the interrupted jobs one after the other.
RestartInOrder(position) ==
    LET states == [j \in Jobs |-> IF j \in Interrupted THEN "failed" ELSE disk[j]]
        at == [j \in Jobs |-> IF j \in Interrupted THEN clock + position[j] ELSE diskAt[j]]
    IN /\ restarts < MaxRestarts
       /\ restarts' = restarts + 1
       /\ clock' = clock + Cardinality(Interrupted)
       /\ disk' = Prune(states, at)
       /\ diskAt' = at
       /\ mem' = Prune(states, at)
       /\ memAt' = at
       /\ work' = [j \in Jobs |-> IF work[j] = "none" THEN "none" ELSE "done"]
       /\ cancelled' = {}
       /\ broken' = {}
       /\ stopping' = FALSE
       /\ Say(mem')
       /\ UNCHANGED <<key, failures>>

\* Job IDs are random, so the order of the saved summaries is any order.
Restart ==
    \E position \in Bijection(Interrupted, 1..Cardinality(Interrupted)) :
        RestartInOrder(position)

Next ==
    \/ \E j \in Jobs, k \in Keys : Start(j, k) \/ StartStopping(j, k, TRUE) \/ StartStopping(j, k, FALSE)
    \/ \E j \in Jobs : Begin(j) \/ Update(j, "running") \/ Update(j, "waiting") \/ Cancel(j)
    \/ \E j \in Jobs, r \in Terminal : End(j, r)
    \/ Forget \/ Stop \/ Restart

\* A registered job's goroutine is scheduled, and the work it does returns.
Fairness ==
    \A j \in Jobs : WF_vars(Begin(j)) /\ WF_vars(\E r \in Terminal : End(j, r))

Spec == Init /\ [][Next]_vars /\ Fairness
----------------------------------------------------------------------------
(* Properties *)

States == Active \cup Terminal \cup {"none"}

\* Every variable holds a value of its kind, and the saved history is bounded.
TypeOK ==
    /\ mem \in [Jobs -> States] /\ disk \in [Jobs -> States]
    /\ memAt \in [Jobs -> Nat] /\ diskAt \in [Jobs -> Nat]
    /\ key \in [Jobs -> Keys]
    /\ work \in [Jobs -> {"none", "starting", "running", "done"}]
    /\ cancelled \subseteq Jobs /\ broken \subseteq Jobs
    /\ stopping \in BOOLEAN
    /\ clock \in Nat /\ failures \in Nat /\ restarts \in Nat
    /\ said \in [Jobs -> Terminal \cup {"none"}]
    /\ Cardinality({j \in Jobs : disk[j] \in Terminal}) <= Limit

\* Two goroutines work for the same key at the same time only when the summary
\* of one of them could not be saved: it is shown as failed while it is still
\* being cancelled (startKey looks at the shown state).
OneWorkerPerKey ==
    \A i, j \in Jobs :
        /\ i # j /\ key[i] = key[j]
        /\ work[i] \in {"starting", "running"} /\ work[j] \in {"starting", "running"}
        => broken \cap {i, j} # {}

\* A final state, once shown, is never contradicted: not by a late change, a
\* cancellation, a shutdown, nor a restart that reads the saved summary.
OutcomeIsFinal == \A j \in Jobs : said[j] # "none" /\ mem[j] # "none" => mem[j] = said[j]

\* A job shown as active has an active summary, so that a restart reports it
\* as interrupted instead of forgetting it; and no goroutine outlives a job
\* that is shown as finished unless its summary could not be saved.
ActiveJobsAreDurable ==
    \A j \in Jobs :
        /\ mem[j] \in Active => disk[j] \in Active /\ work[j] \in {"starting", "running"}
        /\ work[j] \in {"starting", "running"} /\ j \notin broken => mem[j] \in Active

\* What clients are told of a job survives a restart, over both.
SummariesHold == OutcomeIsFinal /\ ActiveJobsAreDurable

\* Every job shown as active is eventually shown as finished, whatever fails,
\* is cancelled or is interrupted, or is dropped from a full history when a
\* restart marks more interrupted jobs than the history holds.
ActiveJobsFinish ==
    \A j \in Jobs :
        mem[j] \in Active ~>
            \/ mem[j] \in Terminal
            \/ mem[j] = "none" /\ Cardinality({k \in Jobs : mem[k] \in Terminal}) >= Limit
=============================================================================
