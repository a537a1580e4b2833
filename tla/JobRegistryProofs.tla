------------------------- MODULE JobRegistryProofs -------------------------
(***************************************************************************)
(* Proofs about JobRegistry, for every set of job IDs and keys and every   *)
(* value of the limits: who works for a key, and what a job's summary      *)
(* says across saves that fail, shutdowns and restarts.  That active jobs  *)
(* finish is left to TLC.                                                  *)
(***************************************************************************)
EXTENDS JobRegistry, TLAPS

----------------------------------------------------------------------------
(* The inductive invariant *)

\* The part of the type invariant that the properties depend on: not when jobs
\* finished, nor how many of them are kept.
StatesTyped ==
    /\ mem \in [Jobs -> States] /\ disk \in [Jobs -> States]
    /\ DOMAIN key = Jobs
    /\ work \in [Jobs -> {"none", "starting", "running", "done"}]
    /\ said \in [Jobs -> Terminal \cup {"none"}]

Working(j) == work[j] \in {"starting", "running"}

\* A job whose summary could not be saved was started, and is not shown as
\* active any more.
BrokenIsOver == \A j \in Jobs : j \in broken => work[j] # "none" /\ mem[j] \notin Active

\* What is shown as final is remembered as such; the saved summary of a job with
\* a final state has that state or is gone, or the state is "failed" and a
\* restart will say so.
SavedAgrees ==
    \A j \in Jobs :
        /\ mem[j] \in Terminal => said[j] # "none"
        /\ said[j] # "none" =>
              disk[j] \in {said[j], "none"} \/ (disk[j] \in Active /\ said[j] = "failed")

JobInv ==
    /\ StatesTyped
    /\ OneWorkerPerKey
    /\ OutcomeIsFinal
    /\ ActiveJobsAreDurable
    /\ BrokenIsOver
    /\ SavedAgrees

----------------------------------------------------------------------------
(* What pruning and saving do *)

\* Pruning the history removes finished jobs and nothing else (pruneLocked).
LEMMA PruneRemovesFinished ==
    ASSUME NEW states \in [Jobs -> States], NEW at
    PROVE  /\ Prune(states, at) \in [Jobs -> States]
           /\ \A j \in Jobs : \/ Prune(states, at)[j] = states[j]
                              \/ states[j] \in Terminal /\ Prune(states, at)[j] = "none"
BY DEF Prune, Excess, States

\* Saving job j in state s leaves every other summary as it is or prunes it
\* (SaveAPIJob).
LEMMA SavedStates ==
    ASSUME disk \in [Jobs -> States], NEW j \in Jobs, NEW s \in States, NEW t
    PROVE  /\ Saved(j, s, t) \in [Jobs -> States]
           /\ \A i \in Jobs :
                 LET new == IF i = j THEN s ELSE disk[i] IN
                 Saved(j, s, t)[i] = new \/ (new \in Terminal /\ Saved(j, s, t)[i] = "none")
<1> DEFINE states == [disk EXCEPT ![j] = s]
<1>1. states \in [Jobs -> States] /\ \A i \in Jobs : states[i] = IF i = j THEN s ELSE disk[i]
  OBVIOUS
<1> HIDE DEF states
<1>2. CASE s \in Terminal
  <2>1. Saved(j, s, t) = Prune(states, [diskAt EXCEPT ![j] = t])
    BY <1>2 DEF Saved, states
  <2> QED BY <1>1, <2>1, PruneRemovesFinished
<1>3. CASE s \notin Terminal
  <2>1. Saved(j, s, t) = states
    BY <1>3 DEF Saved, states
  <2> QED BY <1>1, <2>1
<1> QED BY <1>2, <1>3

\* What is said of a job is the first final state it is shown in.
LEMMA SayStates ==
    ASSUME said \in [Jobs -> Terminal \cup {"none"}], NEW states \in [Jobs -> States], Say(states)
    PROVE  /\ said' \in [Jobs -> Terminal \cup {"none"}]
           /\ \A j \in Jobs : said'[j] = IF said[j] = "none" /\ states[j] \in Terminal
                                         THEN states[j] ELSE said[j]
BY DEF Say, States, Active, Terminal

\* While a job works and could be saved, no final state of it was shown.
LEMMA WorkingIsUnsaid ==
    ASSUME JobInv, NEW j \in Jobs, Working(j), j \notin broken
    PROVE  said[j] = "none" /\ mem[j] \in Active
BY DEF JobInv, StatesTyped, Working, ActiveJobsAreDurable, OutcomeIsFinal, Active, Terminal

----------------------------------------------------------------------------
(* The invariant is inductive *)

\* A change of a working job that is saved (jobRun.change): the goroutine goes
\* on if the new state is active and has returned if it is final.
LEMMA ChangeSavedKeeps ==
    ASSUME JobInv, NEW j \in Jobs, NEW s \in Active \cup Terminal, ChangeSaved(j, s), Working(j),
           UNCHANGED key, work' \in [Jobs -> {"none", "starting", "running", "done"}],
           \A i \in Jobs : i # j => work'[i] = work[i],
           work'[j] = IF s \in Active THEN "running" ELSE "done"
    PROVE  JobInv'
<1> USE DEF JobInv, StatesTyped, States, Active, Terminal, Working
<1>1. s \in States /\ j \notin broken /\ said[j] = "none"
  BY WorkingIsUnsaid DEF ChangeSaved
<1>2. /\ disk' \in [Jobs -> States]
      /\ \A i \in Jobs : LET new == IF i = j THEN s ELSE disk[i] IN
                         disk'[i] = new \/ (new \in Terminal /\ disk'[i] = "none")
  BY <1>1, SavedStates DEF ChangeSaved
<1>3. mem' = [mem EXCEPT ![j] = s] /\ mem' \in [Jobs -> States]
  BY <1>1 DEF ChangeSaved
<1>4. /\ said' \in [Jobs -> Terminal \cup {"none"}]
      /\ \A i \in Jobs : said'[i] = IF said[i] = "none" /\ mem'[i] \in Terminal THEN mem'[i] ELSE said[i]
  BY <1>3, SayStates DEF ChangeSaved
<1>5. StatesTyped'
  BY <1>2, <1>3, <1>4
<1>6. OneWorkerPerKey'
  BY DEF OneWorkerPerKey, ChangeSaved
<1>7. OutcomeIsFinal'
  BY <1>1, <1>3, <1>4 DEF OutcomeIsFinal
<1>8. ActiveJobsAreDurable'
  BY <1>1, <1>2, <1>3 DEF ActiveJobsAreDurable, ChangeSaved
<1>9. BrokenIsOver'
  BY <1>1, <1>3 DEF BrokenIsOver, ChangeSaved
<1>10. SavedAgrees'
  BY <1>1, <1>2, <1>3, <1>4 DEF SavedAgrees
<1> QED BY <1>5, <1>6, <1>7, <1>8, <1>9, <1>10

\* A change of a working job that cannot be saved: the job is shown as failed
\* from then on, and its goroutine may go on until it notices.
LEMMA ChangeFailedKeeps ==
    ASSUME JobInv, NEW j \in Jobs, ChangeFailed(j), Working(j), UNCHANGED key,
           work' \in [Jobs -> {"none", "starting", "running", "done"}],
           \A i \in Jobs : i # j => work'[i] = work[i], work'[j] \in {work[j], "done"}
    PROVE  JobInv'
<1> USE DEF JobInv, StatesTyped, States, Active, Terminal, Working
<1>1. /\ j \notin broken /\ said[j] = "none" /\ broken' = broken \cup {j}
      /\ mem[j] \in Active /\ UNCHANGED disk
  BY WorkingIsUnsaid DEF ChangeFailed
<1>2. mem' = [mem EXCEPT ![j] = "failed"] /\ mem' \in [Jobs -> States]
  BY DEF ChangeFailed
<1>3. /\ said' \in [Jobs -> Terminal \cup {"none"}]
      /\ \A i \in Jobs : said'[i] = IF said[i] = "none" /\ mem'[i] \in Terminal THEN mem'[i] ELSE said[i]
  BY <1>2, SayStates DEF ChangeFailed
<1>4. StatesTyped'
  BY <1>1, <1>2, <1>3
<1>5. OneWorkerPerKey'
  BY <1>1 DEF OneWorkerPerKey
<1>6. OutcomeIsFinal'
  BY <1>1, <1>2, <1>3 DEF OutcomeIsFinal
<1>7. ActiveJobsAreDurable'
  BY <1>1, <1>2 DEF ActiveJobsAreDurable
<1>8. BrokenIsOver'
  BY <1>1, <1>2 DEF BrokenIsOver
<1>9. SavedAgrees'
  BY <1>1, <1>2, <1>3 DEF SavedAgrees, ActiveJobsAreDurable
<1> QED BY <1>4, <1>5, <1>6, <1>7, <1>8, <1>9

\* One step per action.
LEMMA JobInvInductive ==
    ASSUME JobInv, [Next]_vars
    PROVE  JobInv'
<1> USE DEF JobInv, StatesTyped, States, Active, Terminal, Working
<1>1. ASSUME NEW j \in Jobs, NEW k \in Keys, Start(j, k) PROVE JobInv'
  <2>1. /\ disk' \in [Jobs -> States]
        /\ disk' = [disk EXCEPT ![j] = "queued"]
    BY <1>1 DEF Start, Saved
  <2>2. /\ mem' \in [Jobs -> States] /\ mem'[j] = "queued"
        /\ \A i \in Jobs : i # j => mem'[i] = mem[i] \/ (mem[i] \in Terminal /\ mem'[i] = "none")
    BY <1>1, PruneRemovesFinished DEF Start
  <2>3. /\ work' = [work EXCEPT ![j] = "starting"] /\ key' = [key EXCEPT ![j] = k]
        /\ UNCHANGED <<broken, said>>
        /\ mem[j] = "none" /\ disk[j] = "none" /\ work[j] = "none" /\ said[j] = "none"
        /\ \A i \in Jobs : key[i] = k => mem[i] \notin Active
    BY <1>1 DEF Start, Fresh, Busy
  <2>4. StatesTyped'
    BY <2>1, <2>2, <2>3
  <2>5. OneWorkerPerKey'
    BY <2>3 DEF OneWorkerPerKey, ActiveJobsAreDurable
  <2>6. OutcomeIsFinal'
    BY <2>2, <2>3 DEF OutcomeIsFinal
  <2>7. ActiveJobsAreDurable'
    BY <2>1, <2>2, <2>3 DEF ActiveJobsAreDurable
  <2>8. BrokenIsOver'
    BY <2>2, <2>3 DEF BrokenIsOver
  <2>9. SavedAgrees'
    BY <2>1, <2>2, <2>3 DEF SavedAgrees
  <2> QED BY <2>4, <2>5, <2>6, <2>7, <2>8, <2>9
<1>2. ASSUME NEW j \in Jobs, NEW k \in Keys, NEW ok \in BOOLEAN, StartStopping(j, k, ok)
      PROVE  JobInv'
  <2>1. /\ disk' \in [Jobs -> States]
        /\ \A i \in Jobs : LET new == IF i = j THEN "cancelled" ELSE disk[i] IN
                           disk'[i] = disk[i] \/ disk'[i] = new \/ (new \in Terminal /\ disk'[i] = "none")
    BY <1>2, SavedStates DEF StartStopping
  <2>2. mem' = [mem EXCEPT ![j] = "cancelled"] /\ mem' \in [Jobs -> States]
    BY <1>2 DEF StartStopping
  <2>3. /\ said' \in [Jobs -> Terminal \cup {"none"}]
        /\ \A i \in Jobs : said'[i] = IF said[i] = "none" /\ mem'[i] \in Terminal THEN mem'[i] ELSE said[i]
    BY <1>2, <2>2, SayStates DEF StartStopping
  <2>4. /\ UNCHANGED <<work, broken>> /\ key' = [key EXCEPT ![j] = k]
        /\ mem[j] = "none" /\ disk[j] = "none" /\ work[j] = "none" /\ said[j] = "none"
    BY <1>2 DEF StartStopping, Fresh
  <2>5. StatesTyped'
    BY <2>1, <2>2, <2>3, <2>4
  <2>6. OneWorkerPerKey'
    BY <2>4 DEF OneWorkerPerKey
  <2>7. OutcomeIsFinal'
    BY <2>2, <2>3, <2>4 DEF OutcomeIsFinal
  <2>8. ActiveJobsAreDurable'
    BY <2>1, <2>2, <2>4 DEF ActiveJobsAreDurable
  <2>9. BrokenIsOver'
    BY <2>2, <2>4 DEF BrokenIsOver
  <2>10. SavedAgrees'
    BY <2>1, <2>2, <2>3, <2>4 DEF SavedAgrees
  <2> QED BY <2>5, <2>6, <2>7, <2>8, <2>9, <2>10
<1>3. ASSUME NEW j \in Jobs, Begin(j) PROVE JobInv'
  <2>1. CASE ChangeSaved(j, "running") /\ work' = [work EXCEPT ![j] = "running"]
    BY <1>3, <2>1, ChangeSavedKeeps DEF Begin
  <2>2. CASE ChangeFailed(j) /\ work' = [work EXCEPT ![j] = "done"]
    BY <1>3, <2>2, ChangeFailedKeeps DEF Begin
  <2> QED BY <1>3, <2>1, <2>2 DEF Begin
<1>4. ASSUME NEW j \in Jobs, NEW s \in {"running", "waiting"}, Update(j, s) PROVE JobInv'
  <2>1. CASE ChangeSaved(j, s)
    BY <1>4, <2>1, ChangeSavedKeeps DEF Update
  <2>2. CASE ChangeFailed(j)
    BY <1>4, <2>2, ChangeFailedKeeps DEF Update
  <2> QED BY <1>4, <2>1, <2>2 DEF Update
<1>5. ASSUME NEW j \in Jobs, NEW r \in Terminal, End(j, r) PROVE JobInv'
  <2>1. work[j] = "running" /\ work' = [work EXCEPT ![j] = "done"] /\ UNCHANGED key
    BY <1>5 DEF End
  <2>2. CASE ChangeSaved(j, Final(r))
    BY <2>1, <2>2, ChangeSavedKeeps DEF Final
  <2>3. CASE ChangeFailed(j)
    BY <2>1, <2>3, ChangeFailedKeeps
  <2>4. CASE ChangeRefused(j)
    BY <2>1, <2>4 DEF ChangeRefused, shown, saved, OneWorkerPerKey, OutcomeIsFinal,
       ActiveJobsAreDurable, BrokenIsOver, SavedAgrees
  <2> QED BY <1>5, <2>2, <2>3, <2>4 DEF End
<1>6. CASE Forget
  <2>1. /\ mem' \in [Jobs -> States]
        /\ \A i \in Jobs : mem'[i] = mem[i] \/ (mem[i] \in Terminal /\ mem'[i] = "none")
    BY <1>6, PruneRemovesFinished DEF Forget
  <2> QED
    BY <1>6, <2>1 DEF Forget, saved, OneWorkerPerKey, OutcomeIsFinal, ActiveJobsAreDurable,
       BrokenIsOver, SavedAgrees
<1>7. ASSUME NEW j \in Jobs, Cancel(j) PROVE JobInv'
  BY <1>7 DEF Cancel, shown, saved, OneWorkerPerKey, OutcomeIsFinal, ActiveJobsAreDurable,
     BrokenIsOver, SavedAgrees
<1>8. CASE Stop
  BY <1>8 DEF Stop, shown, saved, OneWorkerPerKey, OutcomeIsFinal, ActiveJobsAreDurable,
     BrokenIsOver, SavedAgrees
<1>9. CASE Restart
  <2>1. PICK position \in Bijection(Interrupted, 1..Cardinality(Interrupted)) : RestartInOrder(position)
    BY <1>9 DEF Restart
  <2> DEFINE states == [j \in Jobs |-> IF j \in Interrupted THEN "failed" ELSE disk[j]]
             at == [j \in Jobs |-> IF j \in Interrupted THEN clock + position[j] ELSE diskAt[j]]
  <2>2. /\ mem' = Prune(states, at) /\ disk' = mem' /\ Say(mem') /\ UNCHANGED key
        /\ work' = [j \in Jobs |-> IF work[j] = "none" THEN "none" ELSE "done"]
        /\ broken' = {}
    BY <2>1 DEF RestartInOrder
  <2>3. states \in [Jobs -> States] /\ \A j \in Jobs : states[j] = IF disk[j] \in Active THEN "failed" ELSE disk[j]
    BY DEF Interrupted
  <2> HIDE DEF states, at
  <2>4. /\ mem' \in [Jobs -> States]
        /\ \A j \in Jobs : mem'[j] = states[j] \/ (states[j] \in Terminal /\ mem'[j] = "none")
    BY <2>2, <2>3, PruneRemovesFinished
  <2>5. /\ said' \in [Jobs -> Terminal \cup {"none"}]
        /\ \A j \in Jobs : said'[j] = IF said[j] = "none" /\ mem'[j] \in Terminal THEN mem'[j] ELSE said[j]
    BY <2>2, <2>4, SayStates
  <2>6. StatesTyped'
    BY <2>2, <2>4, <2>5
  <2>7. \A j \in Jobs : mem'[j] \notin Active /\ ~Working(j)'
    BY <2>2, <2>3, <2>4
  <2>8. OneWorkerPerKey' /\ ActiveJobsAreDurable' /\ BrokenIsOver'
    BY <2>2, <2>7 DEF OneWorkerPerKey, ActiveJobsAreDurable, BrokenIsOver
  <2>9. \A j \in Jobs :
           /\ mem'[j] \in Terminal => said'[j] # "none"
           /\ said'[j] # "none" => mem'[j] \in {said'[j], "none"}
    BY <2>3, <2>4, <2>5 DEF SavedAgrees
  <2>10. OutcomeIsFinal'
    BY <2>9 DEF OutcomeIsFinal
  <2>11. disk' = mem'
    BY <2>2
  <2>12. SavedAgrees'
    BY ONLY <2>9, <2>11 DEF SavedAgrees
  <2> QED BY <2>6, <2>8, <2>10, <2>12
<1>10. CASE UNCHANGED vars
  BY <1>10 DEF vars, shown, saved, OneWorkerPerKey, OutcomeIsFinal, ActiveJobsAreDurable,
     BrokenIsOver, SavedAgrees
<1> QED
  BY <1>1, <1>2, <1>3, <1>4, <1>5, <1>6, <1>7, <1>8, <1>9, <1>10 DEF Next

\* The invariant holds of every reachable state.
THEOREM JobInvariant == Spec => []JobInv
<1>1. Init => JobInv
  BY DEF Init, JobInv, StatesTyped, States, Active, Terminal, OneWorkerPerKey, OutcomeIsFinal,
     ActiveJobsAreDurable, BrokenIsOver, SavedAgrees
<1>2. JobInv /\ [Next]_vars => JobInv'
  BY JobInvInductive
<1> QED BY <1>1, <1>2, PTL DEF Spec

----------------------------------------------------------------------------
(* What follows *)

\* Two goroutines work for one key only when the summary of one of them could
\* not be saved (startKey).
THEOREM OneWorker == Spec => []OneWorkerPerKey
<1>1. JobInv => OneWorkerPerKey
  BY DEF JobInv
<1> QED BY <1>1, JobInvariant, PTL

\* A final state is never contradicted, and an active job has an active
\* summary and a goroutine (jobRun.change, newPersistentJobRegistry).
THEOREM SummariesSurvive == Spec => []SummariesHold
<1>1. JobInv => SummariesHold
  BY DEF JobInv, SummariesHold
<1> QED BY <1>1, JobInvariant, PTL
=============================================================================
