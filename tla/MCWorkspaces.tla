---------------------------- MODULE MCWorkspaces ----------------------------
(* Model-checking instances of Workspaces. *)
EXTENDS Workspaces

CONSTANTS i1, i2

\* Two claims are taken in all: two by the first item, or one by each.  The
\* second item is there to compete for the slots: it claims, is edited and
\* releases, without blocker, setup or agent.  Once it takes part, the first
\* one claims, works with an agent, is shelved, committed and released, without
\* setup hooks, blockers, a close or a detached HEAD: it does these alone.
Focus ==
    /\ item[i1].gen + item[i2].gen <= 2 /\ item[i2].gen <= 1
    /\ item[i2].blocker = None /\ item[i2].state # "closed"
    /\ op[i2].kind \in {"ensure", "release"}
    /\ setup[i2].status = "none"
    /\ item[i2].state = "active" \/ item[i2].gen > 0 \/ raced # {} =>
          /\ item[i1].blocker = None /\ cleared[i1] = {}
          /\ setup[i1].status \in {"none", "skipped"} /\ ~op[i1].force
          /\ Idle(i1) \/ op[i1].kind \in {"start", "shelve"}
          /\ \A n \in Slots : branch[n] # Detached
=============================================================================
