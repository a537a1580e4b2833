------------------------------ MODULE MCFeeds ------------------------------
(* Model-checking instance of ChangeLog and of ConversationImport.  The log   *)
(* of changes and the import of a conversation share no state: they are run   *)
(* one beside the other and not combined.                                     *)
EXTENDS ChangeLog, ConversationImport

CONSTANTS i1, i2, r1, m1, m2

\* One moves while the other is where it begins.
NoChanges == LogInit
NoImports == ImportInit

MCInit == LogInit /\ ImportInit

MCNext ==
    \/ NoImports /\ LogNext /\ UNCHANGED importVars
    \/ NoChanges /\ ImportNext /\ UNCHANGED logVars

\* The fairness of both; an import is due while it is its turn.
MCSpec ==
    /\ MCInit
    /\ [][MCNext]_<<logVars, importVars>>
    /\ LogFairness
    /\ \A i \in Importers : WF_importVars(NoChanges /\ ImportStep(i) /\ UNCHANGED logVars)
=============================================================================
