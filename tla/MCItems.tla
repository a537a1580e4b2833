------------------------------ MODULE MCItems ------------------------------
(* Model-checking instance of Items and of the search for a cycle of waits. *)
EXTENDS Items, WaitSearch

CONSTANTS i1, i2, i3, b1

\* Two titles whose slugs collide with each other's numbered forms: "a" and "a 2".
MCTitles == {"a", "a 2"}
MCSlugs == {"a", "a-2", "a-3", "a-2-2", "a-2-3"}
MCSlugify == [t \in MCTitles |-> IF t = "a" THEN "a" ELSE "a-2"]
MCNumbered ==
    [s \in MCSlugs |->
        [k \in 2..3 |-> CASE s = "a" /\ k = 2 -> "a-2"
                          [] s = "a" /\ k = 3 -> "a-3"
                          [] s = "a-2" /\ k = 2 -> "a-2-2"
                          [] OTHER -> "a-2-3"]]

\* Nothing has a time.  Either slugs collide or items wait, and long waits leave
\* the deep-work flag alone.
Timeless ==
    /\ now = 0
    /\ \A i \in Items : \A b \in blockers[i] : b.kind # "time"
    /\ \/ \A i \in Items : title[i] = "a" /\ slug[i] \in {"a", "a-2", "a-3", NoSlug}
       \/ \A i \in Items : blockers[i] = {}
    /\ \/ \A i \in Items : ~deepWork[i]
       \/ Cardinality({i \in Items : blockers[i] # {}}) <= 1

\* Two items with one title and no deep work: deadlines and markers.
Timed ==
    /\ excused = {} /\ state[i3] = "none"
    /\ \A i \in Items : title[i] = "a" /\ slug[i] \in {"a", "a-2", NoSlug} /\ ~deepWork[i]

\* Features that do not interact are not combined: they make too many states.
OneFeature == Timeless \/ Timed

----------------------------------------------------------------------------
(* The search has variables of its own and Items needs only its answer, so    *)
(* the two are run one beside the other and not combined: a search moves while *)
(* there are no items, and items beside one search that has not begun.        *)

NoItems == now = 0 /\ \A i \in Items : state[i] = "none"
OneSearch == stack # <<>> /\ visited = {} /\ graph = [i \in Items |-> {}] /\ {origin, goal} = {i1}

MCInit == Init /\ SearchInit

MCNext ==
    \/ NoItems /\ SearchNext /\ UNCHANGED vars
    \/ OneSearch /\ Next /\ UNCHANGED searchVars

MCSpec ==
    /\ MCInit
    /\ [][MCNext]_<<vars, searchVars>>
    /\ Fairness
=============================================================================
