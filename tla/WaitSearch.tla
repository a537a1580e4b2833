---------------------------- MODULE WaitSearch ----------------------------
(***************************************************************************)
(* blocksTransitively (blockers.go): whether one item waits, through item  *)
(* blockers, on another.  A depth-first search with an explicit stack, run *)
(* over the manifests that one transaction has read.                       *)
(*                                                                         *)
(* The items are any and wait on each other in any way, cycles and waits   *)
(* on oneself included; the blockers of one item come in any order.  Items *)
(* uses only the answer, which its BlocksTransitively states directly.     *)
(***************************************************************************)
EXTENDS Naturals, FiniteSets, Sequences, SequencesExt

CONSTANT Nodes  \* work item IDs

VARIABLES
    graph,    \* graph[x]: the items that x waits on
    origin,   \* the search asks whether origin waits on goal
    goal,
    stack,
    visited,  \* the items whose blockers were looked at (seen)
    todo,     \* the blockers of the current item still to be looked at
    answer

searchVars == <<graph, origin, goal, stack, visited, todo, answer>>

SearchInit ==
    /\ graph \in [Nodes -> SUBSET Nodes]
    /\ origin \in Nodes /\ goal \in Nodes
    /\ stack = <<origin>>
    /\ visited = {}
    /\ todo = {}
    /\ answer = "none yet"

\* The next item, whose blockers are looked at unless they were before.
Pop ==
    /\ answer = "none yet" /\ todo = {} /\ stack # <<>>
    /\ stack' = Front(stack)
    /\ IF Last(stack) \in visited
          THEN UNCHANGED <<visited, todo>>
          ELSE visited' = visited \union {Last(stack)} /\ todo' = graph[Last(stack)]
    /\ UNCHANGED <<graph, origin, goal, answer>>

\* Mutant: the blockers of the items found are never pushed.
LookOneLevel(x) ==
    /\ answer = "none yet" /\ x \in todo
    /\ todo' = todo \ {x}
    /\ answer' = IF x = goal THEN "yes" ELSE answer
    /\ UNCHANGED <<graph, origin, goal, visited, stack>>

\* One blocker of the current item.
Look(x) ==
    /\ answer = "none yet" /\ x \in todo
    /\ todo' = todo \ {x}
    /\ IF x = goal THEN answer' = "yes" /\ UNCHANGED stack
                   ELSE stack' = Append(stack, x) /\ UNCHANGED answer
    /\ UNCHANGED <<graph, origin, goal, visited>>

Exhaust ==
    /\ answer = "none yet" /\ todo = {} /\ stack = <<>>
    /\ answer' = "no"
    /\ UNCHANGED <<graph, origin, goal, stack, visited, todo>>

SearchNext == Pop \/ (\E x \in Nodes : Look(x)) \/ Exhaust

\* The search runs by itself, inside the transaction that asks.
SearchSpec == SearchInit /\ [][SearchNext]_searchVars

----------------------------------------------------------------------------
(* Properties *)

\* What Items says of a wait graph: no set of items that holds `from` and
\* whatever its members wait on is without somebody who waits on `to`.
Reaches(waits, from, to) ==
    ~ \E s \in SUBSET DOMAIN waits :
        /\ from \in s
        /\ \A x \in s : waits[x] \subseteq s /\ to \notin waits[x]

SearchTypeOK ==
    /\ graph \in [Nodes -> SUBSET Nodes]
    /\ origin \in Nodes /\ goal \in Nodes
    /\ stack \in Seq(Nodes)
    /\ visited \in SUBSET Nodes /\ todo \in SUBSET Nodes
    /\ answer \in {"none yet", "yes", "no"}

\* The stack search of blocksTransitively answers what its reachability
\* specification says on every graph, diamonds and cycles included.
SearchMeetsSpecification ==
    /\ answer = "yes" => Reaches(graph, origin, goal)
    /\ answer = "no" => ~Reaches(graph, origin, goal)

\* Each step of the search answers, looks at the blockers of one more item, or
\* leaves less on the stack and to look at: cycles of waits do not keep it from
\* answering (seen in blocksTransitively).
SearchShrinks ==
    \/ answer' # "none yet"
    \/ visited \subseteq visited' /\ visited' # visited
    \/ /\ visited' = visited
       /\ 2 * Cardinality(todo') + Len(stack') < 2 * Cardinality(todo) + Len(stack)
=============================================================================
