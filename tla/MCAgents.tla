----------------------------- MODULE MCAgents -----------------------------
(* Model-checking instance of Approvals and of LiveContent.  The start of a   *)
(* runtime and the content that runtimes show share no state: they are run    *)
(* one beside the other and not combined.                                     *)
EXTENDS Approvals, LiveContent

CONSTANTS c1, c2, w1, t1, t2, q1

\* Texts that are empty, short and past the limit, with and without a call.
MCReports ==
    {[text |-> text, cut |-> FALSE, activity |-> "work", call |-> NoTool] :
        text \in {<<"a">>, <<"b">>, <<"b", "a">>}} \union
    {[text |-> <<"b">>, cut |-> TRUE, activity |-> "", call |-> [id |-> t1, status |-> "running"]],
     [text |-> <<>>, cut |-> FALSE, activity |-> "work", call |-> [id |-> t2, status |-> "running"]]}

MCEvents == <<3, 1>>

\* One moves while the other is where it begins, where it has nothing to do.
NoStart == Init /\ file = c1
NoContent == ContentInit

MCInit == Init /\ ContentInit

MCNext ==
    \/ NoContent /\ Next /\ UNCHANGED contentVars
    \/ NoStart /\ ContentNext /\ UNCHANGED vars

MCSpec ==
    /\ MCInit
    /\ [][MCNext]_<<vars, contentVars>>
    /\ Fairness /\ ContentFairness
=============================================================================
