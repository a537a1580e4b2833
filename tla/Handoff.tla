------------------------------ MODULE Handoff ------------------------------
(***************************************************************************)
(* What sending a message promises, without saying how: a message is       *)
(* handed at most once to each runtime of the item's agent, in the order   *)
(* of the runtimes, and is confirmed once it was handed over, for good;    *)
(* a confirmed message is not handed over again.                           *)
(***************************************************************************)
EXTENDS Naturals

CONSTANTS Messages, Runtimes

VARIABLES log,        \* log[m][r]: how often runtime r was given message m
          confirmed   \* the messages whose sender may be told it arrived

Init ==
    /\ log = [m \in Messages |-> [r \in Runtimes |-> 0]]
    /\ confirmed = {}

HandOver(m, r) ==
    /\ m \notin confirmed
    /\ \A later \in Runtimes : later >= r => log[m][later] = 0
    /\ log' = [log EXCEPT ![m][r] = 1]
    /\ UNCHANGED confirmed

Confirm(m) ==
    /\ \E r \in Runtimes : log[m][r] = 1
    /\ confirmed' = confirmed \union {m}
    /\ UNCHANGED log

Next == \E m \in Messages : Confirm(m) \/ \E r \in Runtimes : HandOver(m, r)

Spec == Init /\ [][Next]_<<log, confirmed>>
=============================================================================
