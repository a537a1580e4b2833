---------------------------- MODULE MCCommands ----------------------------
(* Model-checking instance of Delivery and of NativeWrites.  Messages to an   *)
(* agent and the writes of descriptions share no state: they are run one      *)
(* beside the other and not combined.                                         *)
EXTENDS Delivery, NativeWrites

CONSTANTS m1, m2, i1

\* One moves while the other has nothing to do: there are no messages yet, or
\* the daemon is up and no description was ever written.
NoDelivery == Init
NoWrites ==
    /\ up = "serving" /\ input = NoInput
    /\ sequence = 0 /\ failures = 0 /\ edits = 0

MCInit == Init /\ NativeInit

MCNext ==
    \/ NoWrites /\ Next /\ UNCHANGED nativeVars
    \/ NoDelivery /\ NativeNext /\ UNCHANGED vars

MCSpec ==
    /\ MCInit
    /\ [][MCNext]_<<vars, nativeVars>>
    /\ Fairness /\ NativeFairness
=============================================================================
