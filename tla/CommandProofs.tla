---------------------------- MODULE CommandProofs ----------------------------
(***************************************************************************)
(* Proofs about what a command leaves for other hands to carry out:        *)
(* Delivery, where a message goes to the agent's driver, and NativeWrites, *)
(* where a description goes to its file.                                   *)
(*                                                                         *)
(* Delivery, for every set of messages and every value of the bounds: its  *)
(* inductive invariant, what a client may conclude from the answers it     *)
(* gets, and that Delivery implements Handoff.  NativeWrites, for all      *)
(* items, commands, texts and bounds: its inductive invariant, that the    *)
(* files follow the items, and what startup settles.  That every call ends *)
(* and that the daemon comes up are left to TLC.                           *)
(***************************************************************************)
EXTENDS Delivery, NativeWrites, FiniteSetTheorems, SequenceTheorems, TLAPS

(***************************************************************************)
(*                                Delivery                                 *)
(***************************************************************************)
----------------------------------------------------------------------------
(* The inductive invariant *)

\* The driver knows exactly the messages it gave to the agent it runs, each
\* of them once, and no later runtime was given any.
DriverRemembers ==
    /\ Online => runtime.id > 0
    /\ \A m \in Messages :
          /\ orphans[m] > 0 => Online
          /\ m \in handled <=> (runtime.id > 0 /\ log[m][runtime.id] = 1)
          /\ \A r \in Runtimes : /\ log[m][r] \in {0, 1}
                                 /\ r > runtime.id => log[m][r] = 0

\* While a call is under way the receipt it read or made is the stored one,
\* and is pending; it waits only for the running runtime it reserved the handoff
\* on.
CallOwnsReceipt ==
    /\ call.pc # "idle" => call.m \in Messages /\ ~receipt[call.m].delivered
    /\ call.pc \in {"record", "submit", "wait", "answered"} => call.receipt = receipt[call.m]
    /\ call.pc = "wait" => call.receipt.runtime = runtime.id /\ Online
    /\ call.pc = "answered" /\ call.answer = "accepted" => call.m \in handled

\* A delivered message was handed over, and a request that is still about
\* finds it known to the driver.
DeliveredIsKnown ==
    \A m \in Messages : receipt[m].delivered =>
       /\ \E r \in Runtimes : log[m][r] = 1
       /\ orphans[m] > 0 => m \in handled

\* Unless a refusal dropped its receipt, a message that was or still may be
\* handed over has the receipt of that runtime.
ReceiptNamesRuntime ==
    \A m \in Messages : m \notin dropped =>
       /\ \A r \in Runtimes : log[m][r] > 0 => receipt[m].runtime = r
       /\ orphans[m] > 0 => receipt[m].runtime = runtime.id

\* A message all of whose attempts are settled was handed over only by a
\* delivery, or by the attempt under way, and that one was not refused.
SettledIsKnown ==
    \A m \in Messages : m \notin uncertain =>
       LET answered == call.m = m /\ call.pc = "answered" IN
       /\ \A r \in Runtimes : log[m][r] > 0 =>
             receipt[m].delivered \/ (answered /\ call.answer \in {"accepted", "lost"})
       /\ orphans[m] > 0 => answered /\ call.answer = "lost"

\* The client that was told "refused" is not sending the message, and it has
\* not been delivered since.
RefusalStands ==
    \A m \in Messages : told[m] = "refused" =>
       /\ call.pc # "idle" => call.m # m
       /\ ~receipt[m].delivered

HandoffInv ==
    /\ DriverRemembers
    /\ CallOwnsReceipt
    /\ DeliveredIsKnown
    /\ ReceiptNamesRuntime
    /\ SettledIsKnown
    /\ RefusalStands

DeliveryInv == TypeOK /\ HandoffInv

----------------------------------------------------------------------------
(* Type correctness *)

\* The empty receipt and the empty call are typed.
LEMMA NoneTyped == NoReceipt \in Receipts /\ NoCall \in Calls
<1>1. NoReceipt \in Receipts
  BY BoundsAssumption DEF NoReceipt, Receipts, None
<1> QED BY <1>1, BoundsAssumption DEF NoCall, Calls

\* What the driver does with a command: it gives a message it does not know
\* to the agent, or nothing changes (handleControlRequest).
LEMMA EffectCases ==
    ASSUME NEW m \in Messages, NEW guarded \in BOOLEAN, NEW written \in BOOLEAN,
           Effect(m, Verdict(m, guarded, written))
    PROVE  \/ /\ Verdict(m, guarded, written) = "submitted"
              /\ m \notin handled /\ runtime.phase = "ready"
              /\ handled' = handled \union {m}
              /\ log' = [log EXCEPT ![m][runtime.id] = @ + 1]
              /\ runtime' = [runtime EXCEPT !.busy = TRUE]
           \/ /\ Verdict(m, guarded, written) \in {"accepted", "refused"}
              /\ UNCHANGED <<handled, log, runtime>>
              /\ Verdict(m, guarded, written) = "accepted" => m \in handled
BY DEF Effect, Verdict

\* Whatever the driver does, its own state and the log stay typed.
LEMMA EffectType ==
    ASSUME TypeOK, NEW m \in Messages, NEW guarded \in BOOLEAN, NEW written \in BOOLEAN,
           Effect(m, Verdict(m, guarded, written))
    PROVE  /\ handled' \subseteq Messages
           /\ log' \in [Messages -> [Runtimes -> Nat]]
           /\ runtime' \in RuntimeStates
           /\ runtime'.id = runtime.id /\ runtime'.phase = runtime.phase
<1>0. \/ /\ handled' = handled \union {m}
         /\ log' = [log EXCEPT ![m][runtime.id] = @ + 1]
         /\ runtime' = [runtime EXCEPT !.busy = TRUE]
      \/ UNCHANGED <<handled, log, runtime>>
  BY EffectCases
<1>1. runtime' \in RuntimeStates /\ runtime'.id = runtime.id /\ runtime'.phase = runtime.phase
  <2>1. runtime' = [runtime EXCEPT !.busy = TRUE] \/ runtime' = runtime
    BY <1>0
  <2> QED BY <2>1 DEF TypeOK, RuntimeStates
<1>2. handled' \subseteq Messages
  BY <1>0 DEF TypeOK
<1>3. log' \in [Messages -> [Runtimes -> Nat]]
  <2>1. log \in [Messages -> [Runtimes -> Nat]]
    BY DEF TypeOK
  <2>2. [log[m] EXCEPT ![runtime.id] = @ + 1] \in [Runtimes -> Nat]
    <3>1. log[m] \in [Runtimes -> Nat]
      BY <2>1
    <3>2. CASE runtime.id \in Runtimes
      BY <3>1, <3>2
    <3>3. CASE runtime.id \notin Runtimes
      BY <3>1, <3>3
    <3> QED BY <3>2, <3>3
  <2> QED BY <1>0, <2>1, <2>2
<1> QED BY <1>1, <1>2, <1>3

\* Starting a runtime keeps its state typed.
LEMMA NewRuntimeType ==
    ASSUME TypeOK, NewRuntime
    PROVE  /\ runtime' \in RuntimeStates /\ handled' \subseteq Messages
           /\ orphans' \in [Messages -> 0 .. MaxOrphans]
BY BoundsAssumption DEF TypeOK, NewRuntime, RuntimeStates

\* One step per action.  A call under way is about a message.
LEMMA TypeOKInductive ==
    ASSUME TypeOK, call.pc # "idle" => call.m \in Messages, [Next]_vars
    PROVE  TypeOK'
<1>1. CASE StartAgent
  BY <1>1, NewRuntimeType DEF StartAgent, TypeOK
<1>2. CASE Turn
  BY <1>2 DEF Turn, TypeOK, RuntimeStates
<1>3. ASSUME NEW guarded \in BOOLEAN, StopAgent(guarded) PROVE TypeOK'
  BY <1>3 DEF StopAgent, TypeOK, RuntimeStates
<1>4. ASSUME NEW ok \in BOOLEAN, AnswerShutdown(ok) PROVE TypeOK'
  BY <1>4 DEF AnswerShutdown, TypeOK, RuntimeStates
<1>5. ASSUME NEW refused \in BOOLEAN, Exit(refused) PROVE TypeOK'
  <2>1. call' \in Calls
    BY <1>5 DEF Exit, TypeOK, Calls
  <2>2. runtime' \in RuntimeStates
    BY <1>5 DEF Exit, TypeOK, RuntimeStates
  <2>3. orphans' \in [Messages -> 0 .. MaxOrphans]
    BY <1>5, BoundsAssumption DEF Exit
  <2> QED BY <1>5, <2>1, <2>2, <2>3 DEF Exit, TypeOK
<1>6. ASSUME NEW m \in Messages, Send(m) PROVE TypeOK'
  <2>1. [NoCall EXCEPT !.pc = IF Online THEN "check" ELSE "start", !.m = m] \in Calls
    BY NoneTyped DEF Calls
  <2>2. call' \in Calls
    BY <1>6, <2>1 DEF Send, TypeOK
  <2> QED BY <1>6, <2>2 DEF Send, TypeOK
<1>7. CASE TakeLease
  BY <1>7, NewRuntimeType DEF TakeLease, TypeOK
<1>8. ASSUME NEW m \in Messages, NEW guarded \in BOOLEAN, NEW written \in BOOLEAN,
             HandleOrphan(m, guarded, written)
      PROVE  TypeOK'
  <2>1. orphans' \in [Messages -> 0 .. MaxOrphans]
    BY <1>8, BoundsAssumption DEF HandleOrphan, TypeOK
  <2> QED BY <1>8, <2>1, EffectType DEF HandleOrphan, TypeOK
<1>9. CASE Deadline
  <2>1. call' \in Calls
    BY <1>9 DEF Deadline, TypeOK, Calls
  <2>2. orphans' \in [Messages -> 0 .. MaxOrphans]
    BY <1>9, BoundsAssumption DEF Deadline, TypeOK
  <2> QED BY <1>9, <2>1, <2>2 DEF Deadline, TypeOK
<1>10. CASE Crash
  <2>1. call' \in Calls
    BY <1>10, NoneTyped DEF Crash, Return
  <2>2. orphans' \in [Messages -> 0 .. MaxOrphans]
    BY <1>10, BoundsAssumption DEF Crash, TypeOK
  <2> QED BY <1>10, <2>1, <2>2 DEF Crash, Return, TypeOK
<1>11. CASE SendStart
  <2>1. call' \in Calls
    BY <1>11, NoneTyped DEF SendStart, FailEarly, Return, TypeOK, Calls
  <2>2. /\ runtime' \in RuntimeStates /\ handled' \subseteq Messages
        /\ orphans' \in [Messages -> 0 .. MaxOrphans]
    BY <1>11, NewRuntimeType DEF SendStart, FailEarly, TypeOK
  <2> QED BY <1>11, <2>1, <2>2 DEF SendStart, FailEarly, Return, TypeOK
<1>12. ASSUME NEW refused \in BOOLEAN, SendCheck(refused) PROVE TypeOK'
  <2>1. [call EXCEPT !.pc = "record", !.gen = runtime.id, !.receipt = receipt[call.m]] \in Calls
    BY <1>12 DEF SendCheck, TypeOK, Calls, RuntimeStates
  <2>2. call' \in Calls
    BY <1>12, <2>1, NoneTyped DEF SendCheck, FailEarly, Return
  <2> QED BY <1>12, <2>2 DEF SendCheck, FailEarly, Return, TypeOK
<1>13. CASE SendRecord
  <2> DEFINE fresh == [runtime |-> runtime.id, gen |-> call.gen, delivered |-> FALSE]
             mine == IF call.receipt.runtime = None THEN fresh ELSE call.receipt
  <2>1. mine \in Receipts
    <3>1. fresh \in Receipts
      BY DEF TypeOK, Calls, RuntimeStates, Receipts
    <3> QED BY <3>1 DEF TypeOK, Calls
  <2> HIDE DEF mine
  <2>2. [call EXCEPT !.pc = "submit", !.receipt = mine] \in Calls
    BY <2>1 DEF TypeOK, Calls
  <2>3. /\ call' = [call EXCEPT !.pc = "submit", !.receipt = mine] \/ call' = NoCall
        /\ receipt' = [receipt EXCEPT ![call.m] = mine] \/ receipt' = receipt
    BY <1>13 DEF SendRecord, FailEarly, Return, mine
  <2> QED BY <1>13, <2>1, <2>2, <2>3, NoneTyped DEF SendRecord, FailEarly, Return, TypeOK
<1>14. ASSUME NEW admitted \in BOOLEAN, SendSubmit(admitted) PROVE TypeOK'
  <2>1. call' \in Calls
    BY <1>14, NoneTyped DEF SendSubmit, FailEarly, Return, TypeOK, Calls
  <2> QED BY <1>14, <2>1 DEF SendSubmit, FailEarly, Return, TypeOK
<1>15. ASSUME NEW saved \in BOOLEAN, SendEnd(saved) PROVE TypeOK'
  <2>1. [call.receipt EXCEPT !.delivered = TRUE] \in Receipts
    BY DEF TypeOK, Calls, Receipts
  <2>2. receipt' \in [Messages -> Receipts]
    BY <1>15, <2>1, NoneTyped DEF SendEnd, TypeOK
  <2>3. told' \in [Messages -> {"none", "delivered", "refused", "failed"}]
    BY <1>15 DEF SendEnd, Return, TypeOK
  <2> QED BY <1>15, <2>2, <2>3, NoneTyped DEF SendEnd, Return, TypeOK
<1>16. ASSUME NEW guarded \in BOOLEAN, NEW written \in BOOLEAN, Handle(guarded, written)
       PROVE  TypeOK'
  <2>1. call' \in Calls
    BY <1>16 DEF Handle, TypeOK, Calls
  <2> QED BY <1>16, <2>1, EffectType DEF Handle, TypeOK
<1>17. CASE BecomeReady
  BY <1>17 DEF BecomeReady, TypeOK, RuntimeStates
<1>18. CASE UNCHANGED vars
  BY <1>18 DEF vars, TypeOK
<1> QED
  BY <1>1, <1>2, <1>3, <1>4, <1>5, <1>6, <1>7, <1>8, <1>9, <1>10, <1>11, <1>12, <1>13,
     <1>14, <1>15, <1>16, <1>17, <1>18 DEF Next, Continue, Driver

----------------------------------------------------------------------------
(* What the steps do to the invariant *)

\* A new runtime starts with nothing known and nothing pending (StartAgent and
\* the starts inside a send).
LEMMA NewRuntimeKeeps ==
    ASSUME DeliveryInv, NewRuntime, call.pc \in {"idle", "start", "record"},
           call' = call \/ (call.pc = "start" /\ call'.pc = "check" /\ call'.m = call.m),
           UNCHANGED <<receipt, log, uncertain, dropped, told>>
    PROVE  HandoffInv'
<1> USE DEF DeliveryInv, HandoffInv
<1>1. /\ runtime.id \in Nat /\ runtime'.id = runtime.id + 1 /\ runtime'.phase = "starting"
      /\ runtime'.id \in Runtimes
      /\ handled' = {} /\ orphans' = [m \in Messages |-> 0]
  BY BoundsAssumption DEF NewRuntime, TypeOK, RuntimeStates, Runtimes
<1>2. \A m \in Messages : log[m][runtime'.id] = 0
  BY <1>1 DEF DriverRemembers
<1>3. DriverRemembers'
  <2>1. \A m \in Messages, r \in Runtimes : r > runtime'.id => log[m][r] = 0
     BY <1>1 DEF DriverRemembers, Runtimes
  <2> QED BY <1>1, <1>2, <2>1 DEF DriverRemembers, Online
<1>4. CallOwnsReceipt'
  BY <1>1 DEF CallOwnsReceipt
<1>5. DeliveredIsKnown' /\ RefusalStands'
  BY <1>1 DEF DeliveredIsKnown, CallOwnsReceipt, RefusalStands
<1>6. ReceiptNamesRuntime'
  BY <1>1 DEF ReceiptNamesRuntime
<1>7. SettledIsKnown'
  BY <1>1 DEF SettledIsKnown
<1> QED BY <1>3, <1>4, <1>5, <1>6, <1>7

\* A call that fails before its request left changes nothing but its answer.
LEMMA EarlyFailureKeeps ==
    ASSUME DeliveryInv, FailEarly, call.pc \in {"start", "check", "record", "submit"}, UNCHANGED receipt
    PROVE  HandoffInv'
<1> USE DEF DeliveryInv, HandoffInv
<1>1. /\ call'.pc = "idle" /\ told' = [told EXCEPT ![call.m] = "failed"]
      /\ UNCHANGED <<receipt, runtime, handled, orphans, log, uncertain, dropped>>
  BY DEF FailEarly, Return, NoCall
<1>2. DriverRemembers' /\ CallOwnsReceipt' /\ DeliveredIsKnown' 
  BY <1>1 DEF DriverRemembers, CallOwnsReceipt, DeliveredIsKnown, Online
<1>3. ReceiptNamesRuntime' /\ SettledIsKnown' 
  BY <1>1 DEF ReceiptNamesRuntime, SettledIsKnown
<1>4. RefusalStands'
  BY <1>1 DEF RefusalStands, TypeOK
<1> QED BY <1>2, <1>3, <1>4

\* A message the driver does not know is handed to the agent, for the call that
\* waits or for a request without a caller.
LEMMA HandingOverKeeps ==
    ASSUME DeliveryInv, NEW m \in Messages, Online, m \notin handled,
           \/ orphans[m] > 0 /\ call' = call
           \/ /\ call.pc = "wait" /\ call.m = m
              /\ call'.pc = "answered" /\ call'.answer = "accepted"
              /\ call'.m = m /\ call'.receipt = call.receipt,
           orphans' \in [Messages -> Nat], \A n \in Messages : orphans'[n] <= orphans[n],
           handled' = handled \union {m},
           log' = [log EXCEPT ![m][runtime.id] = @ + 1],
           runtime'.id = runtime.id, Online',
           UNCHANGED <<receipt, uncertain, dropped, told>>
    PROVE  HandoffInv'
<1> USE DEF DeliveryInv, HandoffInv
<1>1. /\ runtime.id \in Runtimes /\ log[m][runtime.id] = 0 /\ runtime.id > 0
      /\ \A n \in Messages, r \in Runtimes : log'[n][r] = IF n = m /\ r = runtime.id THEN 1 ELSE log[n][r]
      /\ \A n \in Messages : orphans[n] \in Nat
  BY BoundsAssumption DEF DriverRemembers, TypeOK, RuntimeStates, Runtimes
<1>2. ~receipt[m].delivered
  BY DEF DeliveredIsKnown, CallOwnsReceipt
<1>3. DriverRemembers'
  <2>1. \A n \in Messages : n \in handled' <=> (runtime'.id > 0 /\ log'[n][runtime'.id] = 1)
    BY <1>1 DEF DriverRemembers
  <2>2. \A n \in Messages, r \in Runtimes : log'[n][r] \in {0, 1}
    BY <1>1 DEF DriverRemembers
  <2>3. \A n \in Messages, r \in Runtimes : r > runtime'.id => log'[n][r] = 0
    BY <1>1 DEF DriverRemembers, Runtimes
  <2>4. \A n \in Messages : orphans'[n] > 0 => Online'
    BY DEF DriverRemembers
  <2> QED BY <1>1, <2>1, <2>2, <2>3, <2>4 DEF DriverRemembers
<1>4. CallOwnsReceipt'
  BY <1>1 DEF CallOwnsReceipt
<1>5. DeliveredIsKnown'
  BY <1>1, <1>2 DEF DeliveredIsKnown
<1>6. ReceiptNamesRuntime'
  BY <1>1 DEF ReceiptNamesRuntime, CallOwnsReceipt
<1>7. SettledIsKnown'
  BY <1>1 DEF SettledIsKnown, CallOwnsReceipt
<1>8. RefusalStands'
  BY DEF RefusalStands
<1> QED BY <1>3, <1>4, <1>5, <1>6, <1>7, <1>8


\* The end of a call: the receipt is confirmed, forgotten or left pending.
LEMMA SendEndKeeps ==
    ASSUME DeliveryInv, NEW saved \in BOOLEAN, SendEnd(saved)
    PROVE  HandoffInv'
<1> USE DEF DeliveryInv, HandoffInv
<1> DEFINE m == call.m
           settled == call.answer = "refused" \/ (call.answer = "accepted" /\ saved)
<1>1. /\ m \in Messages /\ call.pc = "answered" /\ call'.pc = "idle"
      /\ ~receipt[m].delivered /\ call.receipt = receipt[m]
      /\ UNCHANGED <<runtime, handled, orphans, log>>
      /\ uncertain' = IF settled THEN uncertain ELSE uncertain \union {m}
      /\ dropped' = IF call.answer = "refused" /\ m \in uncertain THEN dropped \union {m} ELSE dropped
  BY DEF SendEnd, Return, NoCall, CallOwnsReceipt
<1>t. \A n \in Messages : told'[n] = "refused" =>
         IF n = m THEN call.answer = "refused" ELSE told[n] = "refused"
  BY <1>1 DEF SendEnd, Return, TypeOK
<1>2. \A n \in Messages : n # m => receipt'[n] = receipt[n]
  BY <1>1 DEF SendEnd, TypeOK
<1>3. /\ receipt'[m].delivered <=> call.answer = "accepted" /\ saved
      /\ IF call.answer = "refused" THEN receipt'[m].runtime = None ELSE receipt'[m].runtime = receipt[m].runtime
  BY <1>1 DEF SendEnd, TypeOK, Forgets, NoReceipt, Receipts, Calls
<1>4. DriverRemembers' /\ CallOwnsReceipt'
  BY <1>1 DEF DriverRemembers, Online, CallOwnsReceipt
<1>5. DeliveredIsKnown'
  <2>1. call.answer = "accepted" => m \in handled /\ runtime.id \in Runtimes /\ log[m][runtime.id] = 1
    BY <1>1 DEF CallOwnsReceipt, DriverRemembers, TypeOK, RuntimeStates, Runtimes
  <2> QED BY <1>1, <1>2, <1>3, <2>1 DEF DeliveredIsKnown
<1>6. ReceiptNamesRuntime'
  BY <1>1, <1>2, <1>3 DEF ReceiptNamesRuntime, SettledIsKnown
<1>7. SettledIsKnown'
  BY <1>1, <1>2, <1>3 DEF SettledIsKnown
<1>8. RefusalStands'
  BY <1>1, <1>2, <1>3, <1>t DEF RefusalStands
<1> QED BY <1>4, <1>5, <1>6, <1>7, <1>8

\* Whoever waited is gone, at its deadline or with the daemon; the request
\* stays with the runtime.
LEMMA AbandonKeeps ==
    ASSUME DeliveryInv, call.pc = "wait", orphans' \in [Messages -> Nat],
           \A n \in Messages : n # call.m => orphans'[n] = orphans[n],
           \/ /\ call'.pc = "answered" /\ call'.answer = "lost"
              /\ call'.m = call.m /\ call'.receipt = call.receipt
              /\ UNCHANGED <<uncertain, told>>
           \/ /\ call'.pc = "idle" /\ uncertain' = uncertain \union {call.m}
              /\ told' = [told EXCEPT ![call.m] = "failed"],
           UNCHANGED <<receipt, runtime, handled, log, dropped>>, Online
    PROVE  HandoffInv'
<1> USE DEF DeliveryInv, HandoffInv
<1>1. DriverRemembers'
  BY DEF DriverRemembers, Online
<1>2. CallOwnsReceipt'
  BY DEF CallOwnsReceipt
<1>3. DeliveredIsKnown'
  BY DEF DeliveredIsKnown, CallOwnsReceipt
<1>4. ReceiptNamesRuntime'
  BY DEF ReceiptNamesRuntime, CallOwnsReceipt
<1>5. SettledIsKnown'
  BY DEF SettledIsKnown, CallOwnsReceipt
<1>6. RefusalStands'
  BY DEF RefusalStands, TypeOK
<1> QED BY <1>1, <1>2, <1>3, <1>4, <1>5, <1>6

\* The handoff is reserved: a message whose receipt is made now was not handed
\* over before, unless a refusal dropped the receipt it had.
LEMMA RecordKeeps ==
    ASSUME DeliveryInv, SendRecord, ~(FailEarly /\ UNCHANGED receipt)
    PROVE  HandoffInv'
<1> USE DEF DeliveryInv, HandoffInv
<1> DEFINE m == call.m
           fresh == [runtime |-> runtime.id, gen |-> call.gen, delivered |-> FALSE]
           mine == IF call.receipt.runtime = None THEN fresh ELSE call.receipt
<1>1. /\ m \in Messages /\ call.pc = "record" /\ call.receipt = receipt[m] /\ ~receipt[m].delivered
      /\ mine.runtime = runtime.id
      /\ receipt' = [receipt EXCEPT ![m] = mine] /\ call' = [call EXCEPT !.pc = "submit", !.receipt = mine]
      /\ UNCHANGED <<runtime, handled, orphans, log, uncertain, dropped, told>>
  BY DEF SendRecord, CallOwnsReceipt
<1>2. /\ ~mine.delivered
      /\ receipt[m].runtime # None => receipt[m].runtime = runtime.id
  BY <1>1
<1> HIDE DEF mine
<1>3. call'.pc = "submit" /\ call'.m = m /\ call'.receipt = mine
  BY <1>1 DEF TypeOK, Calls
<1>4. receipt'[m] = mine /\ \A n \in Messages : n # m => receipt'[n] = receipt[n]
  BY <1>1 DEF TypeOK
<1>5. DriverRemembers' /\ CallOwnsReceipt'
  BY <1>1, <1>2, <1>3, <1>4 DEF DriverRemembers, CallOwnsReceipt, Online
<1>6. DeliveredIsKnown'
  BY <1>1, <1>2, <1>4 DEF DeliveredIsKnown
<1>7. ReceiptNamesRuntime'
  BY <1>1, <1>2, <1>4 DEF ReceiptNamesRuntime, None, Runtimes
<1>8. SettledIsKnown'
  BY <1>1, <1>2, <1>3, <1>4 DEF SettledIsKnown
<1>9. RefusalStands'
  BY <1>1, <1>2, <1>3, <1>4 DEF RefusalStands
<1> QED BY <1>5, <1>6, <1>7, <1>8, <1>9

\* One step per action.
LEMMA DeliveryInvInductive ==
    ASSUME DeliveryInv, [Next]_vars
    PROVE  DeliveryInv'
<1>t. TypeOK'
  BY TypeOKInductive DEF DeliveryInv, HandoffInv, CallOwnsReceipt
<1> SUFFICES HandoffInv'
  BY <1>t DEF DeliveryInv
<1>0. TypeOK /\ HandoffInv
  BY DEF DeliveryInv
<1>1. CASE StartAgent
  <2>1. /\ NewRuntime /\ call.pc = "idle" /\ call' = call
        /\ UNCHANGED <<receipt, log, uncertain, dropped, told>>
    BY <1>1 DEF StartAgent
  <2> QED BY <2>1, NewRuntimeKeeps
<1>2. CASE Turn
  BY <1>0, <1>2 DEF Turn, TypeOK, RuntimeStates, HandoffInv, DriverRemembers, CallOwnsReceipt,
     DeliveredIsKnown, ReceiptNamesRuntime, SettledIsKnown, RefusalStands, Online
<1>3. ASSUME NEW guarded \in BOOLEAN, StopAgent(guarded) PROVE HandoffInv'
  BY <1>0, <1>3 DEF StopAgent, TypeOK, RuntimeStates, HandoffInv, DriverRemembers, CallOwnsReceipt,
     DeliveredIsKnown, ReceiptNamesRuntime, SettledIsKnown, RefusalStands, Online
<1>4. ASSUME NEW ok \in BOOLEAN, AnswerShutdown(ok) PROVE HandoffInv'
  BY <1>0, <1>4 DEF AnswerShutdown, TypeOK, RuntimeStates, HandoffInv, DriverRemembers,
     CallOwnsReceipt, DeliveredIsKnown, ReceiptNamesRuntime, SettledIsKnown, RefusalStands, Online
<1>5. ASSUME NEW refused \in BOOLEAN, Exit(refused) PROVE HandoffInv'
  <2>1. /\ runtime'.id = runtime.id /\ runtime'.phase = "off"
        /\ orphans' = [m \in Messages |-> 0]
        /\ UNCHANGED <<receipt, handled, log, uncertain, dropped, told>>
    BY <1>0, <1>5 DEF Exit, TypeOK, RuntimeStates
  <2>2. /\ call'.m = call.m /\ call'.receipt = call.receipt
        /\ \/ call.pc # "wait" /\ call' = call
           \/ call.pc = "wait" /\ call'.pc = "answered" /\ call'.answer \in {"refused", "lost"}
           \/ call.pc = "answered" /\ call'.pc = "answered" /\ call'.answer = "lost"
    BY <1>0, <1>5 DEF Exit, TypeOK, Calls
  <2>3. \A m \in Messages : orphans'[m] = 0
    BY <2>1
  <2>4. DriverRemembers' /\ CallOwnsReceipt'
    BY <1>0, <2>1, <2>2, <2>3 DEF HandoffInv, DriverRemembers, CallOwnsReceipt, Online
  <2>5. DeliveredIsKnown' /\ ReceiptNamesRuntime' /\ RefusalStands'
    BY <1>0, <2>1, <2>2, <2>3 DEF HandoffInv, DeliveredIsKnown, ReceiptNamesRuntime, RefusalStands
  <2>6. SettledIsKnown'
    BY <1>0, <2>1, <2>2, <2>3 DEF HandoffInv, SettledIsKnown, CallOwnsReceipt
  <2> QED BY <2>4, <2>5, <2>6 DEF HandoffInv
<1>6. ASSUME NEW m \in Messages, Send(m) PROVE HandoffInv'
  <2>1. /\ call.pc = "idle"
        /\ UNCHANGED <<receipt, runtime, handled, orphans, log, uncertain, dropped>>
        /\ \/ call' = call
           \/ call'.pc \in {"check", "start"} /\ call'.m = m /\ ~receipt[m].delivered
    BY <1>6 DEF Send, NoCall
  <2>2. \A n \in Messages : told'[n] = "refused" => n # m /\ told[n] = "refused"
    BY <1>0, <1>6 DEF Send, TypeOK
  <2>3. DriverRemembers' /\ CallOwnsReceipt'
    BY <1>0, <2>1 DEF HandoffInv, DriverRemembers, CallOwnsReceipt, Online
  <2>4. DeliveredIsKnown' /\ ReceiptNamesRuntime'
    BY <1>0, <2>1 DEF HandoffInv, DeliveredIsKnown, ReceiptNamesRuntime
  <2>5. SettledIsKnown'
    BY <1>0, <2>1 DEF HandoffInv, SettledIsKnown
  <2>6. RefusalStands'
    BY <1>0, <2>1, <2>2 DEF HandoffInv, RefusalStands
  <2> QED BY <2>3, <2>4, <2>5, <2>6 DEF HandoffInv
<1>7. CASE TakeLease
  <2>1. /\ NewRuntime /\ call.pc = "record" /\ call' = call
        /\ UNCHANGED <<receipt, log, uncertain, dropped, told>>
    BY <1>7 DEF TakeLease
  <2> QED BY <2>1, NewRuntimeKeeps
<1>8. ASSUME NEW m \in Messages, NEW guarded \in BOOLEAN, NEW written \in BOOLEAN,
             HandleOrphan(m, guarded, written)
      PROVE  HandoffInv'
  <2>1. /\ orphans[m] > 0 /\ runtime.phase # "off" /\ Effect(m, Verdict(m, guarded, written))
        /\ orphans' \in [Messages -> Nat] /\ \A n \in Messages : orphans'[n] <= orphans[n]
        /\ \A n \in Messages : orphans'[n] > 0 => orphans[n] > 0
        /\ UNCHANGED <<receipt, call, uncertain, dropped, told>>
    BY <1>0, <1>8, BoundsAssumption DEF HandleOrphan, TypeOK
  <2>2. runtime'.id = runtime.id /\ runtime'.phase = runtime.phase
    BY <1>0, <2>1, EffectType
  <2>3. CASE UNCHANGED <<handled, log, runtime>>
    BY <1>0, <2>1, <2>3 DEF HandoffInv, DriverRemembers, CallOwnsReceipt, DeliveredIsKnown,
       ReceiptNamesRuntime, SettledIsKnown, RefusalStands, Online
  <2>4. CASE ~ UNCHANGED <<handled, log, runtime>>
    <3>1. /\ m \notin handled /\ handled' = handled \union {m}
          /\ log' = [log EXCEPT ![m][runtime.id] = @ + 1]
      BY <2>1, <2>4, EffectCases
    <3> QED BY <2>1, <2>2, <3>1, HandingOverKeeps DEF Online
  <2> QED BY <2>3, <2>4
<1>9. CASE Deadline
  <2>1. /\ call.pc = "wait" /\ call'.pc = "answered" /\ call'.answer = "lost"
        /\ call'.m = call.m /\ call'.receipt = call.receipt
        /\ UNCHANGED <<receipt, runtime, handled, log, uncertain, dropped, told>>
    BY <1>0, <1>9 DEF Deadline, TypeOK, Calls
  <2>2. \A m \in Messages : m # call.m => orphans'[m] = orphans[m]
    BY <1>0, <1>9 DEF Deadline, TypeOK
  <2>3. orphans' \in [Messages -> Nat] /\ Online
    BY <1>0, <1>t, <2>1, BoundsAssumption DEF TypeOK, HandoffInv, Online, CallOwnsReceipt
  <2> QED BY <2>1, <2>2, <2>3, AbandonKeeps
<1>10. CASE Crash
  <2>1. /\ call.pc # "idle" /\ call'.pc = "idle" /\ told' = [told EXCEPT ![call.m] = "failed"]
        /\ UNCHANGED <<receipt, runtime, handled, log, dropped>>
    BY <1>10 DEF Crash, Return, NoCall
  <2>2. CASE call.pc = "wait"
    <3>1. /\ orphans' \in [Messages -> Nat] /\ uncertain' = uncertain \union {call.m}
          /\ \A m \in Messages : m # call.m => orphans'[m] = orphans[m]
      BY <1>0, <1>10, <1>t, <2>2, BoundsAssumption DEF Crash, TypeOK
    <3>2. Online
      BY <1>0, <2>2 DEF HandoffInv, CallOwnsReceipt
    <3> QED BY <2>1, <2>2, <3>1, <3>2, AbandonKeeps
  <2>3. CASE call.pc # "wait"
    <3>1. /\ orphans' = orphans
          /\ uncertain' = IF call.pc = "answered" THEN uncertain \union {call.m} ELSE uncertain
      BY <1>10, <2>3 DEF Crash
    <3>2. \A m \in Messages : told'[m] = "refused" => told[m] = "refused"
      BY <1>0, <2>1 DEF TypeOK
    <3> QED
      BY <1>0, <2>1, <2>3, <3>1, <3>2 DEF HandoffInv, DriverRemembers, CallOwnsReceipt,
         DeliveredIsKnown, ReceiptNamesRuntime, SettledIsKnown, RefusalStands, Online
  <2> QED BY <2>2, <2>3
<1>11. CASE SendStart
  <2>1. CASE FailEarly
    BY <1>11, <2>1, EarlyFailureKeeps DEF SendStart
  <2>2. CASE call' = [call EXCEPT !.pc = "check"] /\ UNCHANGED <<log, uncertain, dropped, told>>
    <3>1. call.pc = "start" /\ call'.pc = "check" /\ call'.m = call.m /\ UNCHANGED receipt
      BY <1>0, <1>11, <2>2 DEF SendStart, TypeOK, Calls
    <3>2. CASE NewRuntime
      BY <2>2, <3>1, <3>2, NewRuntimeKeeps
    <3>3. CASE UNCHANGED <<runtime, handled, orphans>>
      BY <1>0, <2>2, <3>1, <3>3 DEF HandoffInv, DriverRemembers, CallOwnsReceipt, DeliveredIsKnown,
         ReceiptNamesRuntime, SettledIsKnown, RefusalStands, Online
    <3> QED BY <1>11, <2>1, <2>2, <3>2, <3>3, EarlyFailureKeeps DEF SendStart
  <2> QED BY <1>11, <2>1, <2>2 DEF SendStart
<1>12. ASSUME NEW refused \in BOOLEAN, SendCheck(refused) PROVE HandoffInv'
  <2>1. CASE FailEarly
    BY <1>12, <2>1, EarlyFailureKeeps DEF SendCheck
  <2>2. CASE ~FailEarly
    <3>1. ~receipt[call.m].delivered
      BY <1>0, <1>12 DEF SendCheck, HandoffInv, CallOwnsReceipt
    <3>2. /\ call.pc = "check" /\ call'.pc = "record"
          /\ call'.m = call.m /\ call'.receipt = receipt[call.m]
          /\ UNCHANGED <<receipt, runtime, handled, orphans, log, uncertain, dropped, told>>
      BY <1>0, <1>12, <2>2, <3>1 DEF SendCheck, TypeOK, Calls
    <3> QED
      BY <1>0, <3>1, <3>2 DEF HandoffInv, DriverRemembers, CallOwnsReceipt, DeliveredIsKnown,
         ReceiptNamesRuntime, SettledIsKnown, RefusalStands, Online
  <2> QED BY <2>1, <2>2
<1>13. CASE SendRecord
  <2>1. CASE FailEarly /\ UNCHANGED receipt
    BY <1>13, <2>1, EarlyFailureKeeps DEF SendRecord
  <2>2. CASE ~(FailEarly /\ UNCHANGED receipt)
    BY <1>13, <2>2, RecordKeeps
  <2> QED BY <2>1, <2>2
<1>14. ASSUME NEW admitted \in BOOLEAN, SendSubmit(admitted) PROVE HandoffInv'
  <2>1. CASE FailEarly
    BY <1>14, <2>1, EarlyFailureKeeps DEF SendSubmit
  <2>2. CASE ~FailEarly
    <3>1. /\ call.pc = "submit" /\ call'.pc = "wait"
          /\ call'.m = call.m /\ call'.receipt = call.receipt
          /\ runtime.id = call.receipt.runtime /\ Online
          /\ UNCHANGED <<receipt, runtime, handled, orphans, log, uncertain, dropped, told>>
      BY <1>0, <1>14, <2>2 DEF SendSubmit, TypeOK, Calls
    <3> QED
      BY <1>0, <3>1 DEF HandoffInv, DriverRemembers, CallOwnsReceipt, DeliveredIsKnown,
         ReceiptNamesRuntime, SettledIsKnown, RefusalStands, Online
  <2> QED BY <2>1, <2>2
<1>15. ASSUME NEW saved \in BOOLEAN, SendEnd(saved) PROVE HandoffInv'
  BY <1>15, SendEndKeeps
<1>16. ASSUME NEW guarded \in BOOLEAN, NEW written \in BOOLEAN, Handle(guarded, written)
       PROVE  HandoffInv'
  <2> DEFINE m == call.m
  <2>1. /\ call.pc = "wait" /\ call'.pc = "answered" /\ call'.m = m /\ call'.receipt = call.receipt
        /\ call'.answer = IF Verdict(m, guarded, written) \in {"submitted", "accepted"}
                          THEN "accepted" ELSE "refused"
    BY <1>0, <1>16 DEF Handle, TypeOK, Calls
  <2>2. /\ m \in Messages /\ runtime.phase # "off" /\ Effect(m, Verdict(m, guarded, written))
        /\ UNCHANGED <<receipt, orphans, uncertain, dropped, told>>
    BY <1>0, <1>16 DEF Handle, HandoffInv, CallOwnsReceipt
  <2>3. runtime'.id = runtime.id /\ runtime'.phase = runtime.phase
    BY <1>0, <2>2, EffectType
  <2>4. CASE Verdict(m, guarded, written) = "submitted"
    <3>1. /\ m \notin handled /\ handled' = handled \union {m}
          /\ log' = [log EXCEPT ![m][runtime.id] = @ + 1]
      BY <2>2, <2>4, EffectCases
    <3>2. orphans' \in [Messages -> Nat] /\ \A n \in Messages : orphans'[n] <= orphans[n]
      BY <1>0, <2>2, BoundsAssumption DEF TypeOK
    <3> QED BY <2>1, <2>2, <2>3, <2>4, <3>1, <3>2, HandingOverKeeps DEF Online
  <2>5. CASE Verdict(m, guarded, written) # "submitted"
    <3>1. /\ UNCHANGED <<handled, log, runtime>>
          /\ call'.answer = "accepted" => m \in handled
          /\ call'.answer \in {"accepted", "refused"}
      BY <2>1, <2>2, <2>5, EffectCases
    <3> QED
      BY <1>0, <2>1, <2>2, <3>1 DEF HandoffInv, DriverRemembers, CallOwnsReceipt, DeliveredIsKnown,
         ReceiptNamesRuntime, SettledIsKnown, RefusalStands, Online
  <2> QED BY <2>4, <2>5
<1>17. CASE BecomeReady
  BY <1>0, <1>17 DEF BecomeReady, TypeOK, RuntimeStates, HandoffInv, DriverRemembers,
     CallOwnsReceipt, DeliveredIsKnown, ReceiptNamesRuntime, SettledIsKnown, RefusalStands, Online
<1>18. CASE UNCHANGED vars
  BY <1>0, <1>18 DEF vars, HandoffInv, DriverRemembers, CallOwnsReceipt, DeliveredIsKnown,
     ReceiptNamesRuntime, SettledIsKnown, RefusalStands, Online
<1> QED
  BY <1>1, <1>2, <1>3, <1>4, <1>5, <1>6, <1>7, <1>8, <1>9, <1>10, <1>11, <1>12, <1>13,
     <1>14, <1>15, <1>16, <1>17, <1>18 DEF Next, Continue, Driver

----------------------------------------------------------------------------
(* What follows *)

\* The invariant holds of every reachable state.
THEOREM HandoffInvariant == Spec => []DeliveryInv
<1>1. Init => DeliveryInv
  <2> SUFFICES ASSUME Init PROVE DeliveryInv
    OBVIOUS
  <2>1. TypeOK
    BY NoneTyped, BoundsAssumption DEF Init, TypeOK, Off, RuntimeStates, None
  <2>2. /\ call.pc = "idle" /\ runtime.id = 0 /\ runtime.phase = "off" /\ handled = {}
        /\ \A m \in Messages : /\ receipt[m].delivered = FALSE /\ orphans[m] = 0 /\ told[m] = "none"
                               /\ \A r \in Runtimes : log[m][r] = 0
    BY DEF Init, NoCall, NoReceipt, Off, None
  <2>3. HandoffInv
    BY <2>2 DEF HandoffInv, DriverRemembers, CallOwnsReceipt, DeliveredIsKnown,
       ReceiptNamesRuntime, SettledIsKnown, RefusalStands, Online
  <2> QED BY <2>1, <2>3 DEF DeliveryInv
<1>2. DeliveryInv /\ [Next]_vars => DeliveryInv'
  BY DeliveryInvInductive
<1> QED BY <1>1, <1>2, PTL DEF Spec

\* What a client may conclude from the answers it got (agents.go,
\* api_messages.go): a message reaches a second runtime only after a retry of
\* an uncertain attempt was refused, and one refused with all its attempts
\* settled was never handed over.
THEOREM AnswersAreTrue == Spec => []AnswersHold
<1>1. DeliveryInv => AnswersHold
  <2> SUFFICES ASSUME DeliveryInv PROVE AnswersHold
    OBVIOUS
  <2>1. ReplayNeedsRefusal
    BY DEF DeliveryInv, HandoffInv, ReceiptNamesRuntime, ReplayNeedsRefusal, HandedTo
  <2>2. RefusedWasNotSent
    BY DEF DeliveryInv, HandoffInv, SettledIsKnown, RefusalStands, RefusedWasNotSent, HandedTo
  <2> QED BY <2>1, <2>2 DEF AnswersHold
<1> QED BY <1>1, HandoffInvariant, PTL

----------------------------------------------------------------------------
(* Delivery implements Handoff *)

\* The messages a sender may be told have arrived.
Confirmed == {m \in Messages : receipt[m].delivered}

\* A step that hands a message to the agent is the abstract one: the message
\* is not confirmed, and no runtime from this one on was given it.
LEMMA HandingOverRefines ==
    ASSUME DeliveryInv, NEW m \in Messages, m \notin handled, runtime.phase = "ready",
           ~receipt[m].delivered,
           log' = [log EXCEPT ![m][runtime.id] = @ + 1], UNCHANGED receipt
    PROVE  Promise!Next
<1> USE DEF DeliveryInv, HandoffInv
<1>1. runtime.id \in Runtimes /\ log[m][runtime.id] = 0
  BY BoundsAssumption DEF DriverRemembers, TypeOK, RuntimeStates, Runtimes, Online
<1>2. \A later \in Runtimes : later >= runtime.id => log[m][later] = 0
  BY <1>1 DEF DriverRemembers, Runtimes
<1>3. log' = [log EXCEPT ![m][runtime.id] = 1]
  BY <1>1
<1>4. Promise!HandOver(m, runtime.id)
  BY <1>1, <1>2, <1>3 DEF Promise!HandOver
<1> QED BY <1>1, <1>4 DEF Promise!Next

\* A step that neither hands over nor confirms is a stutter.
LEMMA StutterRefines ==
    ASSUME UNCHANGED log, \A m \in Messages : receipt'[m].delivered <=> receipt[m].delivered
    PROVE  UNCHANGED <<log, Confirmed>>
BY DEF Confirmed

\* Every step is a step of Handoff or a stutter.
LEMMA StepRefines ==
    ASSUME DeliveryInv, [Next]_vars
    PROVE  [Promise!Next]_<<log, Confirmed>>
<1> USE DEF DeliveryInv, HandoffInv
<1>1. CASE UNCHANGED <<log, receipt>>
  BY <1>1 DEF Confirmed
<1>2. ASSUME NEW m \in Messages, NEW guarded \in BOOLEAN, NEW written \in BOOLEAN,
             HandleOrphan(m, guarded, written)
      PROVE  [Promise!Next]_<<log, Confirmed>>
  <2>1. CASE UNCHANGED log
    BY <1>1, <1>2, <2>1 DEF HandleOrphan
  <2>2. CASE ~ UNCHANGED log
    <3>1. /\ m \notin handled /\ runtime.phase = "ready" /\ UNCHANGED receipt
          /\ log' = [log EXCEPT ![m][runtime.id] = @ + 1]
      BY <1>2, <2>2, EffectCases DEF HandleOrphan
    <3>2. ~receipt[m].delivered
      BY <1>2, <3>1 DEF HandleOrphan, DeliveredIsKnown
    <3> QED BY <3>1, <3>2, HandingOverRefines
  <2> QED BY <2>1, <2>2
<1>3. ASSUME NEW guarded \in BOOLEAN, NEW written \in BOOLEAN, Handle(guarded, written)
      PROVE  [Promise!Next]_<<log, Confirmed>>
  <2>0. call.m \in Messages /\ ~receipt[call.m].delivered
    BY <1>3 DEF Handle, CallOwnsReceipt
  <2>1. CASE UNCHANGED log
    BY <1>1, <1>3, <2>1 DEF Handle
  <2>2. CASE ~ UNCHANGED log
    <3>1. /\ call.m \notin handled /\ runtime.phase = "ready" /\ UNCHANGED receipt
          /\ log' = [log EXCEPT ![call.m][runtime.id] = @ + 1]
      BY <1>3, <2>0, <2>2, EffectCases DEF Handle
    <3> QED BY <2>0, <3>1, HandingOverRefines
  <2> QED BY <2>1, <2>2
<1>4. CASE SendRecord
  <2>1. call.m \in Messages /\ ~receipt[call.m].delivered /\ call.receipt = receipt[call.m]
    BY <1>4 DEF SendRecord, CallOwnsReceipt
  <2> DEFINE fresh == [runtime |-> runtime.id, gen |-> call.gen, delivered |-> FALSE]
             mine == IF call.receipt.runtime = None THEN fresh ELSE call.receipt
  <2>a. ~mine.delivered /\ (receipt' = receipt \/ receipt' = [receipt EXCEPT ![call.m] = mine])
    BY <1>4, <2>1 DEF SendRecord, FailEarly
  <2> HIDE DEF mine
  <2>2. \A m \in Messages : receipt'[m].delivered <=> receipt[m].delivered
    BY <2>1, <2>a DEF TypeOK
  <2>3. UNCHANGED log
    BY <1>4 DEF SendRecord, FailEarly
  <2> QED BY <2>2, <2>3, StutterRefines
<1>5. ASSUME NEW saved \in BOOLEAN, SendEnd(saved)
      PROVE  [Promise!Next]_<<log, Confirmed>>
  <2> DEFINE m == call.m
  <2>1. /\ m \in Messages /\ ~receipt[m].delivered /\ call.receipt = receipt[m]
        /\ call.pc = "answered" /\ UNCHANGED log
    BY <1>5 DEF SendEnd, CallOwnsReceipt
  <2>2. \A n \in Messages : n # m => receipt'[n] = receipt[n]
    BY <1>5 DEF SendEnd, TypeOK
  <2>3. CASE call.answer = "accepted" /\ saved
    <3>1. receipt'[m].delivered
      BY <1>5, <2>1, <2>3 DEF SendEnd, Forgets, TypeOK, Calls, Receipts
    <3>2. Confirmed' = Confirmed \union {m}
      BY <2>1, <2>2, <3>1 DEF Confirmed
    <3>3. runtime.id \in Runtimes /\ log[m][runtime.id] = 1
      BY <2>1, <2>3 DEF CallOwnsReceipt, DriverRemembers, TypeOK, RuntimeStates, Runtimes
    <3>4. \E n \in Messages : Promise!Confirm(n)
      BY <2>1, <3>2, <3>3 DEF Promise!Confirm, Confirmed
    <3> QED BY <3>4 DEF Promise!Next
  <2>4. CASE ~(call.answer = "accepted" /\ saved)
    <3>1. ~receipt'[m].delivered
      BY <1>5, <2>1, <2>4 DEF SendEnd, Forgets, NoReceipt, TypeOK
    <3> QED BY <2>1, <2>2, <3>1, StutterRefines
  <2> QED BY <2>3, <2>4
<1>6. CASE StartAgent \/ Turn \/ BecomeReady \/ TakeLease \/ Deadline \/ Crash \/ SendStart
  BY <1>1, <1>6 DEF StartAgent, Turn, BecomeReady, TakeLease, Deadline, Crash, SendStart, FailEarly
<1>7. ASSUME NEW x \in BOOLEAN,
             StopAgent(x) \/ AnswerShutdown(x) \/ Exit(x) \/ SendCheck(x) \/ SendSubmit(x)
      PROVE  [Promise!Next]_<<log, Confirmed>>
  BY <1>1, <1>7 DEF StopAgent, AnswerShutdown, Exit, SendCheck, SendSubmit, FailEarly
<1>8. ASSUME NEW m \in Messages, Send(m) PROVE [Promise!Next]_<<log, Confirmed>>
  BY <1>1, <1>8 DEF Send
<1>9. CASE UNCHANGED vars
  BY <1>1, <1>9 DEF vars
<1> QED
  BY <1>2, <1>3, <1>4, <1>5, <1>6, <1>7, <1>8, <1>9 DEF Next, Continue, Driver

\* Sending keeps the promise: no message is handed twice to a runtime, and
\* "delivered" is said only of a message that was handed over, and for good.
THEOREM DeliveryKeepsPromise == Spec => KeepsPromise
<1>1. Init => Promise!Init
  BY DEF Init, Promise!Init, NoReceipt
<1>2. DeliveryInv /\ [Next]_vars => [Promise!Next]_<<log, Confirmed>>
  BY StepRefines
<1> QED BY <1>1, <1>2, HandoffInvariant, PTL DEF Spec, KeepsPromise, Promise!Spec, Confirmed

(***************************************************************************)
(*                              NativeWrites                               *)
(***************************************************************************)
----------------------------------------------------------------------------
(* The inductive invariant *)

WriteSet == [op : {"create", "edit", "delete"}, cmd : Commands, item : Items,
             text : Texts, prev : Texts, seq : Nat]
Parts == {"begin", "opened", "checked", "written", "unstaged"}

\* What the variables hold.
StoreTyped ==
    /\ item \in [Items -> {"none", "there", "deleted"}]
    /\ outcome \in [Commands -> Inputs \cup {NoInput}]
    /\ pending \subseteq WriteSet /\ IsFiniteSet(pending)
    /\ sequence \in Nat
    /\ dir \in [Items -> BOOLEAN]
    /\ desc \in [Items -> Texts \cup {Absent}]
    /\ stage \in [Commands -> Texts \cup {NotStaged}]
    /\ latest \in [Items -> Texts]

\* A pending write is that of the command recorded under its ID; its item was
\* created before, and deleted if it says so.
Recorded(w) ==
    /\ outcome[w.cmd] \in Inputs /\ w = Write(outcome[w.cmd], w.seq)
    /\ w.seq <= sequence
    /\ item[w.item] # "none"
    /\ w.op = "delete" => item[w.item] = "deleted"

\* An item has one pending create and one pending edit at most, and is created
\* before it is deleted.
InTurn(v, w) ==
    /\ v.cmd = w.cmd => v = w
    /\ v.item = w.item /\ v.op = w.op /\ v.op # "delete" => v = w
    /\ v.item = w.item /\ v.op = "create" /\ w.op = "delete" => v.seq < w.seq

PendingSound ==
    /\ \A w \in pending : Recorded(w)
    /\ \A v, w \in pending : InTurn(v, w)

\* An item has a description file exactly when it has a directory; without a
\* record it has neither, and nor does a deleted one that no write is left of.
DirsSound ==
    \A i \in Items :
        /\ dir[i] <=> desc[i] # Absent
        /\ item[i] = "none" => ~dir[i]
        /\ item[i] = "deleted" /\ (\A w \in pending : ~(w.item = i /\ w.op = "delete")) =>
              ~dir[i] /\ \A w \in pending : ~(w.item = i /\ w.op = "create")

\* The loop has all creates and deletes before it, in order.
QueueSound ==
    step = "loop" =>
        /\ queue \in Seq(pending)
        /\ \A m, n \in 1..Len(queue) : m < n => Earlier(queue[m], queue[n])
        /\ \A w \in pending : w.op # "edit" => \E k \in 1..Len(queue) : queue[k] = w

\* The items whose last description is not accounted for.
Excused == torn \cup raced \cup reused

\* How far the first write of the loop has come.
PartSound ==
    step = "loop" /\ queue # <<>> =>
        LET w == Current IN
        /\ part = "opened" => w.op = "create" /\ dir[w.item] /\ stage[w.cmd] # NotStaged
        /\ part = "checked" => /\ w.op = "edit" /\ dir[w.item]
                               /\ Text(w.item) = w.prev \/ w.item \in raced
        /\ part \in {"written", "unstaged"} =>
              /\ w.op = "create" => dir[w.item]
              /\ w.op = "delete" => ~dir[w.item]
        /\ part = "written" /\ w.op = "edit" /\ item[w.item] = "there" /\ w.item \notin Excused =>
              desc[w.item] = latest[w.item]
        /\ part = "unstaged" => stage[w.cmd] = NotStaged

\* What the request that is handled has staged, or has recorded.
RequestSound ==
    /\ up = "down" => step = "idle"
    /\ up = "starting" => step = "loop" /\ input = NoInput
    /\ step = "idle" => input = NoInput
    /\ step = "staged" =>
          /\ input \in Inputs /\ up = "serving"
          /\ outcome[input.cmd] = NoInput /\ input.op # "delete" => stage[input.cmd] = input.text
          /\ outcome[input.cmd] = NoInput /\ input.op = "edit" =>
                dir[input.item] /\ \A w \in pending : ~(w.op = "edit" /\ w.item = input.item)
          /\ \A w \in pending : w.cmd = input.cmd => outcome[w.cmd] = input \/ w.item \in reused
    /\ step = "loop" => input = NoInput \/ (input \in Inputs /\ outcome[input.cmd] = input)

\* The last description of an item is staged for a pending write of kind op.
Staged(i, op) ==
    \E w \in pending : w.op = op /\ w.item = i /\ w.text = latest[i] /\ stage[w.cmd] = latest[i]

\* The last description of an item whose file was written is in the file or
\* staged for an edit, and before that it is staged for the create.
Kept(i) ==
    item[i] = "there" /\ i \notin Excused =>
        IF dir[i] /\ i \notin TornNow THEN desc[i] = latest[i] \/ Staged(i, "edit")
                                      ELSE Staged(i, "create")

NativeInv ==
    /\ StoreTyped /\ part \in Parts
    /\ PendingSound
    /\ DirsSound
    /\ QueueSound
    /\ PartSound
    /\ RequestSound
    /\ \A i \in Items : Kept(i)

----------------------------------------------------------------------------
(* What the pending writes and the loop over them are *)

LEMMA NoInputApart == NoInput \notin Inputs
BY DEF NoInput, Inputs

LEMMA NotStagedApart == NotStaged \notin Texts /\ Absent \notin Texts /\ Empty \in Texts /\ NotStaged # Absent
BY TextsAssumption DEF NotStaged, Absent

\* A loop is over the writes it was started with, in their order.
LEMMA SortedNames ==
    ASSUME NEW S, IsFiniteSet(S), NEW q \in Sorted(S)
    PROVE  /\ q \in Seq(S)
           /\ \A m, n \in 1..Len(q) : m < n => Earlier(q[m], q[n])
           /\ \A x \in S : \E k \in 1..Len(q) : q[k] = x
<1> DEFINE c == Cardinality(S)
           D == 1..c
<1>1. c \in Nat
  BY FS_CardinalityType
<1>2. IsFiniteSet(D) /\ Cardinality(D) = c
  <2>1. IsFiniteSet(1..c) /\ Cardinality(1..c) = IF 1 > c THEN 0 ELSE c - 1 + 1
    BY <1>1, FS_Interval
  <2>2. (IF 1 > c THEN 0 ELSE c - 1 + 1) = c
    BY <1>1
  <2> QED BY <2>1, <2>2
<1>3. q \in [D -> S] /\ \A a, b \in D : a # b => q[a] # q[b]
  BY DEF Sorted, SetToSeqs
<1>4. \A m, n \in DOMAIN q : m < n => Earlier(q[m], q[n])
  BY DEF Sorted
<1> HIDE DEF c, D
<1>5. q \in Injection(D, S)
  BY <1>3 DEF Injection, IsInjective
<1>6. q \in Surjection(D, S)
  BY <1>2, <1>5, FS_Injection DEF c
<1>7. \A x \in S : \E k \in D : q[k] = x
  BY <1>6 DEF Surjection
<1>8. q \in Seq(S) /\ DOMAIN q = D /\ Len(q) = c
  BY <1>1, <1>3 DEF D
<1> QED BY <1>4, <1>7, <1>8 DEF D

\* A started loop has everything before it.
LEMMA LoopStarts ==
    ASSUME IsFiniteSet(pending'), Loop(pending')
    PROVE  QueueSound' /\ PartSound' /\ TornNow' = {} /\ part' \in Parts
<1>1. step' = "loop" /\ queue' \in Sorted(pending') /\ part' = "begin"
  BY DEF Loop
<1>2. /\ queue' \in Seq(pending')
      /\ \A m, n \in 1..Len(queue') : m < n => Earlier(queue'[m], queue'[n])
      /\ \A x \in pending' : \E k \in 1..Len(queue') : queue'[k] = x
  BY <1>1, SortedNames
<1> QED BY <1>1, <1>2 DEF QueueSound, PartSound, TornNow, Parts

\* A handler that ended has no loop.
LEMMA IdleSound ==
    ASSUME Idle
    PROVE  QueueSound' /\ PartSound' /\ TornNow' = {} /\ part' \in Parts
BY DEF Idle, QueueSound, PartSound, TornNow, Parts

\* The first write of the loop is pending, and what follows it comes later.
LEMMA CurrentIsPending ==
    ASSUME NativeInv, step = "loop", queue # <<>>
    PROVE  /\ Current \in pending /\ Current \in WriteSet /\ Recorded(Current)
           /\ \A v \in pending : InTurn(Current, v) /\ InTurn(v, Current)
           /\ Len(queue) \in Nat /\ 1 \in 1..Len(queue)
<1>1. queue \in Seq(pending)
  BY DEF NativeInv, QueueSound
<1>2. Len(queue) \in Nat /\ Len(queue) # 0
  BY <1>1, EmptySeq
<1>3. 1 \in 1..Len(queue)
  BY <1>2
<1>4. Current \in pending
  BY <1>1, <1>3, ElementOfSeq DEF Current
<1> QED BY <1>2, <1>3, <1>4 DEF NativeInv, PendingSound, StoreTyped

\* The other writes of a loop stay in order when the first is dealt with.
LEMMA TailOfLoop ==
    ASSUME NativeInv, step = "loop", queue # <<>>
    PROVE  /\ Tail(queue) \in Seq(pending \ {Current})
           /\ \A m, n \in 1..Len(Tail(queue)) :
                  m < n => Earlier(Tail(queue)[m], Tail(queue)[n])
           /\ \A w \in pending : w.op # "edit" /\ w # Current =>
                  \E k \in 1..Len(Tail(queue)) : Tail(queue)[k] = w
           /\ \A w \in pending : w.op # "edit" /\ w # Current => Earlier(Current, w)
<1> DEFINE t == Tail(queue)
<1>1. /\ queue \in Seq(pending)
      /\ \A m, n \in 1..Len(queue) : m < n => Earlier(queue[m], queue[n])
      /\ \A w \in pending : w.op # "edit" => \E k \in 1..Len(queue) : queue[k] = w
  BY DEF NativeInv, QueueSound
<1>2. Len(queue) \in Nat /\ 1 \in 1..Len(queue) /\ Current \in WriteSet
  BY CurrentIsPending
<1>3. t \in Seq(pending) /\ Len(t) = Len(queue) - 1 /\ \A k \in 1..Len(t) : t[k] = queue[k + 1]
  BY <1>1, HeadTailProperties
<1> HIDE DEF t
<1>4. \A m, n \in 1..Len(t) : m < n => Earlier(t[m], t[n])
  <2> SUFFICES ASSUME NEW m \in 1..Len(t), NEW n \in 1..Len(t), m < n
               PROVE  Earlier(t[m], t[n])
    OBVIOUS
  <2>1. m + 1 \in 1..Len(queue) /\ n + 1 \in 1..Len(queue) /\ m + 1 < n + 1
    BY <1>2, <1>3
  <2> QED BY <1>1, <1>3, <2>1
<1>5. ~Earlier(Current, Current)
  <2>1. Current.seq \in Nat /\ Current.cmd \in Nat
    BY <1>2, CommandsAssumption DEF WriteSet
  <2> QED BY <2>1 DEF Earlier
<1>6. \A k \in 1..Len(t) : Earlier(Current, t[k])
  <2> SUFFICES ASSUME NEW k \in 1..Len(t) PROVE Earlier(Current, t[k])
    OBVIOUS
  <2>1. k + 1 \in 1..Len(queue) /\ 1 < k + 1
    BY <1>2, <1>3
  <2> QED BY <1>1, <1>2, <1>3, <2>1 DEF Current
<1>7. t \in Seq(pending \ {Current})
  <2>1. \A k \in 1..Len(t) : t[k] \in pending \ {Current}
    BY <1>3, <1>5, <1>6, ElementOfSeq
  <2>2. Len(t) \in Nat /\ t = [k \in 1..Len(t) |-> t[k]]
    BY <1>3, LenProperties
  <2> QED BY <2>1, <2>2, IsASeq
<1>8. ASSUME NEW w \in pending, w.op # "edit", w # Current
      PROVE  \E k \in 1..Len(t) : t[k] = w
  <2>1. PICK k \in 1..Len(queue) : queue[k] = w
    BY <1>1, <1>8
  <2>2. k # 1
    BY <1>8, <2>1 DEF Current
  <2>3. k - 1 \in 1..Len(t) /\ (k - 1) + 1 = k
    BY <1>2, <1>3, <2>2
  <2> QED BY <1>3, <2>1, <2>3
<1> QED BY <1>4, <1>6, <1>7, <1>8 DEF t

----------------------------------------------------------------------------
(* Steps of the handler that change neither the records nor the files *)

\* What such a step leaves alone.
Untouched == UNCHANGED <<database, dir, desc, stage, latest>>

LEMMA UntouchedKept ==
    ASSUME NativeInv, Untouched, reused \subseteq reused', raced \subseteq raced',
           torn \cup TornNow \subseteq torn' \cup TornNow', torn \subseteq torn',
           TornNow' \subseteq TornNow
    PROVE  StoreTyped' /\ PendingSound' /\ DirsSound' /\ \A i \in Items : Kept(i)'
<1> USE DEF Untouched, database
<1>1. StoreTyped'
  BY DEF NativeInv, StoreTyped
<1>2. PendingSound'
  BY DEF NativeInv, PendingSound, Recorded, InTurn
<1>3. DirsSound'
  BY DEF NativeInv, DirsSound
<1>4. ASSUME NEW i \in Items PROVE Kept(i)'
  <2>1. Kept(i)
    BY DEF NativeInv
  <2> QED BY <2>1 DEF Kept, Excused, Staged
<1> QED BY <1>1, <1>2, <1>3, <1>4

\* A handler that is not in the loop leaves no file half made.
LEMMA NotTorn ==
    ASSUME step # "loop" \/ queue = <<>> \/ part # "opened"
    PROVE  TornNow = {}
BY DEF TornNow

LEMMA RequestDeleteStep ==
    ASSUME NativeInv, NEW in \in Inputs, RequestDelete(in)
    PROVE  NativeInv'
<1>1. Untouched /\ UNCHANGED <<reused, raced, torn>> /\ TornNow = {} /\ TornNow' = {}
  BY DEF RequestDelete, Untouched, files, history, TornNow
<1>2. StoreTyped' /\ PendingSound' /\ DirsSound' /\ \A i \in Items : Kept(i)'
  BY <1>1, UntouchedKept
<1>3. part' \in Parts /\ QueueSound' /\ PartSound'
  BY DEF RequestDelete, NativeInv, QueueSound, PartSound
<1>4. RequestSound'
  BY NoInputApart DEF RequestDelete, NativeInv, PendingSound, Recorded, RequestSound, database, files, history
<1> QED BY <1>2, <1>3, <1>4 DEF NativeInv

LEMMA DuplicateStep ==
    ASSUME NativeInv, Duplicate
    PROVE  NativeInv'
<1>1. Untouched /\ UNCHANGED <<reused, raced, torn>> /\ TornNow = {} /\ Loop(pending')
  BY DEF Duplicate, Untouched, files, history, database, TornNow, Loop
<1>2. QueueSound' /\ PartSound' /\ TornNow' = {} /\ part' \in Parts
  BY <1>1, LoopStarts DEF NativeInv, StoreTyped, Untouched, database
<1>3. StoreTyped' /\ PendingSound' /\ DirsSound' /\ \A i \in Items : Kept(i)'
  BY <1>1, <1>2, UntouchedKept
<1>4. RequestSound'
  BY DEF Duplicate, NativeInv, RequestSound, Loop, database
<1> QED BY <1>2, <1>3, <1>4 DEF NativeInv

LEMMA OtherCommandStep ==
    ASSUME NativeInv, OtherCommand
    PROVE  NativeInv'
<1>1. Untouched /\ UNCHANGED <<reused, raced, torn>> /\ TornNow = {} /\ Loop(pending')
  BY DEF OtherCommand, Untouched, files, history, database, TornNow, Loop
<1>2. QueueSound' /\ PartSound' /\ TornNow' = {} /\ part' \in Parts
  BY <1>1, LoopStarts DEF NativeInv, StoreTyped, Untouched, database
<1>3. StoreTyped' /\ PendingSound' /\ DirsSound' /\ \A i \in Items : Kept(i)'
  BY <1>1, <1>2, UntouchedKept
<1>4. RequestSound'
  BY DEF OtherCommand, NativeInv, RequestSound, Loop
<1> QED BY <1>2, <1>3, <1>4 DEF NativeInv

LEMMA StartStep ==
    ASSUME NativeInv, Start
    PROVE  NativeInv'
<1>0. step = "idle" /\ input = NoInput
  BY DEF Start, NativeInv, RequestSound
<1>1. Untouched /\ UNCHANGED <<reused, raced, torn>> /\ TornNow = {} /\ Loop(pending')
  BY <1>0 DEF Start, Untouched, files, history, database, TornNow, Loop
<1>2. QueueSound' /\ PartSound' /\ TornNow' = {} /\ part' \in Parts
  BY <1>1, LoopStarts DEF NativeInv, StoreTyped, Untouched, database
<1>3. StoreTyped' /\ PendingSound' /\ DirsSound' /\ \A i \in Items : Kept(i)'
  BY <1>1, <1>2, UntouchedKept
<1>4. RequestSound'
  BY <1>0 DEF Start, RequestSound, Loop
<1> QED BY <1>2, <1>3, <1>4 DEF NativeInv

\* The loop is given up, and with it a file that was only opened.
LEMMA FailCreateStep ==
    ASSUME NativeInv, FailCreate
    PROVE  NativeInv'
<1>1. Untouched /\ UNCHANGED <<reused, raced, torn>> /\ TornNow = {} /\ Idle
  BY DEF FailCreate, Writing, Abandon, Untouched, files, history, TornNow
<1>2. QueueSound' /\ PartSound' /\ TornNow' = {} /\ part' \in Parts
  BY <1>1, IdleSound
<1>3. StoreTyped' /\ PendingSound' /\ DirsSound' /\ \A i \in Items : Kept(i)'
  BY <1>1, <1>2, UntouchedKept
<1>4. RequestSound'
  BY DEF FailCreate, Abandon, Idle, NativeInv, RequestSound
<1> QED BY <1>2, <1>3, <1>4 DEF NativeInv

LEMMA FailWriteStep ==
    ASSUME NativeInv, FailWrite
    PROVE  NativeInv'
<1>1. Untouched /\ UNCHANGED <<reused, raced>> /\ torn' = torn \cup TornNow /\ Idle
  BY DEF FailWrite, Abandon, Untouched, files
<1>2. QueueSound' /\ PartSound' /\ TornNow' = {} /\ part' \in Parts
  BY <1>1, IdleSound
<1>3. StoreTyped' /\ PendingSound' /\ DirsSound' /\ \A i \in Items : Kept(i)'
  BY <1>1, <1>2, UntouchedKept
<1>4. RequestSound'
  BY DEF FailWrite, Abandon, Idle, NativeInv, RequestSound
<1> QED BY <1>2, <1>3, <1>4 DEF NativeInv

LEMMA DaemonCrashStep ==
    ASSUME NativeInv, DaemonCrash
    PROVE  NativeInv'
<1>1. Untouched /\ UNCHANGED <<reused, raced>> /\ torn' = torn \cup TornNow /\ Idle
  BY DEF DaemonCrash, Untouched, files
<1>2. QueueSound' /\ PartSound' /\ TornNow' = {} /\ part' \in Parts
  BY <1>1, IdleSound
<1>3. StoreTyped' /\ PendingSound' /\ DirsSound' /\ \A i \in Items : Kept(i)'
  BY <1>1, <1>2, UntouchedKept
<1>4. RequestSound'
  BY DEF DaemonCrash, Idle, RequestSound
<1> QED BY <1>2, <1>3, <1>4 DEF NativeInv

\* A pending edit that finds its own text in the file finds the last one.
LEMMA CheckEditedStep ==
    ASSUME NativeInv, CheckEdited
    PROVE  NativeInv'
<1>0. /\ step = "loop" /\ queue # <<>> /\ Current.op = "edit" /\ part = "begin" /\ dir[Current.item]
      /\ Text(Current.item) = Current.text \/ Replaceable(Current)
      /\ part' = IF Text(Current.item) = Current.text THEN "written" ELSE "checked"
      /\ UNCHANGED <<database, files, up, input, step, queue, history>>
  BY DEF CheckEdited, Writing
<1>1. Untouched /\ UNCHANGED <<reused, raced, torn>> /\ TornNow = {} /\ TornNow' = {}
  BY <1>0 DEF Untouched, files, history, TornNow
<1>2. StoreTyped' /\ PendingSound' /\ DirsSound' /\ \A i \in Items : Kept(i)'
  BY <1>1, UntouchedKept
<1>3. QueueSound' /\ part' \in Parts
  BY <1>0 DEF NativeInv, QueueSound, Parts, database
<1>4. Current' = Current /\ Current \in pending /\ Current.item \in Items /\ \A v \in pending : InTurn(v, Current)
  BY <1>0, CurrentIsPending DEF Current, WriteSet
<1>5. PartSound'
  <2>1. CASE Text(Current.item) = Current.text
    <3>1. part' = "written" /\ desc[Current.item] = Current.text
      BY <1>0, <1>4, <2>1 DEF Text, NativeInv, DirsSound
    <3>2. ASSUME item[Current.item] = "there", Current.item \notin Excused
          PROVE  desc[Current.item] = latest[Current.item]
      <4>1. desc[Current.item] = latest[Current.item] \/ Staged(Current.item, "edit")
        BY <1>0, <1>1, <1>4, <3>2 DEF NativeInv, Kept
      <4> QED BY <1>0, <1>4, <3>1, <4>1 DEF Staged, InTurn
    <3> QED BY <1>0, <1>1, <1>4, <3>1, <3>2 DEF PartSound, Excused, Untouched, database
  <2>2. CASE Text(Current.item) # Current.text
    BY <1>0, <1>1, <1>4, <2>2 DEF PartSound, Untouched, database, Text, Replaceable
  <2> QED BY <2>1, <2>2
<1>6. RequestSound'
  BY <1>0 DEF NativeInv, RequestSound, database, files, history
<1> QED BY <1>2, <1>3, <1>5, <1>6 DEF NativeInv

LEMMA SkipEditedStep ==
    ASSUME NativeInv, SkipEdited
    PROVE  NativeInv'
<1>0. /\ step = "loop" /\ queue # <<>> /\ Current.op = "edit" /\ part = "begin"
      /\ queue' = Tail(queue)
      /\ UNCHANGED <<database, files, up, input, step, part, history>>
  BY DEF SkipEdited, Writing
<1>1. Untouched /\ UNCHANGED <<reused, raced, torn>> /\ TornNow = {} /\ TornNow' = {}
  BY <1>0 DEF Untouched, files, history, TornNow
<1>2. StoreTyped' /\ PendingSound' /\ DirsSound' /\ \A i \in Items : Kept(i)'
  BY <1>1, UntouchedKept
<1>3. QueueSound'
  <2>1. queue' \in Seq(pending')
    BY <1>0, TailOfLoop DEF database
  <2> QED BY <1>0, <2>1, TailOfLoop DEF QueueSound, database
<1>4. part' \in Parts /\ PartSound'
  BY <1>0 DEF PartSound, Parts
<1>5. RequestSound'
  BY <1>0 DEF NativeInv, RequestSound, database, files, history
<1> QED BY <1>2, <1>3, <1>4, <1>5 DEF NativeInv

----------------------------------------------------------------------------
(* Steps that stage or remove a text *)

\* What such a step leaves alone.
OnlyStaged == UNCHANGED <<database, dir, desc, latest, raced, torn>> /\ reused \subseteq reused'

\* A pending write whose staged text is the only place of a description.
Needed(w) ==
    /\ item[w.item] = "there" /\ w.item \notin Excused'
    /\ stage[w.cmd] = w.text /\ w.text = latest[w.item]
    /\ \/ w.op = "create" /\ ~dir[w.item]
       \/ w.op = "edit" /\ desc[w.item] # latest[w.item]

\* A text that nobody needs any more may go, one that is needed may be set again.
LEMMA StagedKept ==
    ASSUME NativeInv, OnlyStaged, TornNow = {}, TornNow' = {},
           stage' \in [Commands -> Texts \cup {NotStaged}],
           \A w \in pending : Needed(w) => stage'[w.cmd] = w.text
    PROVE  StoreTyped' /\ PendingSound' /\ DirsSound' /\ \A i \in Items : Kept(i)'
<1> USE DEF OnlyStaged, database
<1>1. StoreTyped'
  BY DEF NativeInv, StoreTyped
<1>2. PendingSound'
  BY DEF NativeInv, PendingSound, Recorded, InTurn
<1>3. DirsSound'
  BY DEF NativeInv, DirsSound
<1>4. ASSUME NEW i \in Items PROVE Kept(i)'
  <2> SUFFICES ASSUME item[i] = "there", i \notin Excused'
               PROVE  Kept(i)'
    BY DEF Kept
  <2>1. i \notin Excused /\ Kept(i)
    BY DEF NativeInv, Excused
  <2>2. CASE dir[i] /\ desc[i] = latest[i]
    BY <2>2 DEF Kept
  <2>3. CASE dir[i] /\ desc[i] # latest[i]
    <3>1. Staged(i, "edit")
      BY <2>1, <2>3 DEF Kept
    <3>2. PICK w \in pending : w.op = "edit" /\ w.item = i /\ w.text = latest[i] /\ stage[w.cmd] = latest[i]
      BY <3>1 DEF Staged
    <3>3. stage'[w.cmd] = latest[i]
      BY <2>3, <3>2 DEF Needed
    <3> QED BY <2>3, <3>2, <3>3 DEF Kept, Staged
  <2>4. CASE ~dir[i]
    <3>1. Staged(i, "create")
      BY <2>1, <2>4 DEF Kept
    <3>2. PICK w \in pending : w.op = "create" /\ w.item = i /\ w.text = latest[i] /\ stage[w.cmd] = latest[i]
      BY <3>1 DEF Staged
    <3>3. stage'[w.cmd] = latest[i]
      BY <2>4, <3>2 DEF Needed
    <3> QED BY <2>4, <3>2, <3>3 DEF Kept, Staged
  <2> QED BY <2>2, <2>3, <2>4
<1> QED BY <1>1, <1>2, <1>3, <1>4

\* A new or repeated request stages what is already staged for its command, or
\* replaces a text whose item is then accounted for.
LEMMA StageCreateStep ==
    ASSUME NativeInv, NEW in \in Inputs, StageCreate(in)
    PROVE  NativeInv'
<1>0. /\ up = "serving" /\ step = "idle" /\ step' = "staged" /\ input' = in /\ in.op = "create"
      /\ stage' = [stage EXCEPT ![in.cmd] = in.text]
      /\ reused' = reused \cup {w.item : w \in {v \in pending : v.cmd = in.cmd /\ outcome[v.cmd] # in}}
      /\ UNCHANGED <<database, dir, desc, up, queue, part, latest, torn, raced>>
  BY DEF StageCreate
<1>1. OnlyStaged /\ TornNow = {} /\ TornNow' = {}
  BY <1>0 DEF OnlyStaged, TornNow
<1>2. in.cmd \in Commands /\ in.text \in Texts /\ stage \in [Commands -> Texts \cup {NotStaged}]
  BY DEF Inputs, NativeInv, StoreTyped
<1>3. stage' \in [Commands -> Texts \cup {NotStaged}] /\ stage'[in.cmd] = in.text
  BY <1>0, <1>2
<1>4. \A w \in pending : w.cmd = in.cmd => outcome[w.cmd] = in \/ w.item \in reused'
  BY <1>0
<1>5. ASSUME NEW w \in pending, w.item \notin Excused', stage[w.cmd] = w.text
      PROVE  stage'[w.cmd] = w.text
  <2>1. w.cmd \in Commands
    BY DEF NativeInv, StoreTyped, WriteSet
  <2>2. CASE w.cmd # in.cmd
    BY <1>0, <1>2, <1>5, <2>1, <2>2
  <2>3. CASE w.cmd = in.cmd
    <3>1. outcome[w.cmd] = in
      BY <1>4, <1>5, <2>3 DEF Excused
    <3>2. w = Write(in, w.seq)
      BY <3>1 DEF NativeInv, PendingSound, Recorded
    <3>3. w.text = in.text
      BY <3>2 DEF Write
    <3> QED BY <1>3, <2>3, <3>3
  <2> QED BY <2>2, <2>3
<1>6. StoreTyped' /\ PendingSound' /\ DirsSound' /\ \A i \in Items : Kept(i)'
  BY <1>1, <1>3, <1>5, StagedKept DEF Needed
<1>7. part' \in Parts /\ QueueSound' /\ PartSound'
  BY <1>0 DEF NativeInv, QueueSound, PartSound
<1>8. RequestSound'
  BY <1>0, <1>3, <1>4 DEF NativeInv, RequestSound, database
<1> QED BY <1>6, <1>7, <1>8 DEF NativeInv

LEMMA StageEditStep ==
    ASSUME NativeInv, NEW in \in Inputs, StageEdit(in)
    PROVE  NativeInv'
<1>0. /\ up = "serving" /\ step = "idle" /\ step' = "staged" /\ input' = in /\ in.op = "edit"
      /\ outcome[in.cmd] \in {NoInput, in}
      /\ outcome[in.cmd] = NoInput =>
            dir[in.item] /\ \A w \in pending : ~(w.op = "edit" /\ w.item = in.item)
      /\ stage' = IF outcome[in.cmd] = NoInput THEN [stage EXCEPT ![in.cmd] = in.text] ELSE stage
      /\ UNCHANGED <<database, dir, desc, up, queue, part, history>>
  BY DEF StageEdit
<1>1. OnlyStaged /\ TornNow = {} /\ TornNow' = {}
  BY <1>0 DEF OnlyStaged, TornNow, history
<1>2. in.cmd \in Commands /\ in.text \in Texts /\ stage \in [Commands -> Texts \cup {NotStaged}]
  BY DEF Inputs, NativeInv, StoreTyped
<1>3. stage' \in [Commands -> Texts \cup {NotStaged}]
  BY <1>0, <1>2
<1>4. ASSUME NEW w \in pending PROVE stage'[w.cmd] = stage[w.cmd]
  <2>1. w.cmd \in Commands /\ outcome[w.cmd] # NoInput
    BY NoInputApart DEF NativeInv, StoreTyped, WriteSet, PendingSound, Recorded
  <2> QED BY <1>0, <1>2, <2>1
<1>5. StoreTyped' /\ PendingSound' /\ DirsSound' /\ \A i \in Items : Kept(i)'
  BY <1>1, <1>3, <1>4, StagedKept DEF Needed
<1>6. part' \in Parts /\ QueueSound' /\ PartSound'
  BY <1>0 DEF NativeInv, QueueSound, PartSound
<1>7. \A w \in pending : w.cmd = in.cmd => outcome[w.cmd] = in
  BY <1>0, NoInputApart DEF NativeInv, PendingSound, Recorded
<1>8. RequestSound'
  BY <1>0, <1>2, <1>7 DEF NativeInv, RequestSound, database
<1> QED BY <1>5, <1>6, <1>8 DEF NativeInv

\* A command's ID is refused for another input: the text that goes is that of
\* no pending write, or its item is accounted for.
LEMMA RefuseStep ==
    ASSUME NativeInv, Refuse
    PROVE  NativeInv'
<1>0. /\ step = "staged" /\ outcome[input.cmd] # input /\ Idle
      /\ stage' = [stage EXCEPT ![input.cmd] = NotStaged]
      /\ UNCHANGED <<database, dir, desc, up, history>>
  BY DEF Refuse
<1>1. TornNow' = {} /\ QueueSound' /\ PartSound' /\ part' \in Parts
  BY <1>0, IdleSound
<1>2. OnlyStaged /\ TornNow = {}
  BY <1>0 DEF OnlyStaged, TornNow, history
<1>3. stage \in [Commands -> Texts \cup {NotStaged}] /\ stage' \in [Commands -> Texts \cup {NotStaged}]
  BY <1>0 DEF NativeInv, StoreTyped
<1>4. ASSUME NEW w \in pending, w.item \notin Excused' PROVE stage'[w.cmd] = stage[w.cmd]
  <2>1. w.cmd \in Commands /\ w.item \notin reused
    BY <1>2, <1>4 DEF NativeInv, StoreTyped, WriteSet, Excused, OnlyStaged
  <2>2. w.cmd # input.cmd
    BY <1>0, <2>1 DEF NativeInv, RequestSound
  <2> QED BY <1>0, <1>3, <2>1, <2>2
<1>5. StoreTyped' /\ PendingSound' /\ DirsSound' /\ \A i \in Items : Kept(i)'
  BY <1>1, <1>2, <1>3, <1>4, StagedKept DEF Needed
<1>6. RequestSound'
  BY <1>0 DEF Idle, NativeInv, RequestSound
<1> QED BY <1>1, <1>5, <1>6 DEF NativeInv

\* What was carried out needs no staged text: an edit is in the file, a created
\* item has its own.
LEMMA UnstageStep ==
    ASSUME NativeInv, Unstage
    PROVE  NativeInv'
<1>0. /\ step = "loop" /\ queue # <<>> /\ part = "written" /\ part' = "unstaged"
      /\ stage' = [stage EXCEPT ![Current.cmd] = NotStaged]
      /\ UNCHANGED <<database, dir, desc, up, input, step, queue, history>>
  BY DEF Unstage
<1>1. OnlyStaged /\ TornNow = {} /\ TornNow' = {}
  BY <1>0 DEF OnlyStaged, TornNow, history
<1>2. stage \in [Commands -> Texts \cup {NotStaged}] /\ stage' \in [Commands -> Texts \cup {NotStaged}]
  BY <1>0 DEF NativeInv, StoreTyped
<1>3. /\ Current' = Current /\ Current.cmd \in Commands
      /\ \A v \in pending : InTurn(v, Current)
  BY <1>0, CurrentIsPending DEF Current, WriteSet
<1>4. /\ Current.op = "create" => dir[Current.item]
      /\ Current.op = "delete" => ~dir[Current.item]
      /\ Current.op = "edit" /\ item[Current.item] = "there" /\ Current.item \notin Excused =>
            desc[Current.item] = latest[Current.item]
  BY <1>0 DEF NativeInv, PartSound
<1>5. ASSUME NEW w \in pending, Needed(w) PROVE stage'[w.cmd] = w.text
  <2>1. w.cmd \in Commands /\ w.item \notin Excused
    BY <1>1, <1>5 DEF NativeInv, StoreTyped, WriteSet, Needed, Excused, OnlyStaged
  <2>2. w # Current
    BY <1>4, <1>5, <2>1 DEF Needed
  <2>3. w.cmd # Current.cmd
    BY <1>3, <2>2 DEF InTurn
  <2> QED BY <1>0, <1>2, <1>5, <2>1, <2>3 DEF Needed
<1>6. StoreTyped' /\ PendingSound' /\ DirsSound' /\ \A i \in Items : Kept(i)'
  BY <1>1, <1>2, <1>5, StagedKept
<1>7. part' \in Parts /\ QueueSound'
  BY <1>0 DEF NativeInv, QueueSound, Parts, database
<1>8. PartSound'
  BY <1>0, <1>2, <1>3, <1>4 DEF PartSound, database
<1>9. RequestSound'
  BY <1>0 DEF NativeInv, RequestSound, database, history
<1> QED BY <1>6, <1>7, <1>8, <1>9 DEF NativeInv

\* When a loop is through, edits are the only writes left.
LEMMA LoopDone ==
    ASSUME NativeInv, step = "loop", queue = <<>>
    PROVE  \A w \in pending : w.op = "edit"
<1>1. 1..Len(queue) = {}
  BY EmptySeq
<1> QED BY <1>1 DEF NativeInv, QueueSound

LEMMA FinishStep ==
    ASSUME NativeInv, Finish
    PROVE  NativeInv'
<1>0. /\ up = "serving" /\ step = "loop" /\ queue = <<>> /\ Idle
      /\ stage' = IF input.op = "create" THEN [stage EXCEPT ![input.cmd] = NotStaged] ELSE stage
      /\ UNCHANGED <<database, dir, desc, up, history>>
  BY DEF Finish
<1>1. TornNow' = {} /\ QueueSound' /\ PartSound' /\ part' \in Parts
  BY <1>0, IdleSound
<1>2. OnlyStaged /\ TornNow = {}
  BY <1>0 DEF OnlyStaged, TornNow, history
<1>3. stage \in [Commands -> Texts \cup {NotStaged}] /\ stage' \in [Commands -> Texts \cup {NotStaged}]
  BY <1>0 DEF NativeInv, StoreTyped
<1>4. ASSUME NEW w \in pending PROVE stage'[w.cmd] = stage[w.cmd]
  <2>1. w.cmd \in Commands /\ w.op = "edit"
    BY <1>0, LoopDone DEF NativeInv, StoreTyped, WriteSet
  <2>2. CASE input.op # "create"
    BY <1>0, <2>2
  <2>3. CASE input.op = "create"
    <3>1. outcome[input.cmd] = input
      BY <1>0, <2>3 DEF NativeInv, RequestSound, NoInput
    <3>2. w.cmd # input.cmd
      <4>1. w = Write(outcome[w.cmd], w.seq)
        BY DEF NativeInv, PendingSound, Recorded
      <4>2. w.op = outcome[w.cmd].op
        BY <4>1 DEF Write
      <4> QED BY <2>1, <2>3, <3>1, <4>2
    <3> QED BY <1>0, <1>3, <2>1, <2>3, <3>2
  <2> QED BY <2>2, <2>3
<1>5. StoreTyped' /\ PendingSound' /\ DirsSound' /\ \A i \in Items : Kept(i)'
  BY <1>1, <1>2, <1>3, <1>4, StagedKept DEF Needed
<1>6. RequestSound'
  BY <1>0 DEF Idle, NativeInv, RequestSound
<1> QED BY <1>1, <1>5, <1>6 DEF NativeInv

LEMMA ServeStep ==
    ASSUME NativeInv, Serve
    PROVE  NativeInv'
<1>0. /\ up = "starting" /\ up' = "serving" /\ queue = <<>> /\ Idle
      /\ stage' = [c \in Commands |-> IF c \in Orphans THEN NotStaged ELSE stage[c]]
      /\ UNCHANGED <<database, dir, desc, history>>
  BY DEF Serve
<1>1. TornNow' = {} /\ QueueSound' /\ PartSound' /\ part' \in Parts
  BY <1>0, IdleSound
<1>2. OnlyStaged /\ TornNow = {}
  BY <1>0 DEF OnlyStaged, TornNow, history
<1>3. stage' \in [Commands -> Texts \cup {NotStaged}]
  BY <1>0 DEF NativeInv, StoreTyped
<1>4. ASSUME NEW w \in pending PROVE stage'[w.cmd] = stage[w.cmd]
  <2>1. w.cmd \in Commands /\ w.cmd \notin Orphans
    BY DEF NativeInv, StoreTyped, WriteSet, Orphans
  <2> QED BY <1>0, <2>1
<1>5. StoreTyped' /\ PendingSound' /\ DirsSound' /\ \A i \in Items : Kept(i)'
  BY <1>1, <1>2, <1>3, <1>4, StagedKept DEF Needed
<1>6. RequestSound'
  BY <1>0 DEF Idle, RequestSound
<1> QED BY <1>1, <1>5, <1>6 DEF NativeInv

----------------------------------------------------------------------------
(* The transaction *)

\* What a command adds to the pending writes.
LEMMA NewWritesAre ==
    ASSUME NEW in \in Inputs, sequence \in Nat
    PROVE  /\ NewWrites(in) \subseteq WriteSet /\ IsFiniteSet(NewWrites(in))
           /\ \A v, w \in NewWrites(in) : v = w
           /\ \A w \in NewWrites(in) :
                  /\ w = Write(in, w.seq) /\ w.seq <= sequence + 1
                  /\ w.cmd = in.cmd /\ w.op = in.op /\ w.item = in.item /\ w.text = in.text
                  /\ in.op # "edit" => w.seq = sequence + 1
           /\ in.op # "edit" => NewWrites(in) # {}
<1>1. ASSUME NEW n \in Nat
      PROVE  /\ Write(in, n) \in WriteSet /\ Write(in, n).seq = n
             /\ Write(in, n).cmd = in.cmd /\ Write(in, n).op = in.op
             /\ Write(in, n).item = in.item /\ Write(in, n).text = in.text
  BY DEF Write, WriteSet, Inputs
<1>2. CASE in.op = "edit"
  <2>1. NewWrites(in) \in {{}, {Write(in, 0)}}
    BY <1>2 DEF NewWrites
  <2>2. IsFiniteSet(NewWrites(in))
    <3>1. IsFiniteSet({}) /\ IsFiniteSet({Write(in, 0)})
      BY FS_EmptySet, FS_Singleton
    <3> QED BY <2>1, <3>1
  <2>3. Write(in, 0) \in WriteSet /\ Write(in, 0).seq = 0 /\ 0 <= sequence + 1
    BY <1>1
  <2>4. \A w \in NewWrites(in) : w = Write(in, 0)
    BY <2>1
  <2> QED BY <1>1, <1>2, <2>2, <2>3, <2>4
<1>3. CASE in.op # "edit"
  <2>1. NewWrites(in) = {Write(in, sequence + 1)}
    BY <1>3 DEF NewWrites
  <2>2. IsFiniteSet(NewWrites(in))
    BY <2>1, FS_Singleton
  <2>3. sequence + 1 \in Nat /\ sequence + 1 <= sequence + 1
    OBVIOUS
  <2>4. \A w \in NewWrites(in) : w = Write(in, sequence + 1)
    BY <2>1
  <2> QED BY <1>1, <1>3, <2>1, <2>2, <2>3, <2>4
<1> QED BY <1>2, <1>3

\* The new writes are in turn with the pending ones: an item is created once and
\* edited by one command at a time.
LEMMA CommitStep ==
    ASSUME NativeInv, Commit
    PROVE  NativeInv'
<1> DEFINE new == NewWrites(input)
           i0 == input.item
<1>0. /\ step = "staged" /\ outcome[input.cmd] = NoInput /\ Applicable(input)
      /\ item' = [item EXCEPT ![i0] = IF input.op = "delete" THEN "deleted" ELSE "there"]
      /\ outcome' = [outcome EXCEPT ![input.cmd] = input]
      /\ pending' = pending \cup new
      /\ sequence' = sequence + 1
      /\ latest' = IF input.op # "delete" /\ new # {}
                   THEN [latest EXCEPT ![i0] = input.text] ELSE latest
      /\ Loop(pending')
      /\ UNCHANGED <<dir, desc, stage, up, input, torn, raced, reused>>
  BY DEF Commit, files
<1>1. /\ input \in Inputs /\ input.cmd \in Commands /\ i0 \in Items /\ input.text \in Texts
      /\ input.op \in {"create", "edit", "delete"} /\ sequence \in Nat
      /\ input.op # "delete" => stage[input.cmd] = input.text
      /\ input.op = "edit" => dir[i0] /\ \A w \in pending : ~(w.op = "edit" /\ w.item = i0)
      /\ up = "serving"
  BY <1>0 DEF NativeInv, StoreTyped, RequestSound, Inputs
<1>2. /\ new \subseteq WriteSet /\ IsFiniteSet(new)
      /\ \A v, w \in new : v = w
      /\ \A w \in new :
             /\ w = Write(input, w.seq) /\ w.seq <= sequence + 1
             /\ w.cmd = input.cmd /\ w.op = input.op /\ w.item = i0 /\ w.text = input.text
             /\ input.op # "edit" => w.seq = sequence + 1
      /\ input.op # "edit" => new # {}
  BY <1>1, NewWritesAre
<1> HIDE DEF new, i0
<1>3. /\ item[i0] = IF input.op = "create" THEN "none" ELSE "there"
      /\ item \in [Items -> {"none", "there", "deleted"}]
      /\ item'[i0] = IF input.op = "delete" THEN "deleted" ELSE "there"
      /\ \A i \in Items : i # i0 => item'[i] = item[i]
  BY <1>0, <1>1 DEF Applicable, NativeInv, StoreTyped, i0
<1>4. /\ outcome'[input.cmd] = input
      /\ \A c \in Commands : c # input.cmd => outcome'[c] = outcome[c]
  BY <1>0, <1>1 DEF NativeInv, StoreTyped
<1>5. /\ latest \in [Items -> Texts] /\ latest' \in [Items -> Texts]
      /\ \A i \in Items : i # i0 => latest'[i] = latest[i]
      /\ input.op # "delete" /\ new # {} => latest'[i0] = input.text
      /\ new = {} => latest' = latest
  BY <1>0, <1>1 DEF NativeInv, StoreTyped
<1>6. \A w \in pending : /\ w.cmd \in Commands /\ w.item \in Items /\ w.cmd # input.cmd
                         /\ w.seq \in Nat /\ w.seq <= sequence
  BY <1>0, NoInputApart DEF NativeInv, StoreTyped, WriteSet, PendingSound, Recorded
<1>7. StoreTyped'
  <2>1. pending' \subseteq WriteSet /\ IsFiniteSet(pending')
    BY <1>0, <1>2, FS_Union DEF NativeInv, StoreTyped
  <2>2. item' \in [Items -> {"none", "there", "deleted"}] /\ outcome' \in [Commands -> Inputs \cup {NoInput}]
    BY <1>0, <1>1 DEF NativeInv, StoreTyped
  <2>3. sequence' \in Nat
    BY <1>0, <1>1
  <2> QED BY <1>0, <1>5, <2>1, <2>2, <2>3 DEF NativeInv, StoreTyped
<1>8. QueueSound' /\ PartSound' /\ TornNow' = {} /\ part' \in Parts
  BY <1>0, <1>7, LoopStarts DEF StoreTyped
<1>9. PendingSound'
  <2>1. ASSUME NEW w \in pending PROVE Recorded(w)'
    <3>1. Recorded(w) /\ outcome'[w.cmd] = outcome[w.cmd]
      BY <1>4, <1>6 DEF NativeInv, PendingSound
    <3>2. w.seq <= sequence'
      BY <1>0, <1>1, <1>6
    <3>3. item'[w.item] # "none" /\ (w.op = "delete" => item'[w.item] = "deleted")
      BY <1>3, <1>6, <3>1 DEF Recorded
    <3> QED BY <3>1, <3>2, <3>3 DEF Recorded
  <2>2. ASSUME NEW w \in new PROVE Recorded(w)'
    BY <1>0, <1>1, <1>2, <1>3, <1>4 DEF Recorded
  <2>3. ASSUME NEW v \in pending, NEW w \in new PROVE InTurn(v, w) /\ InTurn(w, v)
    <3>1. v.cmd # w.cmd
      BY <1>2, <1>6
    <3>2. Recorded(v)
      BY DEF NativeInv, PendingSound
    <3>3. v.item = w.item => v.op # "delete"
      BY <1>2, <1>3, <3>2 DEF Recorded
    <3>4. v.item = w.item /\ v.op = w.op => v.op \notin {"create", "edit"}
      BY <1>1, <1>2, <1>3, <3>2 DEF Recorded
    <3>5. v.op \in {"create", "edit", "delete"}
      BY DEF NativeInv, StoreTyped, WriteSet
    <3>6. w.op = "delete" => v.seq < w.seq
      BY <1>1, <1>2, <1>6
    <3> QED BY <3>1, <3>3, <3>4, <3>5, <3>6 DEF InTurn
  <2>4. \A v, w \in pending : InTurn(v, w)
    BY DEF NativeInv, PendingSound
  <2>5. \A v, w \in new : InTurn(v, w)
    BY <1>2 DEF InTurn
  <2>6. \A v, w \in pending' : InTurn(v, w)
    BY <1>0, <2>3, <2>4, <2>5
  <2>7. \A w \in pending' : Recorded(w)'
    BY <1>0, <2>1, <2>2
  <2> QED BY <2>6, <2>7 DEF PendingSound, InTurn
<1>10. DirsSound'
  <2> SUFFICES ASSUME NEW i \in Items
               PROVE  /\ dir[i] <=> desc[i] # Absent
                      /\ item'[i] = "none" => ~dir[i]
                      /\ item'[i] = "deleted" /\ (\A w \in pending' : ~(w.item = i /\ w.op = "delete")) =>
                            ~dir[i] /\ \A w \in pending' : ~(w.item = i /\ w.op = "create")
    BY <1>0 DEF DirsSound
  <2>1. /\ dir[i] <=> desc[i] # Absent
        /\ item[i] = "none" => ~dir[i]
        /\ item[i] = "deleted" /\ (\A w \in pending : ~(w.item = i /\ w.op = "delete")) =>
              ~dir[i] /\ \A w \in pending : ~(w.item = i /\ w.op = "create")
    BY DEF NativeInv, DirsSound
  <2>2. CASE i = i0
    <3>1. item'[i] = "deleted" => \E w \in new : w.item = i /\ w.op = "delete"
      BY <1>2, <1>3, <2>2
    <3> QED BY <1>0, <1>3, <2>1, <2>2, <3>1
  <2>3. CASE i # i0
    <3>1. \A w \in new : w.item # i
      BY <1>2, <2>3
    <3> QED BY <1>0, <1>3, <2>1, <2>3, <3>1
  <2> QED BY <2>2, <2>3
<1>11. RequestSound'
  BY <1>0, <1>1, <1>4 DEF RequestSound, Loop
<1>12. ASSUME NEW i \in Items PROVE Kept(i)'
  <2> SUFFICES ASSUME item'[i] = "there", i \notin Excused
               PROVE  IF dir[i] THEN desc[i] = latest'[i] \/ Staged(i, "edit")'
                                ELSE Staged(i, "create")'
    BY <1>0, <1>8 DEF Kept, Excused
  <2>1. TornNow = {}
    BY <1>0 DEF TornNow
  <2>2. ASSUME latest'[i] = latest[i], item[i] = "there"
        PROVE  IF dir[i] THEN desc[i] = latest'[i] \/ Staged(i, "edit")'
                         ELSE Staged(i, "create")'
    <3>1. Kept(i)
      BY DEF NativeInv
    <3> QED BY <1>0, <2>1, <2>2, <3>1 DEF Kept, Staged
  <2>3. CASE i # i0
    BY <1>3, <1>5, <2>2, <2>3
  <2>4. CASE i = i0 /\ new = {}
    BY <1>2, <1>3, <1>5, <2>2, <2>4
  <2>5. CASE i = i0 /\ new # {}
    <3>1. PICK w \in new : TRUE
      BY <2>5
    <3>2. input.op # "delete"
      BY <1>3, <2>5
    <3>3. w \in pending' /\ w.item = i /\ w.op = input.op /\ w.text = latest'[i] /\ stage'[w.cmd] = latest'[i]
      BY <1>0, <1>1, <1>2, <1>5, <2>5, <3>1, <3>2
    <3>4. /\ input.op = "edit" => Staged(i, "edit")'
          /\ input.op = "create" => Staged(i, "create")'
      BY <3>3 DEF Staged
    <3>5. input.op = "edit" => dir[i]
      BY <1>1, <2>5
    <3>6. input.op = "create" => ~dir[i]
      BY <1>1, <1>3, <2>5 DEF NativeInv, DirsSound
    <3> QED BY <1>1, <3>2, <3>4, <3>5, <3>6
  <2> QED BY <2>3, <2>4, <2>5
<1> QED BY <1>7, <1>8, <1>9, <1>10, <1>11, <1>12 DEF NativeInv

----------------------------------------------------------------------------
(* Steps that change the files of the first write's item *)

\* What such a step leaves alone.
OnlyFiles == UNCHANGED <<database, stage, up, input, step, queue, torn, raced, reused>>

\* The files of the other items are where they were.
LEMMA OthersKept ==
    ASSUME NativeInv, OnlyFiles, step = "loop", queue # <<>>, NEW i \in Items, i # Current.item,
           dir'[i] = dir[i], desc'[i] = desc[i], latest'[i] = latest[i]
    PROVE  Kept(i)'
<1>1. Kept(i) /\ i \notin TornNow /\ i \notin TornNow'
  BY DEF NativeInv, TornNow, Current, OnlyFiles
<1> QED BY <1>1 DEF Kept, Excused, Staged, OnlyFiles, database

LEMMA FilesFrame ==
    ASSUME NativeInv, OnlyFiles
    PROVE  /\ step = "loop" => PendingSound' /\ QueueSound' /\ RequestSound'
           /\ Current' = Current
<1>1. PendingSound'
  BY DEF NativeInv, PendingSound, Recorded, InTurn, OnlyFiles, database
<1>2. QueueSound'
  BY DEF NativeInv, QueueSound, OnlyFiles, database
<1>3. step = "loop" => RequestSound'
  BY DEF NativeInv, RequestSound, OnlyFiles, database
<1> QED BY <1>1, <1>2, <1>3 DEF Current, OnlyFiles

\* An item has no file before its create is carried out, and keeps one it has.
LEMMA OpenCreatedStep ==
    ASSUME NativeInv, OpenCreated
    PROVE  NativeInv'
<1> DEFINE i0 == Current.item
<1>0. /\ step = "loop" /\ queue # <<>> /\ Current.op = "create" /\ part = "begin"
      /\ stage[Current.cmd] # NotStaged \/ desc[i0] # Absent
      /\ dir' = [dir EXCEPT ![i0] = TRUE]
      /\ desc' = IF desc[i0] = Absent THEN [desc EXCEPT ![i0] = Empty] ELSE desc
      /\ part' = IF desc[i0] = Absent THEN "opened" ELSE "written"
      /\ OnlyFiles /\ latest' = latest
  BY DEF OpenCreated, Writing, Recoverable, OnlyFiles, history
<1>1. PendingSound' /\ QueueSound' /\ RequestSound' /\ Current' = Current
  BY <1>0, FilesFrame
<1>2. Current \in pending /\ i0 \in Items /\ Recorded(Current)
  BY <1>0, CurrentIsPending DEF WriteSet
<1>3. dir \in [Items -> BOOLEAN] /\ desc \in [Items -> Texts \cup {Absent}]
  BY DEF NativeInv, StoreTyped
<1>4. StoreTyped' /\ part' \in Parts
  BY <1>0, <1>3, NotStagedApart DEF NativeInv, StoreTyped, OnlyFiles, database, Parts
<1>5. /\ dir'[i0] = TRUE /\ desc'[i0] # Absent
      /\ \A i \in Items : i # i0 => dir'[i] = dir[i] /\ desc'[i] = desc[i]
  BY <1>0, <1>2, <1>3, NotStagedApart
<1> HIDE DEF i0
<1>6. DirsSound'
  <2>1. item[i0] # "none" /\ (item[i0] = "deleted" => \E w \in pending : w.item = i0 /\ w.op = "delete")
    BY <1>0, <1>2 DEF NativeInv, DirsSound, Recorded, i0
  <2> QED BY <1>0, <1>5, <2>1 DEF NativeInv, DirsSound, OnlyFiles, database
<1>7. PartSound'
  BY <1>0, <1>1, <1>5 DEF PartSound, i0, OnlyFiles
<1>8. ASSUME NEW i \in Items PROVE Kept(i)'
  <2>1. CASE i # i0
    BY <1>0, <1>5, <2>1, OthersKept DEF i0
  <2>2. CASE i = i0
    <3>1. TornNow = {} /\ TornNow' = IF desc[i0] = Absent THEN {i0} ELSE {}
      BY <1>0, <1>1 DEF TornNow, OnlyFiles, i0
    <3>2. Kept(i) /\ (dir[i] <=> desc[i] # Absent)
      BY DEF NativeInv, DirsSound
    <3>3. CASE desc[i] = Absent
      BY <1>0, <2>2, <3>1, <3>2, <3>3 DEF Kept, Excused, Staged, OnlyFiles, database
    <3>4. CASE desc[i] # Absent
      BY <1>0, <1>5, <2>2, <3>1, <3>2, <3>4 DEF Kept, Excused, Staged, OnlyFiles, database
    <3> QED BY <3>3, <3>4
  <2> QED BY <2>1, <2>2
<1> QED BY <1>1, <1>4, <1>6, <1>7, <1>8 DEF NativeInv

\* What is written into an opened file is what its create staged.
LEMMA WriteCreatedStep ==
    ASSUME NativeInv, WriteCreated
    PROVE  NativeInv'
<1> DEFINE i0 == Current.item
<1>0. /\ step = "loop" /\ queue # <<>> /\ Current.op = "create" /\ part = "opened"
      /\ desc' = [desc EXCEPT ![i0] = stage[Current.cmd]]
      /\ part' = "written"
      /\ OnlyFiles /\ latest' = latest /\ dir' = dir
  BY DEF WriteCreated, Writing, OnlyFiles, history
<1>1. PendingSound' /\ QueueSound' /\ RequestSound' /\ Current' = Current
  BY <1>0, FilesFrame
<1>2. /\ Current \in pending /\ i0 \in Items /\ Current.cmd \in Commands
      /\ \A v \in pending : InTurn(v, Current)
  BY <1>0, CurrentIsPending DEF WriteSet
<1>3. dir[i0] /\ stage[Current.cmd] \in Texts
  BY <1>0, <1>2 DEF NativeInv, PartSound, StoreTyped
<1>4. desc \in [Items -> Texts \cup {Absent}]
  BY DEF NativeInv, StoreTyped
<1>5. StoreTyped' /\ part' \in Parts
  BY <1>0, <1>3, <1>4 DEF NativeInv, StoreTyped, OnlyFiles, database, Parts
<1>6. /\ desc'[i0] = stage[Current.cmd] /\ desc'[i0] # Absent
      /\ \A i \in Items : i # i0 => desc'[i] = desc[i]
  BY <1>0, <1>2, <1>3, <1>4, NotStagedApart
<1> HIDE DEF i0
<1>7. DirsSound'
  BY <1>0, <1>3, <1>6 DEF NativeInv, DirsSound, OnlyFiles, database
<1>8. PartSound'
  BY <1>0, <1>1, <1>3 DEF PartSound, i0
<1>9. ASSUME NEW i \in Items PROVE Kept(i)'
  <2>1. CASE i # i0
    BY <1>0, <1>6, <2>1, OthersKept DEF i0
  <2>2. CASE i = i0
    <3> SUFFICES ASSUME item[i] = "there", i \notin Excused
                 PROVE  desc'[i] = latest[i] /\ dir[i] /\ TornNow' = {}
      BY <1>0 DEF Kept, Excused, OnlyFiles, database
    <3>1. TornNow = {i0} /\ TornNow' = {}
      BY <1>0 DEF TornNow, i0
    <3>2. Staged(i, "create")
      BY <2>2, <3>1 DEF NativeInv, Kept
    <3>3. PICK v \in pending : v.op = "create" /\ v.item = i /\ stage[v.cmd] = latest[i]
      BY <3>2 DEF Staged
    <3>4. v = Current
      BY <1>0, <1>2, <2>2, <3>3 DEF InTurn, i0
    <3> QED BY <1>3, <1>6, <2>2, <3>1, <3>3, <3>4
  <2> QED BY <2>1, <2>2
<1> QED BY <1>1, <1>5, <1>7, <1>8, <1>9 DEF NativeInv

\* A rename replaces the text the edit's author saw, or one that a person wrote
\* after the last check.
LEMMA RenameEditedStep ==
    ASSUME NativeInv, RenameEdited
    PROVE  NativeInv'
<1> DEFINE i0 == Current.item
<1>0. /\ step = "loop" /\ queue # <<>> /\ Current.op = "edit" /\ part = "checked"
      /\ desc' = [desc EXCEPT ![i0] = Current.text]
      /\ latest' = IF Text(i0) = Current.prev THEN [latest EXCEPT ![i0] = Current.text] ELSE latest
      /\ part' = "written"
      /\ OnlyFiles /\ dir' = dir
  BY DEF RenameEdited, Writing, OnlyFiles
<1>1. PendingSound' /\ QueueSound' /\ RequestSound' /\ Current' = Current
  BY <1>0, FilesFrame
<1>2. i0 \in Items /\ Current.text \in Texts
  BY <1>0, CurrentIsPending DEF WriteSet
<1>3. dir[i0] /\ (Text(i0) = Current.prev \/ i0 \in raced)
  BY <1>0 DEF NativeInv, PartSound
<1>4. desc \in [Items -> Texts \cup {Absent}] /\ latest \in [Items -> Texts]
  BY DEF NativeInv, StoreTyped
<1>5. StoreTyped' /\ part' \in Parts
  BY <1>0, <1>2, <1>4 DEF NativeInv, StoreTyped, OnlyFiles, database, Parts
<1>6. /\ desc'[i0] = Current.text /\ desc'[i0] # Absent
      /\ i0 \notin raced => latest'[i0] = Current.text
      /\ \A i \in Items : i # i0 => desc'[i] = desc[i] /\ latest'[i] = latest[i]
  BY <1>0, <1>2, <1>3, <1>4, NotStagedApart
<1> HIDE DEF i0
<1>7. DirsSound'
  BY <1>0, <1>3, <1>6 DEF NativeInv, DirsSound, OnlyFiles, database
<1>8. PartSound'
  BY <1>0, <1>1, <1>6 DEF PartSound, i0, OnlyFiles, Excused
<1>9. ASSUME NEW i \in Items PROVE Kept(i)'
  <2>1. CASE i # i0
    BY <1>0, <1>6, <2>1, OthersKept DEF i0
  <2>2. CASE i = i0
    <3>1. TornNow' = {}
      BY <1>0 DEF TornNow
    <3> QED BY <1>0, <1>3, <1>6, <2>2, <3>1 DEF Kept, Excused, OnlyFiles
  <2> QED BY <2>1, <2>2
<1> QED BY <1>1, <1>5, <1>7, <1>8, <1>9 DEF NativeInv

LEMMA RemoveDeletedStep ==
    ASSUME NativeInv, RemoveDeleted
    PROVE  NativeInv'
<1> DEFINE i0 == Current.item
<1>0. /\ step = "loop" /\ queue # <<>> /\ Current.op = "delete" /\ part = "begin"
      /\ dir' = [dir EXCEPT ![i0] = FALSE]
      /\ desc' = [desc EXCEPT ![i0] = Absent]
      /\ part' = "written"
      /\ OnlyFiles /\ latest' = latest
  BY DEF RemoveDeleted, Writing, OnlyFiles, history
<1>1. PendingSound' /\ QueueSound' /\ RequestSound' /\ Current' = Current
  BY <1>0, FilesFrame
<1>2. Current \in pending /\ i0 \in Items /\ item[i0] = "deleted"
  BY <1>0, CurrentIsPending DEF WriteSet, Recorded
<1>3. dir \in [Items -> BOOLEAN] /\ desc \in [Items -> Texts \cup {Absent}]
  BY DEF NativeInv, StoreTyped
<1>4. StoreTyped' /\ part' \in Parts
  BY <1>0, <1>3 DEF NativeInv, StoreTyped, OnlyFiles, database, Parts
<1>5. /\ dir'[i0] = FALSE /\ desc'[i0] = Absent
      /\ \A i \in Items : i # i0 => dir'[i] = dir[i] /\ desc'[i] = desc[i]
  BY <1>0, <1>2, <1>3
<1>6. \E w \in pending : w.item = i0 /\ w.op = "delete"
  BY <1>0, <1>2
<1> HIDE DEF i0
<1>7. DirsSound'
  BY <1>0, <1>2, <1>5, <1>6 DEF NativeInv, DirsSound, OnlyFiles, database
<1>8. PartSound'
  BY <1>0, <1>1, <1>5 DEF PartSound, i0
<1>9. ASSUME NEW i \in Items PROVE Kept(i)'
  <2>1. CASE i # i0
    BY <1>0, <1>5, <2>1, OthersKept DEF i0
  <2>2. CASE i = i0
    BY <1>0, <1>2, <2>2 DEF Kept, OnlyFiles, database
  <2> QED BY <2>1, <2>2
<1> QED BY <1>1, <1>4, <1>7, <1>8, <1>9 DEF NativeInv

\* What a person writes is in the file.
LEMMA EditFileStep ==
    ASSUME NativeInv, NEW i0 \in Items, NEW t \in Texts, EditFile(i0, t)
    PROVE  NativeInv'
<1>0. /\ desc[i0] # Absent /\ i0 \notin TornNow
      /\ desc' = [desc EXCEPT ![i0] = t] /\ latest' = [latest EXCEPT ![i0] = t]
      /\ raced' = IF Writing("edit", "checked") /\ Current.item = i0 THEN raced \cup {i0} ELSE raced
      /\ UNCHANGED <<database, dir, stage, up, input, step, queue, part, torn, reused>>
  BY DEF EditFile, handler
<1>1. desc \in [Items -> Texts \cup {Absent}] /\ latest \in [Items -> Texts]
  BY DEF NativeInv, StoreTyped
<1>2. /\ desc'[i0] = t /\ latest'[i0] = t /\ t # Absent
      /\ \A i \in Items : i # i0 => desc'[i] = desc[i] /\ latest'[i] = latest[i]
  BY <1>0, <1>1, NotStagedApart
<1>3. StoreTyped' /\ part' \in Parts
  BY <1>0, <1>1 DEF NativeInv, StoreTyped, database
<1>4. PendingSound' /\ QueueSound' /\ RequestSound'
  BY <1>0 DEF NativeInv, PendingSound, Recorded, InTurn, QueueSound, RequestSound, database
<1>5. DirsSound'
  BY <1>0, <1>2 DEF NativeInv, DirsSound, database
<1>6. TornNow' = TornNow /\ raced \subseteq raced' /\ Current' = Current
  BY <1>0 DEF TornNow, Current
<1>7. PartSound'
  <2> SUFFICES ASSUME step = "loop", queue # <<>>
               PROVE  PartSound'
    BY <1>0 DEF PartSound
  <2>1. Current.item \in Items
    BY CurrentIsPending DEF WriteSet
  <2>2. Current.item # i0 => (Text(Current.item))' = Text(Current.item)
    BY <1>2, <1>6, <2>1 DEF Text
  <2>3. part = "checked" /\ Current.op = "edit" /\ Current.item = i0 => i0 \in raced'
    BY <1>0 DEF Writing
  <2>4. PartSound
    BY DEF NativeInv
  <2>5. part = "opened" => Current.op = "create" /\ dir[Current.item] /\ stage[Current.cmd] # NotStaged
    BY <2>4 DEF PartSound
  <2>6. part = "checked" => /\ Current.op = "edit" /\ dir[Current.item]
                            /\ Text(Current.item)' = Current.prev \/ Current.item \in raced'
    BY <1>6, <2>2, <2>3, <2>4 DEF PartSound
  <2>7. part = "written" /\ Current.op = "edit" /\ item[Current.item] = "there" /\ Current.item \notin Excused' =>
          desc'[Current.item] = latest'[Current.item]
    BY <1>0, <1>2, <1>6, <2>1, <2>4 DEF PartSound, Excused
  <2>8. /\ part \in {"written", "unstaged"} => /\ Current.op = "create" => dir[Current.item]
                                               /\ Current.op = "delete" => ~dir[Current.item]
        /\ part = "unstaged" => stage[Current.cmd] = NotStaged
    BY <2>4 DEF PartSound
  <2> QED BY <1>0, <1>6, <2>5, <2>6, <2>7, <2>8 DEF PartSound, database
<1>8. ASSUME NEW i \in Items PROVE Kept(i)'
  <2>1. Kept(i) /\ (dir[i] <=> desc[i] # Absent)
    BY DEF NativeInv, DirsSound
  <2>2. CASE i = i0
    BY <1>0, <1>2, <1>6, <2>1, <2>2 DEF Kept
  <2>3. CASE i # i0
    BY <1>0, <1>2, <1>6, <2>1, <2>3 DEF Kept, Excused, Staged, database
  <2> QED BY <2>2, <2>3
<1> QED BY <1>3, <1>4, <1>5, <1>7, <1>8 DEF NativeInv

\* A write that is cleared was carried out, and the creates of a deleted item
\* were cleared before its delete.
LEMMA ClearPendingStep ==
    ASSUME NativeInv, ClearPending
    PROVE  NativeInv'
<1> DEFINE w0 == Current
<1>0. /\ step = "loop" /\ queue # <<>> /\ part = "unstaged" /\ part' = "begin"
      /\ pending' = pending \ {w0} /\ queue' = Tail(queue)
      /\ UNCHANGED <<item, outcome, sequence, dir, desc, stage, up, input, step, latest, torn, raced, reused>>
  BY DEF ClearPending, files, history
<1>1. /\ w0 \in pending /\ w0.seq \in Nat /\ w0.cmd \in Nat
      /\ \A v \in pending : InTurn(v, w0)
  BY <1>0, CurrentIsPending, CommandsAssumption DEF WriteSet
<1>2. stage[w0.cmd] = NotStaged /\ (w0.op = "delete" => ~dir[w0.item])
  BY <1>0 DEF NativeInv, PartSound
<1>3. /\ queue' \in Seq(pending')
      /\ \A m, n \in 1..Len(queue') : m < n => Earlier(queue'[m], queue'[n])
      /\ \A w \in pending' : w.op # "edit" => \E k \in 1..Len(queue') : queue'[k] = w
      /\ \A w \in pending' : w.op # "edit" => Earlier(w0, w)
  BY <1>0, TailOfLoop
<1> HIDE DEF w0
<1>4. StoreTyped'
  BY <1>0, FS_Subset DEF NativeInv, StoreTyped
<1>5. PendingSound'
  BY <1>0 DEF NativeInv, PendingSound, Recorded, InTurn
<1>6. QueueSound' /\ PartSound' /\ part' \in Parts
  BY <1>0, <1>3 DEF QueueSound, PartSound, Parts
<1>7. DirsSound'
  <2> SUFFICES ASSUME NEW i \in Items, item[i] = "deleted",
                      \A w \in pending' : ~(w.item = i /\ w.op = "delete")
               PROVE  ~dir[i] /\ \A w \in pending' : ~(w.item = i /\ w.op = "create")
    BY <1>0 DEF NativeInv, DirsSound
  <2>1. CASE w0.item = i /\ w0.op = "delete"
    <3> SUFFICES ASSUME NEW v \in pending', v.item = i, v.op = "create"
                 PROVE  FALSE
      BY <1>2, <2>1
    <3>1. v \in pending /\ v.seq < w0.seq
      BY <1>0, <1>1, <2>1 DEF InTurn
    <3>2. Earlier(w0, v)
      BY <1>3
    <3>3. v.seq \in Nat
      BY <3>1 DEF NativeInv, StoreTyped, WriteSet
    <3> QED BY <1>1, <3>1, <3>2, <3>3 DEF Earlier
  <2>2. CASE ~(w0.item = i /\ w0.op = "delete")
    BY <1>0, <2>2 DEF NativeInv, DirsSound
  <2> QED BY <2>1, <2>2
<1>8. RequestSound'
  BY <1>0 DEF NativeInv, RequestSound
<1>9. ASSUME NEW i \in Items PROVE Kept(i)'
  <2>1. Kept(i) /\ TornNow = {} /\ TornNow' = {} /\ latest[i] # NotStaged
    BY <1>0, NotStagedApart DEF NativeInv, StoreTyped, TornNow
  <2>2. ASSUME NEW op, Staged(i, op) PROVE Staged(i, op)'
    <3>1. PICK w \in pending : w.op = op /\ w.item = i /\ w.text = latest[i] /\ stage[w.cmd] = latest[i]
      BY <2>2 DEF Staged
    <3>2. w # w0
      BY <1>2, <2>1, <3>1
    <3> QED BY <1>0, <3>1, <3>2 DEF Staged
  <2> QED BY <1>0, <2>1, <2>2 DEF Kept, Excused
<1> QED BY <1>4, <1>5, <1>6, <1>7, <1>8, <1>9 DEF NativeInv

----------------------------------------------------------------------------
(* The theorems *)

LEMMA NativeInvInit == NativeInit => NativeInv
<1> SUFFICES ASSUME NativeInit PROVE NativeInv
  OBVIOUS
<1> USE DEF NativeInit
<1>1. StoreTyped
  BY NotStagedApart, FS_EmptySet DEF StoreTyped
<1>2. PendingSound /\ DirsSound
  BY DEF PendingSound, DirsSound
<1>3. QueueSound /\ PartSound /\ RequestSound /\ part \in Parts
  BY DEF QueueSound, PartSound, RequestSound, Parts
<1>4. \A i \in Items : Kept(i)
  BY DEF Kept
<1> QED BY <1>1, <1>2, <1>3, <1>4 DEF NativeInv

LEMMA NativeInvStep == NativeInv /\ [NativeNext]_nativeVars => NativeInv'
<1> SUFFICES ASSUME NativeInv, [NativeNext]_nativeVars PROVE NativeInv'
  OBVIOUS
<1>1. CASE RequestNext
  BY <1>1, StageCreateStep, StageEditStep, RequestDeleteStep DEF RequestNext
<1>2. CASE TransactionNext
  BY <1>2, CommitStep, DuplicateStep, RefuseStep, OtherCommandStep DEF TransactionNext
<1>3. CASE WriteNext
  BY <1>3, OpenCreatedStep, WriteCreatedStep, CheckEditedStep, SkipEditedStep, RenameEditedStep,
     RemoveDeletedStep, UnstageStep, ClearPendingStep, FailCreateStep DEF WriteNext
<1>4. CASE DaemonNext \/ FailWrite \/ DaemonCrash
  BY <1>4, StartStep, ServeStep, FinishStep, FailWriteStep, DaemonCrashStep DEF DaemonNext
<1>5. CASE \E i \in Items, t \in Texts : EditFile(i, t)
  BY <1>5, EditFileStep
<1>6. CASE UNCHANGED nativeVars
  <2>1. /\ UNCHANGED <<item, outcome, pending, sequence, dir, desc, stage, up, input, step, queue, part>>
        /\ UNCHANGED <<latest, torn, raced, reused>>
    BY <1>6 DEF nativeVars, database, files, handler, history
  <2>2. StoreTyped' /\ PendingSound' /\ DirsSound' /\ QueueSound' /\ RequestSound' /\ part' \in Parts
    BY <2>1 DEF NativeInv, StoreTyped, PendingSound, Recorded, InTurn, DirsSound, QueueSound, RequestSound
  <2>3. PartSound'
    BY <2>1 DEF NativeInv, PartSound, Current, Text, Excused
  <2>4. ASSUME NEW i \in Items PROVE Kept(i)'
    BY <2>1 DEF NativeInv, Kept, Excused, TornNow, Current, Staged
  <2> QED BY <2>2, <2>3, <2>4 DEF NativeInv
<1> QED BY <1>1, <1>2, <1>3, <1>4, <1>5, <1>6 DEF NativeNext

\* Whenever the daemon stops and whatever fails while MaterializeNativeWrites
\* runs, the pending writes are those of the recorded commands, a loop has all
\* creates and deletes before it, and every last description is accounted for.
THEOREM NativeInvariant == NativeSpec => []NativeInv
BY NativeInvInit, NativeInvStep, PTL DEF NativeSpec

\* The files follow the items: a description that was committed or edited by a
\* person is in its item's file or staged for a pending write, and what was
\* deleted does not come back (materializeCreate, RemoveItem).
THEOREM NativeFilesFollowItems == NativeSpec => []FilesFollowItems
<1>1. NativeInv => FilesFollowItems
  <2> SUFFICES ASSUME NativeInv PROVE DescriptionsSurvive /\ DeletedStaysDeleted
    BY DEF FilesFollowItems
  <2>1. DescriptionsSurvive
    <3> SUFFICES ASSUME NEW i \in Items, item[i] = "there", i \notin torn \cup raced \cup reused
                 PROVE  DescriptionKept(i)
      BY DEF DescriptionsSurvive
    <3>1. desc[i] = latest[i] \/ Staged(i, "edit") \/ Staged(i, "create")
      BY DEF NativeInv, Kept, Excused
    <3> QED BY <3>1 DEF Staged, DescriptionKept
  <2>2. DeletedStaysDeleted
    BY DEF NativeInv, DirsSound, DeletedStaysDeleted
  <2> QED BY <2>1, <2>2
<1> QED BY <1>1, NativeInvariant, PTL

\* newServer begins to serve with every create and delete carried out, and
\* CleanupOrphanedStages leaves the content of pending edits alone.
THEOREM NativeStartupSettles == NativeSpec => StartupSettlesWrites
<1>1. ASSUME NativeInv, [NativeNext]_nativeVars
      PROVE  [up = "starting" /\ up' = "serving" =>
                /\ \A w \in pending : w.op = "edit"
                /\ \A c \in Commands : stage'[c] # NotStaged => \E w \in pending : w.cmd = c]_nativeVars
  <2> SUFFICES ASSUME NativeNext, up = "starting", up' = "serving"
               PROVE  /\ \A w \in pending : w.op = "edit"
                      /\ \A c \in Commands : stage'[c] # NotStaged => \E w \in pending : w.cmd = c
    BY <1>1
  <2>1. Serve
    <3>1. ~RequestNext /\ ~Start /\ ~Finish
      BY DEF RequestNext, StageCreate, StageEdit, RequestDelete, Start, Finish
    <3>2. ~TransactionNext
      BY <1>1 DEF TransactionNext, Commit, Duplicate, Refuse, OtherCommand, NativeInv, RequestSound
    <3>3. ~WriteNext
      BY DEF WriteNext, OpenCreated, WriteCreated, CheckEdited, SkipEdited, RenameEdited,
             RemoveDeleted, Unstage, ClearPending, FailCreate, Abandon
    <3>4. ~FailWrite /\ ~DaemonCrash
      BY DEF FailWrite, Abandon, DaemonCrash
    <3>5. ~ \E i \in Items, t \in Texts : EditFile(i, t)
      BY DEF EditFile, handler
    <3> QED BY <3>1, <3>2, <3>3, <3>4, <3>5 DEF NativeNext, DaemonNext
  <2>2. step = "loop" /\ queue = <<>>
    BY <1>1, <2>1 DEF Serve, NativeInv, RequestSound
  <2>3. \A w \in pending : w.op = "edit"
    BY <1>1, <2>2, LoopDone
  <2>4. \A c \in Commands : stage'[c] # NotStaged => \E w \in pending : w.cmd = c
    BY <2>1 DEF Serve, Orphans
  <2> QED BY <2>3, <2>4
<1>2. NativeInv /\ [NativeNext]_nativeVars =>
        [up = "starting" /\ up' = "serving" =>
            /\ \A w \in pending : w.op = "edit"
            /\ \A c \in Commands : stage'[c] # NotStaged => \E w \in pending : w.cmd = c]_nativeVars
  BY <1>1
<1> QED BY <1>2, NativeInvariant, PTL DEF NativeSpec, StartupSettlesWrites
=============================================================================
