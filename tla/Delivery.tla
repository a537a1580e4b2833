----------------------------- MODULE Delivery -----------------------------
(***************************************************************************)
(* How a message with a client's own ID reaches an item's agent: the       *)
(* receipts and the send of daemonapi (agents.go, coordinator/             *)
(* api_messages.go), the control command to the runtime's socket           *)
(* (primaryagent/control.go, protocol/live_transport.go) and the driver    *)
(* that hands it to the native agent (pi/rpc_transport.go).                *)
(*                                                                         *)
(* Calls about an item run one at a time (unaryInterceptor, Server.lock).  *)
(* A call may lose its connection to the runtime at a deadline or with the *)
(* daemon while its request stays with the runtime; the client may send    *)
(* the same message again at any time.  A runtime's generation and its ID  *)
(* change together (store_command.go) and are one number here.  Who holds  *)
(* the control lease is ControlLease's subject.                            *)
(***************************************************************************)
EXTENDS Naturals

CONSTANTS Messages,
          MaxRuntimes,   \* bound: runtimes of the item's agent
          MaxOrphans,    \* bound: requests of a message without a caller
          NoMessage

ASSUME BoundsAssumption == MaxRuntimes \in Nat \ {0} /\ MaxOrphans \in Nat
ASSUME NoMessageAssumption == NoMessage \notin Messages

VARIABLES
    receipt,     \* receipt[m]: the stored receipt, of no runtime when there is none
    runtime,     \* the agent's runtime: its number, phase and whether it works
    handled,     \* the commands the current runtime's driver knows
    orphans,     \* orphans[m]: requests at the current runtime whose caller is gone
    call,        \* the API call that holds the item's lock
    log,         \* history: log[m][r], how often runtime r was given m natively
    uncertain,  \* history: messages some attempt of which ended without being settled
    dropped,     \* history: of those, the ones whose receipt a refusal removed
    told         \* told[m]: the last answer the client got

vars == <<receipt, runtime, handled, orphans, call, log, uncertain, dropped, told>>

----------------------------------------------------------------------------
Runtimes == 1 .. MaxRuntimes
None == 0

NoReceipt == [runtime |-> None, gen |-> 0, delivered |-> FALSE]
NoCall == [pc |-> "idle", m |-> NoMessage, receipt |-> NoReceipt, gen |-> 0, answer |-> "none"]

Off == [id |-> None, phase |-> "off", busy |-> FALSE]

Init ==
    /\ receipt = [m \in Messages |-> NoReceipt]
    /\ runtime = Off
    /\ handled = {}
    /\ orphans = [m \in Messages |-> 0]
    /\ call = NoCall
    /\ log = [m \in Messages |-> [r \in Runtimes |-> 0]]
    /\ uncertain = {} /\ dropped = {}
    /\ told = [m \in Messages |-> "none"]

Online == runtime.phase # "off"
Found(m) == receipt[m].runtime # None

Return(answer) ==
    /\ call' = NoCall
    /\ told' = [told EXCEPT ![call.m] = answer]

\* A call that fails before its request left says so and changes nothing.
FailEarly == Return("failed") /\ UNCHANGED <<runtime, handled, orphans, log, uncertain, dropped>>

----------------------------------------------------------------------------
(* The runtime's life. *)

NewRuntime ==
    /\ runtime.id < MaxRuntimes
    /\ runtime' = [id |-> runtime.id + 1, phase |-> "starting", busy |-> FALSE]
    /\ handled' = {}
    /\ orphans' = [m \in Messages |-> 0]

StartAgent ==
    /\ call.pc = "idle" /\ ~Online
    /\ NewRuntime
    /\ UNCHANGED <<receipt, call, log, uncertain, dropped, told>>

\* Pi answered the first command.
BecomeReady ==
    /\ runtime.phase = "starting"
    /\ runtime' = [runtime EXCEPT !.phase = "ready"]
    /\ UNCHANGED <<receipt, handled, orphans, call, log, uncertain, dropped, told>>

\* A turn begins without a message of ours, or settles.
Turn ==
    /\ runtime.phase = "ready"
    /\ runtime' = [runtime EXCEPT !.busy = ~@]
    /\ UNCHANGED <<receipt, handled, orphans, call, log, uncertain, dropped, told>>

\* A shutdown: guarded, which Pi may refuse when it turns out to be at work
\* (shutdownPending until then), or forced.  The wait for the exit has a
\* deadline, so the lock may be free again at once.
StopAgent(guarded) ==
    /\ call.pc = "idle"
    /\ runtime.phase = "ready"
    /\ guarded => ~runtime.busy
    /\ runtime' = [runtime EXCEPT !.phase = IF guarded THEN "leaving" ELSE "stopping"]
    /\ UNCHANGED <<receipt, handled, orphans, call, log, uncertain, dropped, told>>

AnswerShutdown(ok) ==
    /\ runtime.phase = "leaving"
    /\ runtime' = [runtime EXCEPT !.phase = IF ok THEN "stopping" ELSE "ready"]
    /\ UNCHANGED <<receipt, handled, orphans, call, log, uncertain, dropped, told>>

\* Mutant: the connections of a runtime that ended stay open.
ExitSilently(refused) ==
    /\ Online
    /\ refused => runtime.phase = "starting"
    /\ runtime' = [runtime EXCEPT !.phase = "off", !.busy = FALSE]
    /\ orphans' = [m \in Messages |-> 0]
    /\ UNCHANGED <<receipt, handled, call, log, uncertain, dropped, told>>

\* The process ends.  Its sockets close under the call that waits, also when
\* the command was written and the reply was not, except that requests still
\* waiting for a runtime that never became ready may be refused first.
Exit(refused) ==
    /\ Online
    /\ refused => runtime.phase = "starting"
    /\ runtime' = [runtime EXCEPT !.phase = "off", !.busy = FALSE]
    /\ orphans' = [m \in Messages |-> 0]
    /\ call' \in CASE call.pc = "wait" ->
                        {[call EXCEPT !.pc = "answered", !.answer = IF refused THEN "refused" ELSE "lost"]}
                  [] call.pc = "answered" -> {call, [call EXCEPT !.answer = "lost"]}
                  [] OTHER -> {call}
    /\ UNCHANGED <<receipt, handled, log, uncertain, dropped, told>>

----------------------------------------------------------------------------
(* SendMessage and send. *)

\* A delivered message is confirmed again from its receipt.  To an agent that
\* is not running a message is sent by a job that starts it first, unless an
\* earlier attempt's outcome is unknown.
Send(m) ==
    /\ call.pc = "idle"
    /\ IF receipt[m].delivered
          THEN told' = [told EXCEPT ![m] = "delivered"] /\ UNCHANGED call
       ELSE IF ~Online /\ Found(m)
          THEN told' = [told EXCEPT ![m] = "failed"] /\ UNCHANGED call
          ELSE /\ call' = [NoCall EXCEPT !.pc = IF Online THEN "check" ELSE "start", !.m = m]
               /\ told' = [told EXCEPT ![m] = "none"]
    /\ UNCHANGED <<receipt, runtime, handled, orphans, log, uncertain, dropped>>

\* The job's start may fail.
SendStart ==
    /\ call.pc = "start"
    /\ \/ /\ IF Online THEN UNCHANGED <<runtime, handled, orphans>> ELSE NewRuntime
          /\ call' = [call EXCEPT !.pc = "check"]
          /\ UNCHANGED <<log, uncertain, dropped, told>>
       \/ FailEarly
    /\ UNCHANGED receipt

\* A pending receipt is continued only in the generation it was made in.
SameGeneration(stored) == stored.runtime # None => stored.gen = runtime.id

\* send reads the receipt, the agent's state and whether it is busy; which
\* deliveries a busy agent refuses depends on the request.
SendCheck(refused) ==
    /\ call.pc = "check"
    /\ LET stored == receipt[call.m] IN
       IF stored.delivered
          THEN Return("delivered") /\ UNCHANGED <<runtime, handled, orphans, log, uncertain, dropped>>
       ELSE IF ~Online \/ ~SameGeneration(stored) \/ (refused /\ ~Found(call.m))
          THEN FailEarly
          ELSE /\ call' = [call EXCEPT !.pc = "record", !.gen = runtime.id, !.receipt = stored]
               /\ UNCHANGED <<runtime, handled, orphans, log, uncertain, dropped, told>>
    /\ UNCHANGED receipt

\* Taking the vacant lease may replace an idle TUI by a headless agent.
TakeLease ==
    /\ call.pc = "record"
    /\ runtime.phase = "ready" /\ ~runtime.busy
    /\ NewRuntime
    /\ UNCHANGED <<receipt, call, log, uncertain, dropped, told>>

\* The handoff is reserved on the runtime of this moment; a continued one
\* must have been reserved on it.
SendRecord ==
    /\ call.pc = "record"
    /\ LET fresh == [runtime |-> runtime.id, gen |-> call.gen, delivered |-> FALSE]
           mine == IF call.receipt.runtime = None THEN fresh ELSE call.receipt
       IN IF mine.runtime = runtime.id
             THEN /\ receipt' = [receipt EXCEPT ![call.m] = mine]
                  /\ call' = [call EXCEPT !.pc = "submit", !.receipt = mine]
                  /\ UNCHANGED <<runtime, handled, orphans, log, uncertain, dropped, told>>
             ELSE FailEarly /\ UNCHANGED receipt

\* AgentControl: admission by the lease and Control's checks; then the
\* command goes to the runtime's socket.
SendSubmit(admitted) ==
    /\ call.pc = "submit"
    /\ IF admitted /\ Online /\ runtime.id = call.receipt.runtime
          THEN /\ call' = [call EXCEPT !.pc = "wait"]
               /\ UNCHANGED <<runtime, handled, orphans, log, uncertain, dropped, told>>
          ELSE FailEarly
    /\ UNCHANGED receipt

----------------------------------------------------------------------------
(* The driver: handleControlRequest, sendCommand. *)

\* Mutant: commands are not remembered.
VerdictAnew(m, guarded, written) ==
    IF runtime.phase # "ready" \/ (guarded /\ runtime.busy) THEN "refused"
    ELSE IF written THEN "submitted" ELSE "refused"

\* Mutant: the command is written before the agent is found at work.
VerdictLate(m, guarded, written) ==
    IF runtime.phase # "ready" THEN "refused"
    ELSE IF m \in handled THEN "accepted"
    ELSE IF guarded /\ runtime.busy THEN "refused after submission"
    ELSE IF written THEN "submitted" ELSE "refused"

\* A runtime that is stopping refuses; a known command is accepted without
\* doing it again; a guarded prompt is refused by an agent at work; a failed
\* write is forgotten.
Verdict(m, guarded, written) ==
    IF runtime.phase # "ready" THEN "refused"
    ELSE IF m \in handled THEN "accepted"
    ELSE IF guarded /\ runtime.busy THEN "refused"
    ELSE IF written THEN "submitted" ELSE "refused"

\* A command's effect on the driver and on the native agent.
Effect(m, verdict) ==
    IF verdict \in {"submitted", "refused after submission"}
       THEN /\ handled' = handled \union {m}
            /\ log' = [log EXCEPT ![m][runtime.id] = @ + 1]
            /\ runtime' = [runtime EXCEPT !.busy = TRUE]
       ELSE UNCHANGED <<handled, log, runtime>>

\* A runtime that starts keeps its requests until it is ready.
Handle(guarded, written) ==
    /\ call.pc = "wait"
    /\ runtime.phase \in {"ready", "leaving", "stopping"}
    /\ LET verdict == Verdict(call.m, guarded, written) IN
       /\ Effect(call.m, verdict)
       /\ call' = [call EXCEPT !.pc = "answered",
                               !.answer = IF verdict \in {"submitted", "accepted"} THEN "accepted" ELSE "refused"]
    /\ UNCHANGED <<receipt, orphans, uncertain, dropped, told>>

\* Requests on other connections are handled in any order, and answered to
\* nobody.
HandleOrphan(m, guarded, written) ==
    /\ orphans[m] > 0
    /\ runtime.phase \in {"ready", "leaving", "stopping"}
    /\ Effect(m, Verdict(m, guarded, written))
    /\ orphans' = [orphans EXCEPT ![m] = @ - 1]
    /\ UNCHANGED <<receipt, call, uncertain, dropped, told>>

----------------------------------------------------------------------------
(* The answer. *)

\* Only an answer of the runtime removes the receipt; a lost connection
\* leaves it pending.
Forgets(answer) == answer = "refused"

\* The accepted message is marked delivered (saving that may fail), the
\* refused one is forgotten, a lost answer leaves the receipt as it is.
SendEnd(saved) ==
    /\ call.pc = "answered"
    /\ receipt' = [receipt EXCEPT ![call.m] =
                      IF Forgets(call.answer) THEN NoReceipt
                      ELSE IF call.answer = "accepted" /\ saved THEN [call.receipt EXCEPT !.delivered = TRUE]
                      ELSE @]
    /\ dropped' = IF call.answer = "refused" /\ call.m \in uncertain THEN dropped \union {call.m} ELSE dropped
    /\ LET settled == call.answer = "refused" \/ (call.answer = "accepted" /\ saved) IN
       /\ uncertain' = IF settled THEN uncertain ELSE uncertain \union {call.m}
       /\ Return(IF ~settled THEN "failed"
                 ELSE IF call.answer = "refused" THEN "refused" ELSE "delivered")
    /\ UNCHANGED <<runtime, handled, orphans, log>>

\* The caller's time is over: its request stays with the runtime.
Deadline ==
    /\ call.pc = "wait"
    /\ orphans[call.m] < MaxOrphans
    /\ orphans' = [orphans EXCEPT ![call.m] = @ + 1]
    /\ call' = [call EXCEPT !.pc = "answered", !.answer = "lost"]
    /\ UNCHANGED <<receipt, runtime, handled, log, uncertain, dropped, told>>

\* The daemon stops: so does its request, unless it left, and an answer is
\* lost.
Crash ==
    /\ call.pc # "idle"
    /\ call.pc = "wait" => orphans[call.m] < MaxOrphans
    /\ orphans' = IF call.pc = "wait" THEN [orphans EXCEPT ![call.m] = @ + 1] ELSE orphans
    /\ uncertain' = IF call.pc \in {"wait", "answered"} THEN uncertain \union {call.m} ELSE uncertain
    /\ Return("failed")
    /\ UNCHANGED <<receipt, runtime, handled, log, dropped>>

----------------------------------------------------------------------------
Continue ==
    \/ SendStart
    \/ \E refused \in BOOLEAN : SendCheck(refused)
    \/ SendRecord
    \/ \E admitted \in BOOLEAN : SendSubmit(admitted)
    \/ \E saved \in BOOLEAN : SendEnd(saved)

Driver ==
    \/ \E guarded, written \in BOOLEAN : Handle(guarded, written)
    \/ \E refused \in BOOLEAN : runtime.phase = "starting" /\ Exit(refused)
    \/ BecomeReady

Next ==
    \/ StartAgent
    \/ Turn
    \/ \E guarded \in BOOLEAN : StopAgent(guarded)
    \/ \E ok \in BOOLEAN : AnswerShutdown(ok)
    \/ Exit(FALSE)
    \/ \E m \in Messages : Send(m)
    \/ TakeLease
    \/ \E m \in Messages, guarded, written \in BOOLEAN : HandleOrphan(m, guarded, written)
    \/ Deadline
    \/ Crash
    \/ Continue
    \/ Driver

\* The daemon continues its calls.  A driver becomes ready or ends, and
\* handles what it is sent.
Fairness == WF_vars(Continue) /\ WF_vars(Driver)

Spec == Init /\ [][Next]_vars /\ Fairness

----------------------------------------------------------------------------
(* Properties. *)

Receipts == [runtime : 0 .. MaxRuntimes, gen : 0 .. MaxRuntimes, delivered : BOOLEAN]
RuntimeStates == [id : 0 .. MaxRuntimes, phase : {"off", "starting", "ready", "leaving", "stopping"},
                  busy : BOOLEAN]
Calls == [pc : {"idle", "start", "check", "record", "submit", "wait", "answered"},
          m : Messages \union {NoMessage}, receipt : Receipts, gen : 0 .. MaxRuntimes,
          answer : {"none", "accepted", "refused", "lost"}]

TypeOK ==
    /\ receipt \in [Messages -> Receipts]
    /\ runtime \in RuntimeStates
    /\ handled \subseteq Messages
    /\ orphans \in [Messages -> 0 .. MaxOrphans]
    /\ call \in Calls
    /\ log \in [Messages -> [Runtimes -> Nat]]
    /\ uncertain \subseteq Messages /\ dropped \subseteq Messages
    /\ told \in [Messages -> {"none", "delivered", "refused", "failed"}]

Promise == INSTANCE Handoff WITH confirmed <- {m \in Messages : receipt[m].delivered}

\* Sending keeps Handoff's promise: retries, lost answers, orphaned requests
\* and restarts never hand a message twice to one runtime, and a receipt says
\* "delivered" only of a message that was handed over, and for good.
KeepsPromise == Promise!Spec

HandedTo(m) == {r \in Runtimes : log[m][r] > 0}

\* A message reaches a second runtime only when a retry of an uncertain
\* handoff was refused: a pending receipt is never carried to a replacement
\* runtime (api_messages.go).
ReplayNeedsRefusal ==
    \A m \in Messages : m \notin dropped => \A r, s \in HandedTo(m) : r = s

\* A client that is told its message was refused, and whose attempts were all
\* settled, may send it elsewhere: no runtime was given it.
RefusedWasNotSent ==
    \A m \in Messages : told[m] = "refused" /\ m \notin uncertain => HandedTo(m) = {}

\* What a client may conclude from the answers it got, over both.
AnswersHold == ReplayNeedsRefusal /\ RefusedWasNotSent

\* Every call ends: with the runtime's answer, or when its socket closes.
CallsEnd == call.pc # "idle" ~> call.pc = "idle"
=============================================================================
