---------------------------- MODULE ControlLease ----------------------------
(***************************************************************************)
(* Who may send input to the agent of one active work item: the            *)
(* coordinator's lease table (coordinator/lease.go), the plan, acquisition *)
(* and release of control (app/access_control.go, daemonapi/control.go),   *)
(* the admission of messages (app/control_admission.go) and the tmux pane  *)
(* that is read-only while a client other than a terminal has control.     *)
(*                                                                         *)
(* The controller lock serializes acquisitions, deliveries and pane        *)
(* repairs; renewals, releases, expiry, StartAgent, StopAgent, turns and   *)
(* terminals that come and go interleave with them.  Expired leases are    *)
(* removed at once (every reader but release treats them as vacant), and   *)
(* may expire at any time, so no clock is needed.                          *)
(*                                                                         *)
(* Labels, time stamps and the fields of a plan token that name the        *)
(* manifest and the profiles are left out.  The item stays active.         *)
(***************************************************************************)
EXTENDS Naturals, FiniteSets

CONSTANTS
    Clients,      \* holder and client ID pairs
    Holder,       \* Holder[c]: "web", "terminal" or "cli"
    Shared,       \* the identity of commands sent without a controller
    Modes,        \* runtime modes the agent profile offers
    Structured,   \* modes whose control channel is structured
    IdleGuard,    \* modes whose driver refuses a shutdown during a turn
    Planners,     \* bound: clients that look at a plan before they act
    Senders,      \* bound: clients that send messages
    MaxAsks,      \* bound: requests waiting for the controller lock
    MaxLeases,    \* bound: lease IDs
    MaxRuntimes,  \* bound: runtimes started
    MaxFailures   \* bound: acquisitions that fail after the grant

ASSUME ClientsAssumption ==
    /\ Holder \in [Clients -> {"web", "terminal", "cli"}]
    /\ Shared \in Clients /\ Holder[Shared] = "terminal"
ASSUME ModesAssumption ==
    /\ Modes \subseteq {"tui", "headless"}
    /\ Structured \subseteq Modes /\ IdleGuard \subseteq Modes
ASSUME BoundsAssumption ==
    /\ Planners \subseteq Clients /\ Senders \subseteq Clients
    /\ MaxAsks \in Nat /\ MaxLeases \in Nat /\ MaxRuntimes \in Nat /\ MaxFailures \in Nat

Vacant == [id |-> 0]
Offline == "offline"

VARIABLES
    lease,      \* the lease table's entry for the item
    ids,        \* lease IDs handed out
    runtime,    \* the agent's runtime: its number, mode and whether a turn runs
    attached,   \* whether a terminal client is attached to the item's session
    pane,       \* whether the agent pane accepts input; TRUE when there is none
    shown,      \* shown[c]: the plan token c was given last
    asks,       \* requests between their first checks and the controller lock
    op,         \* the acquisition that holds the controller lock
    sending,    \* the delivery that holds the controller lock
    releasing,  \* clients whose release has yet to repair the pane
    failures,   \* acquisitions that failed after the grant so far
    unsynced    \* history: why the pane may not match the lease

world == <<runtime, attached>>
requests == <<shown, asks, releasing>>
locked == <<op, sending>>
vars == <<lease, ids, world, pane, requests, locked, failures, unsynced>>

NoOp == [step |-> "none"]
NoToken == [lease |-> 0]

----------------------------------------------------------------------------
(* Status and plan *)

Lease(id, c, ttl) == [id |-> id, client |-> c, ttl |-> ttl]

\* controlStatus, from the lease read first: a terminal's lease is vacant once
\* no terminal is attached.
Status(stored) ==
    LET here == attached /\ runtime.mode = "tui"
        gone == stored # Vacant /\ Holder[stored.client] = "terminal" /\ ~here
    IN [lease |-> IF gone THEN Vacant ELSE stored, runtime |-> runtime, attached |-> here]

\* Mutant: the pane is enabled whoever holds the lease.
RepairedAlways(s) == IF s.runtime.mode = "tui" THEN TRUE ELSE pane

\* controlStatus re-enables a pane that nobody controls.
Repaired(s) == IF s.lease = Vacant /\ s.runtime.mode = "tui" THEN TRUE ELSE pane

\* planToken: ownership by lease ID, the runtime and the terminal.
Token(s) == [s EXCEPT !.lease = s.lease.id]

Online(s) == s.runtime.mode # Offline

\* The channel a holder needs, and the mode controlMode picks to provide it.
Fits(h, m) ==
    CASE h = "web" -> m \in Structured
      [] h = "terminal" -> m = "tui"
      [] h = "cli" -> TRUE
Available(h) == \E m \in Modes : Fits(h, m)
ControlMode(h) ==
    LET preferred == IF h = "terminal" THEN "tui" ELSE "headless" IN
    IF preferred \in Modes /\ Fits(h, preferred) THEN preferred
    ELSE CHOOSE m \in Modes : Fits(h, m)

\* planControl
Displaces(s, c) == s.lease # Vacant /\ s.lease.client # c
DisplacesTerminal(s, c) == s.lease = Vacant /\ s.attached /\ Holder[c] = "web"
Misfit(s, c) == Online(s) /\ ~Fits(Holder[c], s.runtime.mode)
Replaces(s, c) == Misfit(s, c) /\ Available(Holder[c])
Starts(s, c, start) == ~Online(s) /\ start /\ Available(Holder[c])
Unavailable(s, c, start) ==
    (Misfit(s, c) \/ (~Online(s) /\ start)) /\ ~Available(Holder[c])
Aborts(s, c) ==
    s.runtime.busy /\ (Displaces(s, c) \/ DisplacesTerminal(s, c) \/ Replaces(s, c))
NeedsConfirmation(s, c) == Displaces(s, c) \/ DisplacesTerminal(s, c) \/ Aborts(s, c)

----------------------------------------------------------------------------
(* The lease table *)

\* leaseTable.acquire grants a request that names the lease it saw and either
\* finds it vacant, renews its own, or takes over.
Fenced(expected, c, takeover) ==
    /\ expected = lease.id
    /\ lease # Vacant => lease.client = c \/ takeover

\* The lease it grants: a renewal keeps the ID.
Granted(c, ttl) ==
    IF lease # Vacant /\ lease.client = c
    THEN lease' = Lease(lease.id, c, ttl) /\ UNCHANGED ids
    ELSE ids < MaxLeases /\ ids' = ids + 1 /\ lease' = Lease(ids', c, ttl)

\* The renewal of a controller's own lease by admitControllerCommand: a
\* terminal's does not expire.
AdmittedLease(c) == Lease(lease.id, c, Holder[c] # "terminal")

----------------------------------------------------------------------------
Init ==
    /\ lease = Vacant
    /\ ids = 0
    /\ runtime = [number |-> 0, mode |-> Offline, busy |-> FALSE]
    /\ attached = FALSE
    /\ pane = TRUE
    /\ shown = [c \in Clients |-> NoToken]
    /\ asks = {}
    /\ op = NoOp
    /\ sending = NoOp
    /\ releasing = {}
    /\ failures = 0
    /\ unsynced = {}

\* Mutant: the controller lock is not taken.
Unguarded == TRUE

\* lockController
Unlocked == op = NoOp /\ sending = NoOp

\* GetControl and GetAgent: status, repair and plan under the controller lock.
\* Leases are only created under that lock, so read and repair are one step.
GetControl(c) ==
    LET s == Status(lease) IN
    /\ Unlocked
    /\ c \in Planners
    /\ shown' = [shown EXCEPT ![c] = Token(s)]
    /\ pane' = Repaired(s)
    /\ UNCHANGED <<lease, ids, world, asks, locked, releasing, failures, unsynced>>

Ask(c, kind, confirm, start, token, id) ==
    [client |-> c, kind |-> kind, confirm |-> confirm, start |-> start,
     token |-> token, id |-> id]
MayAsk(c) == Cardinality(asks) < MaxAsks /\ \A a \in asks : a.client # c

\* Mutant: a confirmation is not compared with the plan it was given for.
AdmissibleByFlag(s, a) ==
    /\ ~Unavailable(s, a.client, a.start)
    /\ NeedsConfirmation(s, a.client) => a.confirm

\* Whether an acquisition may go on, given the status it reads: a confirmed
\* one must match its token, an unconfirmed one interrupt nobody.
Admissible(s, a) ==
    /\ a.confirm => a.token = Token(s)
    /\ ~Unavailable(s, a.client, a.start)
    /\ NeedsConfirmation(s, a.client) => a.confirm

\* Server.AcquireControl up to its call, or its job's call, of App.AcquireControl.
RequestControl(c, confirm, start) ==
    LET s == Status(lease)
        a == Ask(c, "acquire", confirm, start, IF confirm THEN shown[c] ELSE NoToken, 0)
    IN /\ Unlocked
       /\ MayAsk(c)
       /\ Admissible(s, a)
       /\ asks' = asks \cup {a}
       /\ pane' = Repaired(s)
       /\ UNCHANGED <<lease, ids, world, shown, locked, releasing, failures, unsynced>>

\* controlLease: SendMessage uses the caller's lease or first takes a vacant one.
RequestSend(c) ==
    /\ c \in Senders
    /\ MayAsk(c)
    /\ \/ lease = Vacant /\ asks' = asks \cup {Ask(c, "take", FALSE, TRUE, NoToken, 0)}
       \/ /\ lease # Vacant /\ lease.client = c
          /\ asks' = asks \cup {Ask(c, "send", FALSE, FALSE, NoToken, lease.id)}
    /\ UNCHANGED <<lease, ids, world, pane, shown, locked, releasing, failures, unsynced>>

----------------------------------------------------------------------------
(* App.AcquireControl, under the controller lock *)

Step(s) == op' = [op EXCEPT !.step = s]

\* controlStatus reads the lease first.
AcquireBegin(a) ==
    /\ Unlocked
    /\ a.kind \in {"acquire", "take"}
    /\ asks' = asks \ {a}
    /\ op' = [step |-> "read", ask |-> a, stored |-> lease]
    /\ UNCHANGED <<lease, ids, world, pane, shown, sending, releasing, failures, unsynced>>

\* The rest of the status, the plan and its validation.
AcquireCheck ==
    LET s == Status(op.stored) IN
    /\ op.step = "read"
    /\ op' = IF Admissible(s, op.ask)
             THEN [step |-> "grant", ask |-> op.ask, stored |-> op.stored, seen |-> s]
             ELSE NoOp
    /\ UNCHANGED <<lease, ids, world, pane, requests, sending, failures, unsynced>>

\* A lease that the plan displaces, or that a detached terminal left.
Takeover(o) ==
    \/ Displaces(o.seen, o.ask.client)
    \/ o.seen.lease = Vacant /\ o.stored # Vacant

\* AcquireLease; a refusal performs nothing.
AcquireLease ==
    LET c == op.ask.client IN
    /\ op.step = "grant"
    /\ \/ /\ Fenced(op.stored.id, c, Takeover(op))
          /\ Granted(c, TRUE)
          /\ Step("effect")
       \/ /\ ~Fenced(op.stored.id, c, Takeover(op))
          /\ op' = NoOp
          /\ UNCHANGED <<lease, ids>>
    /\ UNCHANGED <<world, pane, requests, sending, failures, unsynced>>

\* A turn may be aborted when the plan said so, or any plan was confirmed.
Forces(o) == o.seen.runtime.busy \/ o.ask.confirm

\* The plan's effects on the runtime: none, an abort, or the first half of
\* stopRuntimeForReplacement, which holds the item's operation lock until
\* the shutdown is submitted.
AcquireEffect ==
    LET c == op.ask.client
        s == op.seen
        same == runtime.number = s.runtime.number
        admitted == Aborts(s, c) /\ lease # Vacant /\ lease.client = c
    IN /\ op.step = "effect"
       /\ \/ /\ ~Replaces(s, c)
             /\ lease' = IF admitted THEN AdmittedLease(c) ELSE lease
             /\ runtime' = IF admitted /\ same THEN [runtime EXCEPT !.busy = FALSE] ELSE runtime
             /\ Step(IF Starts(s, c, op.ask.start) THEN "ensure" ELSE "sync")
             /\ UNCHANGED unsynced
          \/ /\ Replaces(s, c) /\ UNCHANGED <<lease, runtime>>
             /\ \/ same /\ (Forces(op) \/ ~runtime.busy) /\ Step("shutdown") /\ UNCHANGED unsynced
                \/ /\ ~same \/ (~Forces(op) /\ runtime.busy)
                   /\ op' = NoOp
                   /\ unsynced' = unsynced \cup {"failed"}
    /\ UNCHANGED <<ids, attached, pane, requests, sending, failures>>

Stopped == [runtime EXCEPT !.mode = Offline, !.busy = FALSE]

\* The shutdown, which a driver with an idle guard refuses during a turn, and
\* the wait for the process to exit.
AcquireShutdown ==
    /\ op.step = "shutdown"
    /\ \/ /\ Forces(op) \/ ~(runtime.busy /\ runtime.mode \in IdleGuard)
          /\ runtime' = Stopped /\ pane' = TRUE
          /\ Step(IF op.ask.start THEN "ensure" ELSE "sync")
          /\ UNCHANGED unsynced
       \/ /\ ~Forces(op) /\ runtime.busy /\ runtime.mode \in IdleGuard
          /\ op' = NoOp
          /\ unsynced' = unsynced \cup {"failed"}
          /\ UNCHANGED <<runtime, pane>>
    /\ UNCHANGED <<lease, ids, attached, requests, sending, failures>>

Launched(m) == [number |-> runtime.number + 1, mode |-> m, busy |-> FALSE]

\* EnsureAgentRuntime: a runtime someone else started meanwhile is used when it
\* has the mode.
AcquireEnsure ==
    LET m == ControlMode(Holder[op.ask.client]) IN
    /\ op.step = "ensure"
    /\ \/ /\ runtime.mode = Offline /\ runtime.number < MaxRuntimes
          /\ runtime' = Launched(m)
          /\ Step("sync")
          /\ UNCHANGED unsynced
       \/ runtime.mode = m /\ Step("sync") /\ UNCHANGED <<runtime, unsynced>>
       \/ /\ runtime.mode \notin {Offline, m}
          /\ op' = NoOp
          /\ unsynced' = unsynced \cup {"failed"}
          /\ UNCHANGED runtime
    /\ UNCHANGED <<lease, ids, attached, pane, requests, sending, failures>>

\* syncPaneInput; a sender that took a vacant lease goes on to send.
AcquireSync ==
    LET a == op.ask IN
    /\ op.step = "sync"
    /\ pane' = IF runtime.mode = "tui" THEN Holder[a.client] = "terminal" ELSE pane
    /\ unsynced' = {}
    /\ asks' = IF a.kind = "take" /\ lease # Vacant
               THEN asks \cup {Ask(a.client, "send", FALSE, FALSE, NoToken, lease.id)} ELSE asks
    /\ op' = NoOp
    /\ UNCHANGED <<lease, ids, world, shown, releasing, sending, failures>>

\* Stopping, starting or the pane update fails: the lease stays.
AcquireFail ==
    /\ op.step \in {"shutdown", "ensure", "sync"}
    /\ failures < MaxFailures
    /\ failures' = failures + 1
    /\ op' = NoOp
    /\ unsynced' = unsynced \cup {"failed"}
    /\ UNCHANGED <<lease, ids, world, pane, requests, sending>>

----------------------------------------------------------------------------
(* Delivery, renewal, release *)

\* admitControllerCommand with a controller: the lease must still be the one
\* the caller holds, and is renewed.
SendAdmit(a) ==
    /\ Unlocked
    /\ a.kind = "send"
    /\ asks' = asks \ {a}
    /\ IF lease # Vacant /\ lease.client = a.client /\ lease.id = a.id
       THEN /\ lease' = AdmittedLease(a.client)
            /\ sending' = [step |-> "deliver", client |-> a.client, once |-> 0]
       ELSE UNCHANGED <<lease, sending>>
    /\ UNCHANGED <<ids, world, pane, shown, releasing, op, failures, unsynced>>

\* admitControllerCommand without one: the shared terminal identity takes a
\* vacant lease for this delivery only.
OnceAdmit ==
    /\ Unlocked
    /\ Shared \in Senders
    /\ Online(Status(lease))
    /\ Fenced(lease.id, Shared, FALSE)
    /\ Granted(Shared, FALSE)
    /\ sending' = [step |-> "deliver", client |-> Shared,
                   once |-> IF lease = Vacant THEN ids' ELSE 0]
    /\ UNCHANGED <<world, pane, requests, op, failures, unsynced>>

\* Control submits the message to the runtime, then a one-shot lease goes.
Deliver ==
    /\ sending # NoOp
    /\ runtime' = IF runtime.mode = Offline THEN runtime ELSE [runtime EXCEPT !.busy = TRUE]
    /\ lease' = IF sending.once # 0 /\ lease.id = sending.once THEN Vacant ELSE lease
    /\ sending' = NoOp
    /\ UNCHANGED <<ids, attached, pane, requests, op, failures, unsynced>>

\* RenewControl, without the controller lock.
Renew(c) ==
    /\ lease # Vacant /\ lease.client = c /\ ~lease.ttl
    /\ lease' = Lease(lease.id, c, TRUE)
    /\ UNCHANGED <<ids, world, pane, requests, locked, failures, unsynced>>

\* ReleaseControl, without the controller lock; ControlStatus follows under it.
Release(c) ==
    /\ lease # Vacant /\ lease.client = c
    /\ lease' = Vacant
    /\ releasing' = releasing \cup {c}
    /\ UNCHANGED <<ids, world, pane, shown, asks, locked, failures, unsynced>>

ReleaseRepair(c) ==
    /\ Unlocked
    /\ c \in releasing
    /\ releasing' = releasing \ {c}
    /\ pane' = Repaired(Status(lease))
    /\ UNCHANGED <<lease, ids, world, shown, asks, locked, failures, unsynced>>

----------------------------------------------------------------------------
(* The runtime and the world *)

\* StartAgent: under the item's operation lock, not the controller lock; an
\* idle runtime in another mode is stopped first.
StartAgent(m) ==
    /\ op.step # "shutdown"
    /\ runtime.mode # m /\ ~runtime.busy
    /\ runtime.number < MaxRuntimes
    /\ runtime' = Launched(m)
    /\ pane' = TRUE
    /\ unsynced' = IF m = "tui" THEN unsynced \cup {"started"} ELSE unsynced
    /\ UNCHANGED <<lease, ids, attached, requests, locked, failures>>

\* StopAgent, or the process exits.
StopAgent ==
    /\ runtime.mode # Offline
    /\ runtime' = Stopped
    /\ pane' = TRUE
    /\ UNCHANGED <<lease, ids, attached, requests, locked, failures, unsynced>>

\* A turn starts (by keyboard, or on the agent's own account) or ends.
Turn ==
    /\ runtime.mode # Offline
    /\ runtime' = [runtime EXCEPT !.busy = ~@]
    /\ UNCHANGED <<lease, ids, attached, pane, requests, locked, failures, unsynced>>

\* A terminal attaches or detaches.
Terminal ==
    /\ attached \/ runtime.mode = "tui"
    /\ attached' = ~attached
    /\ UNCHANGED <<lease, ids, runtime, pane, requests, locked, failures, unsynced>>

\* A lease that is not renewed in time expires.
Expire ==
    /\ lease # Vacant /\ lease.ttl
    /\ lease' = Vacant
    /\ UNCHANGED <<ids, world, pane, requests, locked, failures, unsynced>>

\* A daemon restart: leases, requests and the plan secret are lost; runtimes
\* and panes are not.
Restart ==
    /\ lease # Vacant \/ ~Unlocked \/ asks # {}
    /\ lease' = Vacant
    /\ shown' = [c \in Clients |-> NoToken]
    /\ asks' = {}
    /\ op' = NoOp
    /\ sending' = NoOp
    /\ releasing' = {}
    /\ UNCHANGED <<ids, world, pane, failures, unsynced>>

ClientNext(c) ==
    \/ GetControl(c)
    \/ \E confirm, start \in BOOLEAN : RequestControl(c, confirm, start)
    \/ RequestSend(c) \/ Renew(c) \/ Release(c) \/ ReleaseRepair(c)

AcquireNext ==
    \/ \E a \in asks : AcquireBegin(a)
    \/ AcquireCheck \/ AcquireLease \/ AcquireEffect \/ AcquireShutdown
    \/ AcquireEnsure \/ AcquireSync \/ AcquireFail

DeliverNext == (\E a \in asks : SendAdmit(a)) \/ OnceAdmit \/ Deliver

WorldNext == (\E m \in Modes : StartAgent(m)) \/ StopAgent \/ Turn \/ Terminal \/ Expire \/ Restart

Next == (\E c \in Clients : ClientNext(c)) \/ AcquireNext \/ DeliverNext \/ WorldNext

Spec == Init /\ [][Next]_vars
----------------------------------------------------------------------------
(* Properties *)

Leases == [id : 1..ids, client : Clients, ttl : BOOLEAN] \cup {Vacant}

\* Every variable holds a value of its kind; lease IDs are handed out in order.
TypeOK ==
    /\ ids \in 0..MaxLeases
    /\ lease \in Leases
    /\ runtime \in [number : 0..MaxRuntimes, mode : Modes \cup {Offline}, busy : BOOLEAN]
    /\ runtime.mode = Offline => ~runtime.busy
    /\ attached \in BOOLEAN /\ pane \in BOOLEAN
    /\ \A a \in asks : a.client \in Clients /\ a.kind \in {"acquire", "take", "send"} /\ a.id \in 0..ids
    /\ op.step \in {"none", "read", "grant", "effect", "shutdown", "ensure", "sync"}
    /\ sending.step \in {"none", "deliver"}
    /\ releasing \subseteq Clients
    /\ unsynced \subseteq {"failed", "started"}

\* A client that holds a live lease loses it to another client only when that
\* one confirmed a plan that named this very lease, or saw a terminal's lease
\* with no terminal attached; whatever was acquired, renewed, released, expired
\* or restarted since the plan was shown (leaseTable.acquire, planToken).
DisplacedOnlyByConsent ==
    lease # Vacant /\ lease' # Vacant /\ lease'.client # lease.client =>
        /\ op.step = "grant" /\ op.ask.client = lease'.client
        /\ \/ op.ask.confirm /\ op.ask.token.lease = lease.id
           \/ Holder[lease.client] = "terminal" /\ ~op.seen.attached

\* Taking control ends a turn only when the taker confirmed a plan, even when
\* the turn began after the plan was made.
UnconfirmedTakeoverEndsTurn ==
    /\ op.step \in {"effect", "shutdown"} /\ op' # op
    /\ runtime.busy /\ ~runtime'.busy
    /\ ~op.ask.confirm

\* With a driver that guards shutdowns, no unconfirmed takeover aborts a turn
\* (stopRuntimeForReplacement, Service.Stop).
TurnsAbortedOnlyByConsent ==
    runtime.mode \in IdleGuard => ~UnconfirmedTakeoverEndsTurn

\* Nobody is interrupted unasked, neither a client nor its agent's turn.
InterruptedOnlyByConsent == [][DisplacedOnlyByConsent /\ TurnsAbortedOnlyByConsent]_vars

\* A message reaches the runtime only while nobody but its sender holds control,
\* although its lease may expire or be released between admission and delivery.
DeliveredByController ==
    sending # NoOp /\ lease # Vacant => lease.client = sending.client

\* Between requests, a TUI's pane accepts input exactly when the controller is a
\* terminal, through expiry, release, repair, replacement and restart, unless
\* an acquisition reported an error or someone started the TUI afterwards.
PaneMatchesController ==
    op = NoOp /\ sending = NoOp /\ lease # Vacant /\ runtime.mode = "tui" /\ unsynced = {} =>
        pane = (Holder[lease.client] = "terminal")
=============================================================================
