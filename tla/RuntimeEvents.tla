--------------------------- MODULE RuntimeEvents ---------------------------
(***************************************************************************)
(* What an agent's runtime reports and what the daemon shows of it:        *)
(* events from the driver through its host to the coordinator              *)
(* (coordinator/runtime_ingest.go, source_stream.go), the ownership record *)
(* that hosts save (store_command.go, runtime_host.go), and the passes     *)
(* that observe processes and recompute what is shown                      *)
(* (external_observer.go).                                                 *)
(*                                                                         *)
(* One item.  Its runtimes follow each other; the events of each carry     *)
(* times in the order it emitted them, but answers and events are lost or  *)
(* late, hosts save records they loaded earlier, and passes use processes  *)
(* they listed before.  A driver either sends an event until it is         *)
(* answered (Retries, Pi) or once (Claude).                                *)
(***************************************************************************)
EXTENDS Naturals, Sequences

CONSTANTS
    Retries,       \* the driver sends an event again until it is answered
    MaxRuntimes,   \* bound: runtimes
    MaxTurns,      \* bound: turns
    MaxTroubles    \* bound: blocked inputs, failed submissions and lost claims, together

ASSUME RetriesAssumption == Retries \in BOOLEAN
ASSUME BoundsAssumption ==
    MaxRuntimes \in Nat /\ MaxTurns \in Nat /\ MaxTroubles \in Nat

VARIABLES
    clock,     \* the time of the last event or record
    claim,     \* the generation of the item's checkout claim
    owner,     \* the saved runtime record
    live,      \* the activity projection
    obs,       \* the observation that is shown
    conv,      \* the conversation index
    transcript,\* what an import finds
    alive,     \* runtimes whose host and driver run
    sending,   \* runtimes whose driver still sends events
    outcome,   \* each runtime's turn: "none", "working", "settled" or "failed"
    blocked,   \* runtimes whose input is blocked
    queue,     \* each driver's events that are not answered
    late,      \* submissions that timed out and may still be handled
    ingested,  \* the events that were committed; the time is the ID
    copy,      \* the record a host loaded, to save it
    seen,      \* the pass's list of processes, or none
    turns, troubles

runtime == <<alive, sending, outcome, blocked, queue, transcript>>
wire == <<late, ingested>>
pass == <<seen, conv>>
bounds == <<turns, troubles>>
vars == <<clock, claim, owner, live, obs, runtime, wire, pass, copy, bounds>>

----------------------------------------------------------------------------
Runtimes == 1..MaxRuntimes
Trouble == troubles < MaxTroubles /\ troubles' = troubles + 1

NoOwner == [id |-> 0, claim |-> 0, state |-> "none", readiness |-> "", at |-> 0]
NoActivity(r) == [rt |-> r, at |-> 0, agent |-> "", turn |-> "", req |-> 0, done |-> 0]
NoCopy == NoOwner
NoProcesses == [listed |-> FALSE, alive |-> {}]

Init ==
    /\ clock = 0
    /\ claim = 1
    /\ owner = NoOwner
    /\ live = NoActivity(0)
    /\ obs = [status |-> "idle", turn |-> "", online |-> FALSE]
    /\ conv = [found |-> FALSE, inferred |-> "", at |-> 0]
    /\ transcript = conv
    /\ alive = {} /\ sending = {} /\ blocked = {}
    /\ outcome = [r \in Runtimes |-> "none"]
    /\ queue = [r \in Runtimes |-> <<>>]
    /\ late = {} /\ ingested = {}
    /\ copy = NoCopy
    /\ seen = NoProcesses
    /\ turns = 0 /\ troubles = 0

----------------------------------------------------------------------------
(* IngestRuntimeEvent *)

\* applyRuntimeActivity, for an event that is not older than the last one.
Activity(e) ==
    LET a == IF live.rt \in {0, e.rt} THEN [live EXCEPT !.rt = e.rt, !.at = e.at]
                                      ELSE [NoActivity(e.rt) EXCEPT !.at = e.at]
    IN CASE e.kind = "ready" ->
              [a EXCEPT !.agent = IF @ \in {"active", "failed"} THEN @ ELSE "",
                        !.turn = CASE a.agent = "active" -> "busy"
                                   [] a.agent = "failed" -> "failed"
                                   [] OTHER -> "idle"]
         [] e.kind = "status" ->
              IF e.readiness = "busy" /\ a.agent # "active"
              THEN [a EXCEPT !.agent = "", !.turn = "busy"] ELSE a
         [] e.kind = "started" ->
              [a EXCEPT !.agent = "active", !.turn = "busy", !.req = e.at]
         [] e.kind = "settled" -> [a EXCEPT !.agent = "settled", !.turn = "idle", !.done = e.at]
         [] e.kind = "failed" -> [a EXCEPT !.agent = "failed", !.turn = "failed", !.done = e.at]

\* A runtime.status event: a ready input does not hide that a turn failed.
ShownStatus(e, a) ==
    CASE e.readiness = "ready" /\ obs.turn = "failed" -> [obs EXCEPT !.online = TRUE]
      [] a.agent = "active" /\ e.readiness # "blocked" ->
             [online |-> TRUE, turn |-> "incomplete", status |-> "busy"]
      [] OTHER -> [online |-> TRUE,
                   turn |-> IF e.readiness = "busy" THEN "incomplete" ELSE obs.turn,
                   status |-> CASE e.readiness = "blocked" -> "problem"
                                [] e.readiness = "busy" -> "busy"
                                [] e.readiness = "ready" -> "idle"]

\* applyLiveRuntimeObservation, with the activity that already has the event.
Shown(e, a) ==
    CASE e.kind = "started" -> [obs EXCEPT !.status = "busy", !.turn = "incomplete"]
      [] e.kind = "settled" -> [obs EXCEPT !.status = "idle", !.turn = "idle"]
      [] e.kind = "failed" -> [obs EXCEPT !.status = "problem", !.turn = "failed"]
      [] e.kind = "status" -> ShownStatus(e, a)
      [] e.kind = "ready" ->
           IF obs.turn = "failed" THEN [obs EXCEPT !.online = TRUE]
           ELSE IF a.agent = "active" THEN [online |-> TRUE, turn |-> "incomplete", status |-> "busy"]
           ELSE [online |-> TRUE, turn |-> "idle", status |-> "idle"]

\* The event's runtime owns the item, with the checkout it was started for.
FromOwner(e) == owner.id = e.rt /\ owner.claim = claim

\* A committed ID changes nothing again, an older event than the last nothing
\* that is shown.
News(e) == e \notin ingested /\ live.at <= e.at

Readiness(e) == IF e.kind = "ready" THEN "ready" ELSE e.readiness

\* One call under the domain lock: fences, projections, and the event itself.
Ingest(e) ==
    IF ~FromOwner(e) THEN UNCHANGED <<owner, live, obs, ingested>>
    ELSE /\ ingested' = ingested \cup {e}
         /\ IF ~News(e) THEN UNCHANGED <<owner, live, obs>>
            ELSE /\ live' = Activity(e)
                 /\ obs' = Shown(e, live')
                 /\ IF Readiness(e) # "" /\ owner.at <= e.at
                    THEN owner' = [owner EXCEPT !.readiness = Readiness(e), !.at = e.at]
                    ELSE UNCHANGED owner

----------------------------------------------------------------------------
(* Drivers and hosts *)

\* The driver emits events of the given kinds, one after the other.
Emit(r, es) ==
    /\ clock' = clock + Len(es)
    /\ queue' = [queue EXCEPT ![r] =
                     @ \o [k \in DOMAIN es |-> [rt |-> r, at |-> clock + k, kind |-> es[k][1], readiness |-> es[k][2]]]]

\* Service.Prepare: a new runtime for an item without a living one, and its host.
Prepare(r) ==
    /\ owner.id = r - 1 /\ owner.id \notin alive
    /\ owner' = [id |-> r, claim |-> claim, state |-> "starting", readiness |-> "", at |-> 0]
    /\ alive' = alive \cup {r}
    /\ sending' = sending \cup {r}
    /\ Emit(r, <<<<"ready", "">>>>)
    /\ UNCHANGED <<claim, live, obs, outcome, blocked, transcript, wire, pass, copy, bounds>>

\* A prompt reaches the agent, which records it and starts to work.
StartTurn(r) ==
    /\ r \in sending /\ outcome[r] # "working" /\ r \notin blocked
    /\ turns < MaxTurns
    /\ turns' = turns + 1
    /\ outcome' = [outcome EXCEPT ![r] = "working"]
    /\ transcript' = [found |-> TRUE, inferred |-> "incomplete", at |-> clock + 1]
    /\ Emit(r, <<<<"started", "">>, <<"status", "busy">>>>)
    /\ UNCHANGED <<claim, owner, live, obs, alive, sending, blocked, wire, pass, copy, troubles>>

\* The turn ends; its failure may have no record of its own in the conversation.
EndTurn(r, o, recorded) ==
    /\ r \in sending /\ outcome[r] = "working"
    /\ outcome' = [outcome EXCEPT ![r] = o]
    /\ transcript' = IF recorded
                     THEN [found |-> TRUE, inferred |-> IF o = "failed" THEN "failed" ELSE "idle", at |-> clock + 1]
                     ELSE transcript
    /\ Emit(r, <<<<o, "">>, <<"status", "ready">>>>)
    /\ UNCHANGED <<claim, owner, live, obs, alive, sending, blocked, wire, pass, copy, bounds>>

\* The input is blocked while nothing works, and free again.
Block(r) ==
    /\ r \in sending /\ outcome[r] # "working"
    /\ IF r \in blocked
       THEN blocked' = blocked \ {r} /\ Emit(r, <<<<"status", "ready">>>>) /\ UNCHANGED troubles
       ELSE /\ Trouble
            /\ blocked' = blocked \cup {r}
            /\ Emit(r, <<<<"status", "blocked">>>>)
    /\ UNCHANGED <<claim, owner, live, obs, alive, sending, outcome, transcript, wire, pass, copy, turns>>

\* The first event is answered.  A refusal for good ends the sending of a
\* driver that looks at the answers.
Submit(r) ==
    /\ queue[r] # <<>>
    /\ LET e == Head(queue[r]) IN
       /\ Ingest(e)
       /\ IF Retries /\ ~FromOwner(e)
          THEN queue' = [queue EXCEPT ![r] = <<>>] /\ sending' = sending \ {r}
          ELSE queue' = [queue EXCEPT ![r] = Tail(@)] /\ UNCHANGED sending
    /\ UNCHANGED <<clock, claim, alive, outcome, blocked, transcript, late, pass, copy, bounds>>

\* No answer in time: the event was lost, or is handled later.  It is sent
\* again, or it is not.
SubmitFails(r) ==
    /\ queue[r] # <<>>
    /\ Trouble
    /\ late' \in {late, late \cup {Head(queue[r])}}
    /\ queue' = IF Retries THEN queue ELSE [queue EXCEPT ![r] = Tail(@)]
    /\ UNCHANGED <<clock, claim, owner, live, obs, alive, sending, outcome, blocked, transcript,
                   ingested, pass, copy, turns>>

Arrive(e) ==
    /\ late' = late \ {e}
    /\ Ingest(e)
    /\ UNCHANGED <<clock, claim, runtime, pass, copy, bounds>>

\* The runtime ends; its host records how, or was killed.  The event under way
\* may still arrive.
Exit(r, recorded) ==
    /\ r \in alive
    /\ alive' = alive \ {r}
    /\ sending' = sending \ {r}
    /\ blocked' = blocked \ {r}
    /\ outcome' = [outcome EXCEPT ![r] = IF @ = "working" THEN "failed" ELSE @]
    /\ late' = IF queue[r] = <<>> THEN late ELSE late \cup {Head(queue[r])}
    /\ queue' = [queue EXCEPT ![r] = <<>>]
    /\ copy' = IF copy.id = r THEN NoCopy ELSE copy
    /\ owner' = IF recorded # "none" /\ owner.id = r /\ owner.claim = claim
                THEN [owner EXCEPT !.state = recorded] ELSE owner
    /\ UNCHANGED <<clock, claim, live, obs, transcript, ingested, pass, bounds>>

\* The driver is ready: its host loads the record to save it with what the
\* driver can do.
HostLoad ==
    /\ owner.id \in alive /\ copy = NoCopy /\ owner.state = "starting"
    /\ copy' = owner
    /\ UNCHANGED <<clock, claim, owner, live, obs, runtime, wire, pass, bounds>>

\* Mutant: the record is saved as it was loaded.
SaveOver(record) == owner' = record

\* StoreAgentRuntimeSave keeps the newer readiness of the same runtime.
Save(record) ==
    owner' = IF owner.id = record.id /\ owner.at # 0 /\ record.at <= owner.at
             THEN [record EXCEPT !.readiness = owner.readiness, !.at = owner.at]
             ELSE record

\* validateHostStoreMutation: only for the runtime and the claim it is still for.
HostSave ==
    /\ copy # NoCopy
    /\ copy' = NoCopy
    /\ IF copy.id = owner.id /\ copy.claim = claim
       THEN Save([copy EXCEPT !.state = "running"])
       ELSE UNCHANGED owner
    /\ UNCHANGED <<clock, claim, live, obs, runtime, wire, pass, bounds>>

\* The checkout is released and claimed again, whatever the agent does.
Reclaim ==
    /\ Trouble
    /\ claim' = claim + 1
    /\ UNCHANGED <<clock, owner, live, obs, runtime, wire, pass, copy, turns>>

----------------------------------------------------------------------------
(* The observer *)

LiveOwner == live.rt # 0 /\ live.rt = owner.id /\ owner.claim = claim

\* Mutant: what the conversation says is preferred to newer events.
LiveUntilImported == LiveOwner /\ ~conv.found

\* The events tell more than the conversation, which may not have all of it.
LiveCurrent == LiveOwner /\ (~conv.found \/ conv.at <= live.at)
Starting(online, grace) == owner.state \in {"starting", "running"} /\ (online \/ grace)

Show(status, turn, online) == [status |-> status, turn |-> turn, online |-> online]

\* applyActionability: what is shown, from the projections and the process.
Recomputed(online, turnBefore, grace) ==
    LET turn == IF conv.found THEN conv.inferred ELSE turnBefore IN
    CASE owner.id # 0 /\ owner.claim # claim /\ online -> Show("problem", turn, online)
      [] OTHER ->
    CASE LiveOwner /\ online /\ owner.readiness = "blocked"
                   /\ live.req <= owner.at /\ live.done <= owner.at -> Show("problem", turn, online)
      [] OTHER ->
    CASE LiveOwner /\ live.agent = "active" ->
             IF online THEN Show("busy", "incomplete", online) ELSE Show("problem", turn, online)
      [] LiveCurrent /\ live.agent = "failed" -> Show("problem", "failed", online)
      [] LiveCurrent /\ live.agent = "settled" -> Show("idle", "idle", online)
      [] LiveCurrent /\ live.agent = "" /\ live.turn = "busy" /\ online -> Show("busy", "incomplete", online)
      [] LiveCurrent /\ live.agent = "" /\ live.turn = "idle" /\ ~(conv.found /\ conv.inferred = "failed") ->
             Show("idle", "idle", online)
      [] OTHER ->
    CASE ~conv.found /\ owner.id # 0 /\ Starting(online, grace) -> Show("busy", "incomplete", online)
      [] ~conv.found /\ ~Starting(online, grace) ->
             Show(IF owner.state \in {"none", "stopped"} THEN "idle" ELSE "problem", turn, online)
      [] conv.found /\ conv.inferred = "failed" -> Show("problem", turn, online)
      [] conv.found /\ conv.inferred = "idle" -> Show("idle", turn, online)
      [] conv.found /\ conv.inferred = "incomplete" -> Show(IF online THEN "busy" ELSE "problem", turn, online)

\* Inspect: the processes, listed without the domain lock.
Inspect ==
    /\ ~seen.listed
    /\ seen' = [listed |-> TRUE, alive |-> alive]
    /\ UNCHANGED <<clock, claim, owner, live, obs, runtime, wire, conv, copy, bounds>>

\* ReconcileWith: a fresh observation from that list; a runtime that was saved
\* since is looked up again.
ReconcileWith(grace) ==
    /\ seen.listed
    /\ seen' = NoProcesses
    /\ \E online \in BOOLEAN :
          /\ online => owner.id \in seen.alive \cup alive
          /\ owner.id \in seen.alive => online
          /\ owner.id \in alive /\ owner.state = "starting" => online
          /\ obs' = Recomputed(online, "", grace)
    /\ UNCHANGED <<clock, claim, owner, live, runtime, wire, conv, copy, bounds>>

\* ReconcileActionability: the observation that is there, recomputed.
ReconcileActionability(grace) ==
    /\ obs' = Recomputed(obs.online, obs.turn, grace)
    /\ obs' # obs
    /\ UNCHANGED <<clock, claim, owner, live, runtime, wire, pass, copy, bounds>>

\* A finished import.
Import ==
    /\ conv # transcript
    /\ conv' = transcript
    /\ UNCHANGED <<clock, claim, owner, live, obs, runtime, wire, seen, copy, bounds>>

Next ==
    \/ \E r \in Runtimes :
          \/ Prepare(r) \/ StartTurn(r) \/ Block(r) \/ Submit(r) \/ SubmitFails(r)
          \/ \E o \in {"settled", "failed"}, recorded \in BOOLEAN : EndTurn(r, o, recorded)
          \/ \E recorded \in {"none", "stopped", "problem"} : Exit(r, recorded)
    \/ \E e \in late : Arrive(e)
    \/ HostLoad \/ HostSave \/ Reclaim
    \/ Inspect \/ Import
    \/ \E grace \in BOOLEAN : ReconcileWith(grace) \/ ReconcileActionability(grace)

\* Drivers send, passes and imports run.
Fairness ==
    /\ \A r \in Runtimes : WF_vars(Submit(r))
    /\ WF_vars(Inspect)
    /\ WF_vars(\E grace \in BOOLEAN : ReconcileWith(grace))
    /\ WF_vars(Import)

Spec == Init /\ [][Next]_vars /\ Fairness

----------------------------------------------------------------------------
(* Properties *)

Statuses == {"idle", "busy", "problem"}
Events == [rt : Runtimes, at : Nat, kind : {"ready", "status", "started", "settled", "failed"},
           readiness : {"", "ready", "busy", "blocked"}]
Records == [id : 0..MaxRuntimes, claim : Nat, state : {"none", "starting", "running", "stopped", "problem"},
            readiness : {"", "ready", "busy", "blocked"}, at : Nat]
Indexes == [found : BOOLEAN, inferred : {"", "incomplete", "idle", "failed"}, at : Nat]

\* Every variable holds a value of its kind.
TypeOK ==
    /\ clock \in Nat /\ claim \in Nat
    /\ owner \in Records /\ copy \in Records
    /\ live \in [rt : 0..MaxRuntimes, at : Nat, agent : {"", "active", "settled", "failed"},
                 turn : {"", "busy", "idle", "failed"}, req : Nat, done : Nat]
    /\ obs \in [status : Statuses, turn : {"", "incomplete", "idle", "failed"}, online : BOOLEAN]
    /\ conv \in Indexes /\ transcript \in Indexes
    /\ alive \subseteq Runtimes /\ sending \subseteq Runtimes /\ blocked \subseteq Runtimes
    /\ outcome \in [Runtimes -> {"none", "working", "settled", "failed"}]
    /\ queue \in [Runtimes -> Seq(Events)]
    /\ late \subseteq Events /\ ingested \subseteq Events
    /\ seen \in [listed : BOOLEAN, alive : SUBSET Runtimes]
    /\ turns \in Nat /\ troubles \in Nat

\* The readiness of the saved record is the newest that its own runtime
\* reported and the daemon committed: no report of a predecessor, no late one
\* and no record that a host loaded earlier replaces it, and none is missed
\* (runtime_ingest.go; store_command.go, StoreAgentRuntimeSave).
ReadinessIsTheOwners ==
    LET reports == {e \in ingested : e.rt = owner.id /\ Readiness(e) # ""} IN
    IF reports = {} THEN owner.readiness = ""
    ELSE \E e \in reports :
            /\ \A f \in reports : f.at <= e.at
            /\ owner.readiness = Readiness(e) /\ owner.at = e.at

\* What is shown of a living runtime comes to be true: settled work is shown as
\* idle, or blocked if its input is, and failed work as a problem, whatever
\* was late, was lost and sent again, or was overwritten on the way.
SettledIsShown ==
    <>[](LET r == owner.id IN
         r \in alive /\ owner.claim = claim /\ r \in sending =>
             /\ outcome[r] = "settled" => obs.status = IF r \in blocked THEN "problem" ELSE "idle"
             /\ outcome[r] = "failed" => obs.status = "problem")
=============================================================================
