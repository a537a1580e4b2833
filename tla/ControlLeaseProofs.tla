------------------------- MODULE ControlLeaseProofs -------------------------
(***************************************************************************)
(* Proofs about ControlLease, for every set of clients, every profile and  *)
(* every value of the bounds: who loses control and whose turn ends, to    *)
(* whom a message belongs, and whom the agent's pane listens to.           *)
(***************************************************************************)
EXTENDS ControlLease, TLAPS

----------------------------------------------------------------------------
(* The inductive invariant *)

\* The fields that a request for the controller lock has, by how far it came.
Shapes ==
    /\ \/ op = NoOp
       \/ op = [step |-> "read", ask |-> op.ask, stored |-> op.stored]
       \/ /\ op = [step |-> op.step, ask |-> op.ask, stored |-> op.stored, seen |-> op.seen]
          /\ op.step \in {"grant", "effect", "shutdown", "ensure", "sync"}
    /\ op # NoOp => op.ask.client \in Clients
    /\ sending = NoOp \/ sending = [step |-> "deliver", client |-> sending.client, once |-> sending.once]

\* The controller lock has one holder.
OneHolder == op = NoOp \/ sending = NoOp

\* While an acquisition reads and plans, the lease it read is there or gone;
\* once it was granted, the lease is its own or gone.
LeaseUnderLock ==
    lease # Vacant =>
        /\ op.step \in {"read", "grant"} =>
              op.stored # Vacant /\ op.stored.id = lease.id /\ op.stored.client = lease.client
        /\ op.step \in {"effect", "shutdown", "ensure", "sync"} => lease.client = op.ask.client

\* What an acquisition does is what its plan allows, of the status it saw: a
\* terminal's lease counts as vacant only without a terminal attached.
PlanHolds ==
    /\ op.step \in {"grant", "effect", "shutdown"} => Admissible(op.seen, op.ask)
    /\ op.step = "grant" /\ op.seen.lease # op.stored =>
          /\ op.seen.lease = Vacant /\ op.stored # Vacant
          /\ Holder[op.stored.client] = "terminal" /\ ~op.seen.attached
    /\ op.step = "shutdown" => Replaces(op.seen, op.ask.client)
    /\ op.step = "ensure" => Available(Holder[op.ask.client])

\* A delivery for its own sake is the last of its lease.
OnceIsLast == sending # NoOp /\ sending.once # 0 => lease = Vacant \/ lease.id = sending.once

\* The pane follows the lease until an acquisition is granted another one, but
\* not the lease of a single delivery.
PaneFollows ==
    /\ op.step \in {"none", "read", "grant"} /\ lease # Vacant /\ runtime.mode = "tui" /\ unsynced = {}
    /\ ~(sending # NoOp /\ sending.once # 0)
    => pane = (Holder[lease.client] = "terminal")

ControlInv ==
    /\ TypeOK
    /\ Shapes
    /\ OneHolder
    /\ LeaseUnderLock
    /\ PlanHolds
    /\ OnceIsLast
    /\ PaneFollows
    /\ DeliveredByController

----------------------------------------------------------------------------
(* Leases and plans *)

\* A lease of a client that has an ID handed out before.
LEMMA LeaseTyped ==
    ASSUME TypeOK, NEW c \in Clients, NEW ttl \in BOOLEAN, NEW id \in 1..ids
    PROVE  Lease(id, c, ttl) \in Leases /\ Lease(id, c, ttl) # Vacant
BY DEF Lease, Leases, Vacant, TypeOK

\* The table renews a lease of the client's own, or makes a new one.
LEMMA GrantedLease ==
    ASSUME TypeOK, NEW c \in Clients, NEW ttl \in BOOLEAN, Granted(c, ttl)
    PROVE  /\ ids' \in 0..MaxLeases /\ ids <= ids' /\ lease' \in Leases'
           /\ lease' # Vacant /\ lease'.client = c
           /\ lease = Vacant => lease'.id = ids' /\ ids' # 0
           /\ lease # Vacant /\ lease.client = c => lease'.id = lease.id
<1>1. CASE lease # Vacant /\ lease.client = c
  <2>1. lease.id \in 1..ids /\ UNCHANGED ids /\ lease' = Lease(lease.id, c, ttl)
    BY <1>1 DEF Granted, TypeOK, Leases
  <2> QED BY <1>1, <2>1, LeaseTyped DEF TypeOK, Leases, Lease
<1>2. CASE ~(lease # Vacant /\ lease.client = c)
  <2>1. ids < MaxLeases /\ ids' = ids + 1 /\ lease' = Lease(ids', c, ttl)
    BY <1>2 DEF Granted
  <2>2. ids' \in 1..MaxLeases /\ ids <= ids'
    BY <2>1, BoundsAssumption DEF TypeOK
  <2> QED BY <1>2, <2>1, <2>2 DEF Leases, Lease, Vacant
<1> QED BY <1>1, <1>2

\* A lease that was typed stays typed when more IDs are handed out.
LEMMA LeaseStays ==
    ASSUME TypeOK, ids' \in Nat, ids <= ids'
    PROVE  lease \in Leases'
BY BoundsAssumption DEF TypeOK, Leases

\* A plan that displaces another client's lease was confirmed, for that lease.
LEMMA ConfirmedForTheLease ==
    ASSUME NEW s, NEW a, Admissible(s, a), Displaces(s, a.client)
    PROVE  a.confirm /\ a.token = Token(s)
BY DEF Admissible, NeedsConfirmation

\* So was one that ends a turn.
LEMMA ConfirmedForTheTurn ==
    ASSUME NEW s, NEW a, Admissible(s, a), Aborts(s, a.client)
    PROVE  a.confirm
BY DEF Admissible, NeedsConfirmation

\* A runtime that has to go is replaced by one that suits the client.
LEMMA PlanIsPossible ==
    ASSUME NEW s, NEW c, NEW start
    PROVE  Replaces(s, c) \/ Starts(s, c, start) => Available(Holder[c])
BY DEF Replaces, Starts

\* The mode chosen for a client is one the profile offers.
LEMMA ModeOffered ==
    ASSUME NEW h, Available(h)
    PROVE  ControlMode(h) \in Modes /\ ControlMode(h) # Offline
BY ModesAssumption DEF ControlMode, Available, Offline

\* A runtime that starts is the next one, and idle.
LEMMA LaunchedTyped ==
    ASSUME TypeOK, NEW m \in Modes, runtime.number < MaxRuntimes
    PROVE  /\ Launched(m) \in [number : 0..MaxRuntimes, mode : Modes \cup {Offline}, busy : BOOLEAN]
           /\ ~Launched(m).busy /\ Launched(m).mode = m
<1>1. runtime.number \in 0..MaxRuntimes
  BY DEF TypeOK
<1>2. runtime.number + 1 \in 0..MaxRuntimes
  BY <1>1, BoundsAssumption
<1> QED BY <1>2 DEF Launched

----------------------------------------------------------------------------
(* The steps of an acquisition *)

\* The parts of ControlInv that an acquisition's steps can disturb when they
\* leave the delivery alone.
AcquireInv == Shapes /\ OneHolder /\ LeaseUnderLock /\ PlanHolds /\ PaneFollows

LEMMA WhileAcquiring ==
    ASSUME ControlInv, op # NoOp, UNCHANGED sending, TypeOK', AcquireInv'
    PROVE  ControlInv'
BY DEF ControlInv, AcquireInv, OneHolder, OnceIsLast, DeliveredByController, NoOp

LEMMA CheckStep ==
    ASSUME ControlInv, AcquireCheck
    PROVE  ControlInv'
<1> USE DEF ControlInv, AcquireCheck, NoOp, Vacant
<1>1. op # NoOp /\ UNCHANGED <<sending, lease, runtime, pane, unsynced>>
  BY DEF world
<1>2. TypeOK'
  BY DEF TypeOK, Leases, world, requests
<1>3. Shapes' /\ OneHolder'
  BY DEF Shapes, OneHolder
<1>4. LeaseUnderLock'
  BY DEF LeaseUnderLock, Shapes
<1>5. PlanHolds'
  BY DEF PlanHolds, Shapes, Status
<1>6. PaneFollows'
  BY <1>1 DEF PaneFollows, OneHolder
<1> HIDE DEF ControlInv, AcquireCheck, NoOp, Vacant
<1> QED BY <1>1, <1>2, <1>3, <1>4, <1>5, <1>6, WhileAcquiring DEF AcquireInv

LEMMA LeaseStep ==
    ASSUME ControlInv, AcquireLease
    PROVE  ControlInv'
<1>1. op # NoOp /\ op.step = "grant" /\ op.ask.client \in Clients /\ UNCHANGED <<sending, world, pane, requests, unsynced>>
  BY DEF AcquireLease, NoOp, ControlInv, Shapes
<1>2. CASE op' = NoOp /\ UNCHANGED <<lease, ids>>
  <2>1. TypeOK'
    BY <1>1, <1>2 DEF ControlInv, TypeOK, Leases, world, requests, NoOp
  <2>2. AcquireInv'
    BY <1>1, <1>2
    DEF ControlInv, AcquireInv, Shapes, OneHolder, LeaseUnderLock, PlanHolds, PaneFollows, NoOp, world
  <2> QED BY <1>1, <2>1, <2>2, WhileAcquiring
<1>3. CASE Granted(op.ask.client, TRUE) /\ Step("effect")
  <2>1. op' = [step |-> "effect", ask |-> op.ask, stored |-> op.stored, seen |-> op.seen]
    BY <1>1, <1>3 DEF Step, ControlInv, Shapes, NoOp
  <2>2. ids' \in 0..MaxLeases /\ ids <= ids' /\ lease' \in Leases' /\ lease'.client = op.ask.client
    BY <1>1, <1>3, GrantedLease DEF ControlInv
  <2>3. TypeOK'
    <3>1. \A a \in asks' : a.client \in Clients /\ a.kind \in {"acquire", "take", "send"} /\ a.id \in 0..ids'
      BY <1>1, <2>2 DEF ControlInv, TypeOK, requests
    <3> QED BY <1>1, <2>1, <2>2, <3>1 DEF ControlInv, TypeOK, world, requests
  <2>4. AcquireInv'
    BY <1>1, <2>1, <2>2
    DEF ControlInv, AcquireInv, Shapes, OneHolder, LeaseUnderLock, PlanHolds, PaneFollows, NoOp, world
  <2> QED BY <1>1, <2>3, <2>4, WhileAcquiring
<1> QED BY <1>2, <1>3 DEF AcquireLease

LEMMA EffectStep ==
    ASSUME ControlInv, AcquireEffect
    PROVE  ControlInv'
<1>1. /\ op # NoOp /\ op.step = "effect" /\ op.ask.client \in Clients
      /\ op = [step |-> op.step, ask |-> op.ask, stored |-> op.stored, seen |-> op.seen]
      /\ UNCHANGED <<sending, attached, ids, pane, requests>>
  BY DEF AcquireEffect, NoOp, ControlInv, Shapes
<1>2. lease' \in Leases' /\ (lease # Vacant => lease.client = op.ask.client)
      /\ (lease' # Vacant => lease'.client = op.ask.client)
  <2>1. lease' = lease \/ (lease # Vacant /\ lease' = AdmittedLease(op.ask.client))
    BY DEF AcquireEffect
  <2>2. lease # Vacant => lease.id \in 1..ids /\ lease.client = op.ask.client
    BY <1>1 DEF ControlInv, TypeOK, Leases, LeaseUnderLock
  <2>3. lease # Vacant => AdmittedLease(op.ask.client) \in Leases
    BY <1>1, <2>2, LeaseTyped DEF AdmittedLease, ControlInv
  <2>4. AdmittedLease(op.ask.client).client = op.ask.client
    BY DEF AdmittedLease, Lease
  <2> QED BY <1>1, <2>1, <2>2, <2>3, <2>4 DEF ControlInv, TypeOK, Leases
<1>3. /\ runtime' \in [number : 0..MaxRuntimes, mode : Modes \cup {Offline}, busy : BOOLEAN]
      /\ runtime'.mode = Offline => ~runtime'.busy
  <2>1. runtime' = runtime \/ runtime' = [runtime EXCEPT !.busy = FALSE]
    BY DEF AcquireEffect
  <2> QED BY <2>1 DEF ControlInv, TypeOK
<1>4. \/ /\ op' = [op EXCEPT !.step = "ensure"] /\ UNCHANGED unsynced
         /\ Starts(op.seen, op.ask.client, op.ask.start)
      \/ op' = [op EXCEPT !.step = "sync"] /\ UNCHANGED unsynced
      \/ op' = [op EXCEPT !.step = "shutdown"] /\ UNCHANGED unsynced /\ Replaces(op.seen, op.ask.client)
      \/ op' = NoOp /\ unsynced' = unsynced \cup {"failed"}
  BY DEF AcquireEffect, Step
<1>5. TypeOK'
  <2>1. op'.step \in {"none", "read", "grant", "effect", "shutdown", "ensure", "sync"}
    BY <1>1, <1>4 DEF NoOp
  <2> QED BY <1>1, <1>2, <1>3, <1>4, <2>1 DEF ControlInv, TypeOK, requests
<1>6. Shapes' /\ OneHolder' /\ LeaseUnderLock' /\ PaneFollows'
  BY <1>1, <1>2, <1>4 DEF ControlInv, Shapes, OneHolder, LeaseUnderLock, PaneFollows, NoOp
<1>7. PlanHolds'
  <2>1. /\ op'.step \in {"none", "ensure", "sync", "shutdown"}
        /\ op'.step = "ensure" => op'.ask = op.ask /\ Starts(op.seen, op.ask.client, op.ask.start)
        /\ op'.step = "shutdown" => /\ op'.ask = op.ask /\ op'.seen = op.seen
                                    /\ Replaces(op.seen, op.ask.client)
    BY <1>1, <1>4 DEF NoOp
  <2>2. Admissible(op.seen, op.ask)
    BY <1>1 DEF ControlInv, PlanHolds
  <2> QED BY <2>1, <2>2, PlanIsPossible DEF PlanHolds
<1> QED BY <1>1, <1>5, <1>6, <1>7, WhileAcquiring DEF AcquireInv

LEMMA ShutdownStep ==
    ASSUME ControlInv, AcquireShutdown
    PROVE  ControlInv'
<1>1. /\ op # NoOp /\ op.step = "shutdown" /\ op.ask.client \in Clients
      /\ op = [step |-> op.step, ask |-> op.ask, stored |-> op.stored, seen |-> op.seen]
      /\ UNCHANGED <<sending, attached, lease, ids, requests>>
  BY DEF AcquireShutdown, NoOp, ControlInv, Shapes
<1>2. \/ /\ runtime' = Stopped /\ pane' = TRUE /\ UNCHANGED unsynced
         /\ op' = [op EXCEPT !.step = "ensure"] \/ op' = [op EXCEPT !.step = "sync"]
      \/ op' = NoOp /\ unsynced' = unsynced \cup {"failed"} /\ UNCHANGED <<runtime, pane>>
  BY DEF AcquireShutdown, Step
<1>3. TypeOK'
  <2>1. op'.step \in {"none", "ensure", "sync"}
    BY <1>1, <1>2 DEF NoOp
  <2>2. /\ runtime' \in [number : 0..MaxRuntimes, mode : Modes \cup {Offline}, busy : BOOLEAN]
        /\ runtime'.mode = Offline => ~runtime'.busy
    BY <1>2 DEF ControlInv, TypeOK, Stopped
  <2> QED BY <1>1, <1>2, <2>1, <2>2 DEF ControlInv, TypeOK, requests, Leases
<1>4. Shapes' /\ OneHolder' /\ LeaseUnderLock' /\ PaneFollows'
  BY <1>1, <1>2 DEF ControlInv, Shapes, OneHolder, LeaseUnderLock, PaneFollows, NoOp
<1>5. PlanHolds'
  <2>1. /\ op'.step \in {"none", "ensure", "sync"}
        /\ op'.step = "ensure" => op'.ask = op.ask
    BY <1>1, <1>2 DEF NoOp
  <2>2. Replaces(op.seen, op.ask.client)
    BY <1>1 DEF ControlInv, PlanHolds
  <2> QED BY <2>1, <2>2, PlanIsPossible DEF PlanHolds
<1> QED BY <1>1, <1>3, <1>4, <1>5, WhileAcquiring DEF AcquireInv

LEMMA EnsureStep ==
    ASSUME ControlInv, AcquireEnsure
    PROVE  ControlInv'
<1>1. /\ op # NoOp /\ op.step = "ensure" /\ op.ask.client \in Clients
      /\ op = [step |-> op.step, ask |-> op.ask, stored |-> op.stored, seen |-> op.seen]
      /\ UNCHANGED <<sending, attached, lease, ids, pane, requests>>
  BY DEF AcquireEnsure, NoOp, ControlInv, Shapes
<1>2. \/ /\ runtime.number < MaxRuntimes /\ runtime' = Launched(ControlMode(Holder[op.ask.client]))
         /\ op' = [op EXCEPT !.step = "sync"] /\ UNCHANGED unsynced
      \/ op' = [op EXCEPT !.step = "sync"] /\ UNCHANGED <<runtime, unsynced>>
      \/ op' = NoOp /\ unsynced' = unsynced \cup {"failed"} /\ UNCHANGED runtime
  BY DEF AcquireEnsure, Step
<1>3. TypeOK'
  <2>1. op'.step \in {"none", "sync"}
    BY <1>1, <1>2 DEF NoOp
  <2>2. ControlMode(Holder[op.ask.client]) \in Modes /\ ControlMode(Holder[op.ask.client]) # Offline
    BY <1>1, ModeOffered DEF ControlInv, PlanHolds
  <2>3. /\ runtime' \in [number : 0..MaxRuntimes, mode : Modes \cup {Offline}, busy : BOOLEAN]
        /\ runtime'.mode = Offline => ~runtime'.busy
    BY <1>2, <2>2, LaunchedTyped DEF ControlInv, TypeOK
  <2> QED BY <1>1, <1>2, <2>1, <2>3 DEF ControlInv, TypeOK, requests, Leases
<1>4. Shapes' /\ OneHolder' /\ LeaseUnderLock' /\ PaneFollows'
  BY <1>1, <1>2 DEF ControlInv, Shapes, OneHolder, LeaseUnderLock, PaneFollows, NoOp
<1>5. PlanHolds'
  BY <1>1, <1>2 DEF PlanHolds, NoOp
<1> QED BY <1>1, <1>3, <1>4, <1>5, WhileAcquiring DEF AcquireInv

LEMMA SyncStep ==
    ASSUME ControlInv, AcquireSync
    PROVE  ControlInv'
<1>1. /\ op # NoOp /\ op.step = "sync" /\ op.ask.client \in Clients /\ op' = NoOp
      /\ UNCHANGED <<sending, world, lease, ids>>
      /\ runtime.mode = "tui" => pane' = (Holder[op.ask.client] = "terminal")
      /\ lease # Vacant => lease.client = op.ask.client
  BY DEF AcquireSync, NoOp, ControlInv, Shapes, LeaseUnderLock
<1>2. TypeOK'
  <2>1. /\ pane' \in BOOLEAN /\ unsynced' = {} /\ UNCHANGED releasing
        /\ \/ asks' = asks
           \/ lease # Vacant /\ asks' = asks \cup {Ask(op.ask.client, "send", FALSE, FALSE, NoToken, lease.id)}
    BY DEF AcquireSync, ControlInv, TypeOK
  <2>2. lease # Vacant => lease.id \in 0..ids
    BY DEF ControlInv, TypeOK, Leases
  <2>3. \A a \in asks' : a.client \in Clients /\ a.kind \in {"acquire", "take", "send"} /\ a.id \in 0..ids
    BY <1>1, <2>1, <2>2 DEF ControlInv, TypeOK, Ask
  <2> QED BY <1>1, <2>1, <2>3 DEF ControlInv, TypeOK, Leases, NoOp, world
<1>3. AcquireInv'
  BY <1>1 DEF ControlInv, AcquireInv, Shapes, OneHolder, LeaseUnderLock, PlanHolds, PaneFollows,
     NoOp, world
<1> QED BY <1>1, <1>2, <1>3, WhileAcquiring

----------------------------------------------------------------------------
(* The other steps *)

\* A request that is let in is remembered as its client made it.
LEMMA RequestStep ==
    ASSUME ControlInv, NEW c \in Clients, NEW confirm, NEW start, RequestControl(c, confirm, start)
    PROVE  ControlInv'
<1>1. /\ Unlocked /\ pane' = Repaired(Status(lease)) /\ UNCHANGED <<lease, ids, world, locked, releasing, unsynced>>
      /\ \E token : asks' = asks \cup {Ask(c, "acquire", confirm, start, token, 0)}
  BY DEF RequestControl
<1>2. TypeOK'
  <2>1. \A a \in asks' : a.client \in Clients /\ a.kind \in {"acquire", "take", "send"} /\ a.id \in 0..ids
    BY <1>1, BoundsAssumption DEF ControlInv, TypeOK, Ask
  <2>2. pane' \in BOOLEAN
    BY <1>1 DEF ControlInv, TypeOK, Repaired
  <2> QED BY <1>1, <2>1, <2>2 DEF ControlInv, TypeOK, Leases, world, locked
<1>3. PaneFollows'
  BY <1>1 DEF ControlInv, PaneFollows, Repaired, Status, Vacant, world, locked
<1> QED
  BY <1>1, <1>2, <1>3
  DEF ControlInv, Shapes, OneHolder, LeaseUnderLock, PlanHolds, OnceIsLast, DeliveredByController, locked

\* A sender that is let in renews the lease that it named.
LEMMA AdmitStep ==
    ASSUME ControlInv, NEW a \in asks, SendAdmit(a)
    PROVE  ControlInv'
<1>1. /\ op = NoOp /\ sending = NoOp /\ asks' \subseteq asks
      /\ UNCHANGED <<ids, world, pane, releasing, op, unsynced>>
      /\ \/ UNCHANGED <<lease, sending>>
         \/ /\ lease # Vacant /\ lease.client = a.client /\ lease' = AdmittedLease(a.client)
            /\ sending' = [step |-> "deliver", client |-> a.client, once |-> 0]
  BY DEF SendAdmit, Unlocked
<1>2. CASE UNCHANGED <<lease, sending>>
  <2>1. TypeOK'
    BY <1>1, <1>2 DEF ControlInv, TypeOK, Leases, world
  <2> QED
    BY <1>1, <1>2, <2>1 DEF ControlInv, Shapes, OneHolder, LeaseUnderLock, PlanHolds, OnceIsLast,
         PaneFollows, DeliveredByController, world
<1>3. CASE /\ lease # Vacant /\ lease.client = a.client /\ lease' = AdmittedLease(a.client)
           /\ sending' = [step |-> "deliver", client |-> a.client, once |-> 0]
  <2>1. lease.id \in 1..ids /\ a.client \in Clients
    BY <1>3 DEF ControlInv, TypeOK, Leases
  <2>2. lease' \in Leases /\ lease'.client = a.client
    BY <1>3, <2>1, LeaseTyped DEF ControlInv, AdmittedLease, Lease
  <2>3. TypeOK'
    BY <1>1, <1>3, <2>2 DEF ControlInv, TypeOK, Leases, world
  <2> QED
    BY <1>1, <1>3, <2>2, <2>3 DEF ControlInv, Shapes, OneHolder, LeaseUnderLock, PlanHolds, OnceIsLast,
         PaneFollows, DeliveredByController, world, NoOp
<1> QED BY <1>1, <1>2, <1>3

\* A message sent without a controller takes a vacant lease for itself alone.
LEMMA OnceStep ==
    ASSUME ControlInv, OnceAdmit
    PROVE  ControlInv'
<1>1. /\ op = NoOp /\ sending = NoOp /\ Granted(Shared, FALSE)
      /\ lease # Vacant => lease.client = Shared
      /\ sending' = [step |-> "deliver", client |-> Shared, once |-> IF lease = Vacant THEN ids' ELSE 0]
      /\ UNCHANGED <<world, pane, requests, op, unsynced>>
  BY DEF OnceAdmit, Unlocked, Fenced
<1>2. /\ ids' \in 0..MaxLeases /\ ids <= ids' /\ lease' \in Leases'
      /\ lease' # Vacant /\ lease'.client = Shared
      /\ lease = Vacant => lease'.id = ids' /\ ids' # 0
  BY <1>1, ClientsAssumption, GrantedLease DEF ControlInv
<1>3. TypeOK'
  <2>1. \A a \in asks' : a.client \in Clients /\ a.kind \in {"acquire", "take", "send"} /\ a.id \in 0..ids'
    BY <1>1, <1>2 DEF ControlInv, TypeOK, requests
  <2> QED BY <1>1, <1>2, <2>1 DEF ControlInv, TypeOK, world, requests
<1> QED
  BY <1>1, <1>2, <1>3, ClientsAssumption
  DEF ControlInv, Shapes, OneHolder, LeaseUnderLock, PlanHolds, OnceIsLast, PaneFollows,
      DeliveredByController, world, NoOp

\* A TUI that someone starts is left to the next acquisition to lock.
LEMMA StartStep ==
    ASSUME ControlInv, NEW m \in Modes, StartAgent(m)
    PROVE  ControlInv'
<1>1. /\ runtime' = Launched(m) /\ UNCHANGED <<lease, ids, attached, requests, locked>>
      /\ pane' = TRUE /\ runtime.number < MaxRuntimes
      /\ unsynced' = IF m = "tui" THEN unsynced \cup {"started"} ELSE unsynced
  BY DEF StartAgent
<1>2. /\ runtime' \in [number : 0..MaxRuntimes, mode : Modes \cup {Offline}, busy : BOOLEAN]
      /\ ~runtime'.busy /\ runtime'.mode = m
  BY <1>1, LaunchedTyped DEF ControlInv
<1>3. TypeOK'
  BY <1>1, <1>2 DEF ControlInv, TypeOK, Leases, requests, locked
<1>4. PaneFollows'
  BY <1>1, <1>2 DEF PaneFollows
<1> QED
  BY <1>1, <1>3, <1>4
  DEF ControlInv, Shapes, OneHolder, LeaseUnderLock, PlanHolds, OnceIsLast, DeliveredByController, locked

LEMMA InvStep ==
    ASSUME ControlInv, [Next]_vars
    PROVE  ControlInv'
<1> USE DEF ControlInv, Shapes, OneHolder, LeaseUnderLock, PlanHolds, OnceIsLast, PaneFollows,
            DeliveredByController, NoOp, Vacant, world, requests, locked
<1>1. ASSUME NEW c \in Clients, GetControl(c) PROVE ControlInv'
  BY <1>1 DEF GetControl, Unlocked, Status, Repaired, TypeOK, Leases
<1>2. ASSUME NEW c \in Clients, RequestSend(c) PROVE ControlInv'
  BY <1>2, BoundsAssumption DEF RequestSend, Ask, TypeOK, Leases
<1>3. ASSUME NEW c \in Clients, Renew(c) PROVE ControlInv'
  BY <1>3 DEF Renew, Lease, TypeOK, Leases
<1>4. ASSUME NEW c \in Clients, Release(c) PROVE ControlInv'
  BY <1>4 DEF Release, TypeOK, Leases
<1>5. ASSUME NEW c \in Clients, ReleaseRepair(c) PROVE ControlInv'
  BY <1>5 DEF ReleaseRepair, Unlocked, Status, Repaired, TypeOK, Leases
<1>6. ASSUME NEW a \in asks, AcquireBegin(a) PROVE ControlInv'
  BY <1>6 DEF AcquireBegin, Unlocked, TypeOK, Leases
<1>7. CASE AcquireFail
  BY <1>7 DEF AcquireFail, TypeOK, Leases
<1>8. CASE Deliver
  BY <1>8 DEF Deliver, Offline, TypeOK, Leases
<1>9. CASE StopAgent
  <2>1. /\ runtime' \in [number : 0..MaxRuntimes, mode : Modes \cup {Offline}, busy : BOOLEAN]
        /\ runtime'.mode = Offline /\ ~runtime'.busy /\ pane' = TRUE
    BY <1>9 DEF StopAgent, Stopped, TypeOK
  <2>2. TypeOK'
    BY <1>9, <2>1 DEF StopAgent, TypeOK, Leases
  <2>3. PaneFollows'
    BY <2>1 DEF Offline
  <2> QED BY <1>9, <2>2, <2>3 DEF StopAgent
<1>10. CASE Turn
  <2>1. TypeOK'
    BY <1>10 DEF Turn, TypeOK, Leases
  <2>2. PaneFollows'
    BY <1>10 DEF Turn, TypeOK
  <2> QED BY <1>10, <2>1, <2>2 DEF Turn
<1>11. CASE Terminal
  BY <1>11 DEF Terminal, TypeOK, Leases
<1>12. CASE Expire
  BY <1>12 DEF Expire, TypeOK, Leases
<1>13. CASE Restart
  BY <1>13 DEF Restart, TypeOK, Leases
<1>14. CASE UNCHANGED vars
  BY <1>14 DEF vars, TypeOK, Leases
<1> HIDE DEF ControlInv, Shapes, OneHolder, LeaseUnderLock, PlanHolds, OnceIsLast, PaneFollows,
             DeliveredByController, NoOp, Vacant, world, requests, locked
<1>15. ASSUME NEW c \in Clients, ClientNext(c) PROVE ControlInv'
  BY <1>15, <1>1, <1>2, <1>3, <1>4, <1>5, RequestStep DEF ClientNext
<1>16. CASE AcquireNext
  BY <1>16, <1>6, <1>7, CheckStep, LeaseStep, EffectStep, ShutdownStep, EnsureStep, SyncStep
     DEF AcquireNext
<1>17. CASE DeliverNext
  BY <1>17, <1>8, AdmitStep, OnceStep DEF DeliverNext
<1>18. CASE WorldNext
  BY <1>18, <1>9, <1>10, <1>11, <1>12, <1>13, StartStep DEF WorldNext
<1> QED BY <1>14, <1>15, <1>16, <1>17, <1>18 DEF Next

----------------------------------------------------------------------------
(* Theorems *)

\* Between the steps of every acquisition, delivery, release and restart, the
\* lock, the plan under way, the lease and the pane fit together
\* (app/access_control.go, app/control_admission.go).
THEOREM ControlInvariant == Spec => []ControlInv
<1>1. Init => ControlInv
  <2> SUFFICES ASSUME Init PROVE ControlInv
    OBVIOUS
  <2>1. runtime \in [number : 0..MaxRuntimes, mode : Modes \cup {Offline}, busy : BOOLEAN]
    BY BoundsAssumption DEF Init
  <2>2. lease \in Leases /\ ids \in 0..MaxLeases
    BY BoundsAssumption DEF Init, Leases
  <2>3. TypeOK
    <3>1. op.step = "none" /\ sending.step = "none" /\ ~runtime.busy /\ attached = FALSE /\ pane = TRUE
      BY DEF Init, NoOp
    <3> QED BY <2>1, <2>2, <3>1 DEF Init, TypeOK
  <2> QED
    BY <2>3 DEF Init, ControlInv, Shapes, OneHolder, LeaseUnderLock, PlanHolds, OnceIsLast, PaneFollows,
         DeliveredByController, NoOp, Vacant
<1>2. ControlInv /\ [Next]_vars => ControlInv'
  BY InvStep
<1> QED BY <1>1, <1>2, PTL DEF Spec

\* Between requests a TUI listens to its keyboard exactly when a terminal has
\* control (syncPaneInput, repairVacantPane).
THEOREM PaneFollowsController == Spec => []PaneMatchesController
<1>1. ControlInv => PaneMatchesController
  BY DEF ControlInv, PaneFollows, PaneMatchesController, NoOp
<1> QED BY <1>1, ControlInvariant, PTL

\* A message is delivered only while nobody but its sender has control
\* (admitControllerCommand).
THEOREM MessagesHaveTheController == Spec => []DeliveredByController
<1>1. ControlInv => DeliveredByController
  BY DEF ControlInv
<1> QED BY <1>1, ControlInvariant, PTL

\* Only an acquisition whose plan takes over gives a client's lease to another,
\* and only to the client that made it.
LEMMA OnlyTakeoversDisplace ==
    ASSUME ControlInv, [Next]_vars
    PROVE  DisplacedOnlyByConsent
<1> SUFFICES ASSUME lease # Vacant, lease' # Vacant, lease'.client # lease.client
             PROVE  /\ op.step = "grant" /\ op.ask.client = lease'.client
                    /\ \/ op.ask.confirm /\ op.ask.token.lease = lease.id
                       \/ Holder[lease.client] = "terminal" /\ ~op.seen.attached
  BY DEF DisplacedOnlyByConsent
<1>1. AcquireLease \/ AcquireEffect \/ (\E a \in asks : SendAdmit(a)) \/ OnceAdmit \/ (\E c \in Clients : Renew(c))
  BY DEF Next, vars, ClientNext, AcquireNext, DeliverNext, WorldNext, GetControl, RequestControl,
     RequestSend,
         Release, ReleaseRepair, AcquireBegin, AcquireCheck, AcquireShutdown, AcquireEnsure, AcquireSync,
         AcquireFail, Deliver, StartAgent, StopAgent, Turn, Terminal, Expire, Restart
<1>2. ~AcquireEffect
  BY DEF AcquireEffect, AdmittedLease, Lease
<1>3. ASSUME NEW a \in asks, SendAdmit(a) PROVE FALSE
  BY <1>3 DEF SendAdmit, AdmittedLease, Lease
<1>4. ~OnceAdmit
  BY DEF OnceAdmit, Fenced, Granted, Lease
<1>5. ASSUME NEW c \in Clients, Renew(c) PROVE FALSE
  BY <1>5 DEF Renew, Lease
<1>6. AcquireLease
  BY <1>1, <1>2, <1>3, <1>4, <1>5
<1>7. op.step = "grant" /\ Fenced(op.stored.id, op.ask.client, Takeover(op)) /\ Granted(op.ask.client, TRUE)
  BY <1>6 DEF AcquireLease
<1>8. lease'.client = op.ask.client
  BY <1>7 DEF Granted, Lease
<1>9. Takeover(op) /\ op.stored.id = lease.id /\ op.stored.client = lease.client /\ op.stored # Vacant
  BY <1>7, <1>8 DEF Fenced, ControlInv, LeaseUnderLock
<1>10. CASE op.seen.lease = op.stored
  <2>1. Displaces(op.seen, op.ask.client) /\ Admissible(op.seen, op.ask)
    BY <1>7, <1>9, <1>10 DEF Takeover, ControlInv, PlanHolds
  <2>2. op.ask.confirm /\ op.ask.token = Token(op.seen)
    BY <2>1, ConfirmedForTheLease
  <2>3. Token(op.seen).lease = lease.id
    BY <1>9, <1>10 DEF Token
  <2> QED BY <1>7, <1>8, <2>2, <2>3
<1>11. CASE op.seen.lease # op.stored
  BY <1>7, <1>8, <1>9, <1>11 DEF ControlInv, PlanHolds
<1> QED BY <1>10, <1>11

\* A turn that an acquisition ends was in its confirmed plan, or began after a
\* plan that a driver without an idle guard carries out.
LEMMA OnlyConsentEndsTurns ==
    ASSUME ControlInv, [Next]_vars
    PROVE  TurnsAbortedOnlyByConsent
<1> SUFFICES ASSUME runtime.mode \in IdleGuard, op.step \in {"effect", "shutdown"}, op' # op,
                    runtime.busy, ~runtime'.busy, ~op.ask.confirm
             PROVE  FALSE
  BY DEF TurnsAbortedOnlyByConsent, UnconfirmedTakeoverEndsTurn
<1>1. op # NoOp
  BY DEF NoOp
<1>2. sending = NoOp /\ Admissible(op.seen, op.ask)
  BY <1>1 DEF ControlInv, OneHolder, PlanHolds
<1>3. ~Aborts(op.seen, op.ask.client)
  BY <1>2, ConfirmedForTheTurn
<1>4. AcquireEffect \/ AcquireShutdown
  BY <1>1 DEF Next, vars, ClientNext, AcquireNext, DeliverNext, WorldNext, GetControl,
     RequestControl, RequestSend,
         Renew, Release, ReleaseRepair, AcquireBegin, AcquireCheck, AcquireLease, AcquireEnsure, AcquireSync,
         AcquireFail, SendAdmit, OnceAdmit, Deliver, StartAgent, StopAgent, Turn, Terminal, Expire, Restart,
         Unlocked, world, locked, requests
<1>5. CASE AcquireEffect
  BY <1>3, <1>5 DEF AcquireEffect
<1>6. CASE AcquireShutdown
  <2>1. Replaces(op.seen, op.ask.client) /\ op.step = "shutdown"
    BY <1>6 DEF AcquireShutdown, ControlInv, PlanHolds
  <2>2. ~Forces(op)
    BY <1>3, <2>1 DEF Forces, Aborts
  <2> QED BY <1>6, <2>2 DEF AcquireShutdown
<1> QED BY <1>4, <1>5, <1>6

\* Nobody loses control, or with a guarding driver a turn, to a client that did
\* not confirm the plan naming it (validateControlPlan, leaseTable.acquire,
\* Service.Stop).
THEOREM NobodyInterruptedUnasked == Spec => InterruptedOnlyByConsent
<1>1. ControlInv /\ [Next]_vars => [DisplacedOnlyByConsent /\ TurnsAbortedOnlyByConsent]_vars
  BY OnlyTakeoversDisplace, OnlyConsentEndsTurns
<1> QED BY <1>1, ControlInvariant, PTL DEF Spec, InterruptedOnlyByConsent
=============================================================================
