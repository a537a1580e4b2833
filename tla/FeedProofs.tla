--------------------------------- MODULE FeedProofs ---------------------------------
(***************************************************************************)
(* Proofs about what reaches the daemon and its clients, part by part:     *)
(*                                                                         *)
(*   RuntimeEvents       the events of drivers: the readiness of the saved *)
(*                       record is the newest that its own runtime reported,*)
(*                       for any number of runtimes, turns and troubles    *)
(*   ConversationImport  the conversation files: what is indexed is what was*)
(*                       written, for any importers, forks and crashes,    *)
(*                       until an import of an old file is belated         *)
(*   ChangeLog           what clients are told: a reader that moved past a *)
(*                       record knows all of it, for any readers, size of the*)
(*                       log, records and restarts                         *)
(***************************************************************************)
EXTENDS RuntimeEvents, ConversationImport, ChangeLog, FiniteSetTheorems, SequenceTheorems, TLAPS

----------------------------------------------------------------------------
(***************************************************************************)
(* RuntimeEvents                                                           *)
(***************************************************************************)

----------------------------------------------------------------------------
(* The inductive invariant *)

Kinds == {"ready", "status", "started", "settled", "failed"}
Readinesses == {"", "ready", "busy", "blocked"}
Activities == [rt : 0..MaxRuntimes, at : Nat, agent : {"", "active", "settled", "failed"},
               turn : {"", "busy", "idle", "failed"}, req : Nat, done : Nat]

\* What the variables hold that the order of events depends on.
OrderTyped ==
    /\ clock \in Nat /\ claim \in Nat
    /\ owner \in Records /\ copy \in Records /\ live \in Activities
    /\ alive \subseteq Runtimes /\ sending \subseteq Runtimes
    /\ queue \in [Runtimes -> Seq(Events)]
    /\ late \subseteq Events /\ ingested \subseteq Events

\* Only the runtime that owns the item lives, sends and waits to be heard.
OneRuntime ==
    /\ alive \subseteq {owner.id} /\ sending \subseteq alive
    /\ \A r \in Runtimes \ sending : queue[r] = <<>>
    /\ owner.claim <= claim

\* A host has the record of a runtime that was the owner, and saves it for the
\* claim that it was started for.
CopyIsOlder ==
    /\ copy.id <= owner.id
    /\ copy # NoCopy /\ copy.id = owner.id =>
          /\ copy.claim = owner.claim /\ copy.at <= owner.at
          /\ copy.at = owner.at => copy.readiness = owner.readiness

\* The events of a driver are in its queue in the order it emitted them, each
\* from a time of its own.
QueueInOrder ==
    \A r \in Runtimes : \A k \in DOMAIN queue[r] :
        /\ queue[r][k].rt = r /\ queue[r][k].at \in 1..clock
        /\ \A j \in DOMAIN queue[r] : j < k => queue[r][j].at < queue[r][k].at

\* What was emitted before the queued events, or by an earlier runtime, has an
\* earlier time.
Behind(e) ==
    /\ e.rt <= owner.id /\ e.at \in 1..clock
    /\ \A r \in Runtimes : \A k \in DOMAIN queue[r] :
          e.at < queue[r][k].at \/ (k = 1 /\ e = queue[r][1])

\* An event that may still be handled late was committed before, is the next to
\* be sent, or is the last of a driver that is gone; or it is from no owner.
NextInLine(e) ==
    \/ e \in ingested
    \/ ~FromOwner(e)
    \/ /\ queue[e.rt] # <<>> => e = Head(queue[e.rt])
       /\ queue[e.rt] = <<>> => e.rt \notin sending
       /\ \A f \in ingested : f.at < e.at
       /\ \A f \in late \ ingested : f.rt = e.rt => f = e

\* The times that the daemon keeps are those of events it committed.
TimesAreIngested ==
    /\ live.at = 0 \/ \E e \in ingested : e.at = live.at
    /\ owner.at = 0 \/ \E e \in ingested : e.at = owner.at

EventsInv ==
    /\ OrderTyped
    /\ OneRuntime
    /\ CopyIsOlder
    /\ QueueInOrder
    /\ \A e \in ingested \union late : Behind(e)
    /\ \A e \in late : NextInLine(e)
    /\ TimesAreIngested
    /\ ReadinessIsTheOwners

----------------------------------------------------------------------------
(* What is committed *)

\* The parts of an event.
LEMMA EventTyped ==
    ASSUME NEW e \in Events
    PROVE  /\ e.rt \in Runtimes /\ e.rt \in 0..MaxRuntimes /\ e.rt \in Nat
           /\ e.at \in Nat /\ e.kind \in Kinds /\ Readiness(e) \in Readinesses
<1>1. e.rt \in Runtimes /\ e.at \in Nat /\ e.kind \in Kinds /\ e.readiness \in Readinesses
  BY DEF Events, Kinds, Readinesses
<1>2. \A n \in 1..MaxRuntimes : n \in 0..MaxRuntimes /\ n \in Nat
  BY BoundsAssumption
<1> QED BY <1>1, <1>2 DEF Runtimes, Readiness, Readinesses

\* The parts of a record.
LEMMA RecordTyped ==
    ASSUME NEW o \in Records
    PROVE  o.id \in Nat /\ o.claim \in Nat /\ o.at \in Nat /\ o.readiness \in Readinesses
<1>1. \A n \in 0..MaxRuntimes : n \in Nat
  BY BoundsAssumption
<1> QED BY <1>1 DEF Records, Readinesses

\* The projection keeps the time of the event that it is told.
LEMMA ActivityTyped ==
    ASSUME OrderTyped, NEW e \in Events
    PROVE  Activity(e) \in Activities /\ Activity(e).at = e.at
<1> DEFINE a == IF live.rt \in {0, e.rt} THEN [live EXCEPT !.rt = e.rt, !.at = e.at]
                                        ELSE [NoActivity(e.rt) EXCEPT !.at = e.at]
<1>1. e.rt \in 0..MaxRuntimes /\ e.at \in Nat /\ e.kind \in Kinds
  BY EventTyped
<1>2. a \in Activities /\ a.at = e.at
  BY <1>1 DEF OrderTyped, Activities, NoActivity
<1> HIDE DEF a
<1>3. Activity(e) =
        CASE e.kind = "ready" ->
               [a EXCEPT !.agent = IF @ \in {"active", "failed"} THEN @ ELSE "",
                         !.turn = CASE a.agent = "active" -> "busy"
                                    [] a.agent = "failed" -> "failed"
                                    [] OTHER -> "idle"]
          [] e.kind = "status" ->
               IF e.readiness = "busy" /\ a.agent # "active"
               THEN [a EXCEPT !.agent = "", !.turn = "busy"] ELSE a
          [] e.kind = "started" ->
               [a EXCEPT !.agent = "active", !.turn = "busy", !.req = e.at]
          [] e.kind = "settled" -> [a EXCEPT !.agent = "settled", !.turn = "idle", !.done = e.at]
          [] e.kind = "failed" -> [a EXCEPT !.agent = "failed", !.turn = "failed", !.done = e.at]
  BY DEF Activity, a
<1>4. CASE e.kind = "ready"
  BY <1>2, <1>3, <1>4 DEF Activities
<1>5. CASE e.kind = "status"
  BY <1>2, <1>3, <1>5 DEF Activities
<1>6. CASE e.kind = "started"
  BY <1>1, <1>2, <1>3, <1>6 DEF Activities
<1>7. CASE e.kind = "settled"
  BY <1>1, <1>2, <1>3, <1>7 DEF Activities
<1>8. CASE e.kind = "failed"
  BY <1>1, <1>2, <1>3, <1>8 DEF Activities
<1> QED BY <1>1, <1>4, <1>5, <1>6, <1>7, <1>8 DEF Kinds

\* An event of the owner that is new is the newest, and its readiness is saved.
LEMMA NewEventIsSaved ==
    ASSUME EventsInv, NEW e \in Events, Ingest(e), e.at # 0,
           FromOwner(e), e \notin ingested, \A f \in ingested : f.at < e.at
    PROVE  /\ live' \in Activities /\ live'.at = e.at
           /\ ingested' = ingested \cup {e}
           /\ owner' = IF Readiness(e) # ""
                       THEN [owner EXCEPT !.readiness = Readiness(e), !.at = e.at] ELSE owner
           /\ owner.at < e.at
<1>1. e.at \in Nat /\ owner \in Records /\ owner.at \in Nat /\ live \in Activities
  BY EventTyped, RecordTyped DEF EventsInv, OrderTyped
<1>2. live.at \in Nat
  BY <1>1 DEF Activities
<1>3. live.at < e.at
  <2>1. CASE live.at = 0
    BY <1>1, <2>1
  <2>2. CASE \E f \in ingested : f.at = live.at
    BY <2>2
  <2> QED BY <2>1, <2>2 DEF EventsInv, TimesAreIngested
<1>4. owner.at < e.at
  <2>1. CASE owner.at = 0
    BY <1>1, <2>1
  <2>2. CASE \E f \in ingested : f.at = owner.at
    BY <2>2
  <2> QED BY <2>1, <2>2 DEF EventsInv, TimesAreIngested
<1>5. News(e) /\ owner.at <= e.at
  <2>1. live.at <= e.at /\ owner.at <= e.at
    BY <1>1, <1>2, <1>3, <1>4
  <2> QED BY <2>1 DEF News
<1>6. /\ live' = Activity(e) /\ ingested' = ingested \cup {e}
      /\ owner' = IF Readiness(e) # ""
                  THEN [owner EXCEPT !.readiness = Readiness(e), !.at = e.at] ELSE owner
  BY <1>5 DEF Ingest
<1> QED BY <1>4, <1>6, ActivityTyped DEF EventsInv

\* An event is handled as the newest of its runtime, or changes nothing.
LEMMA IngestedInOrder ==
    ASSUME EventsInv, NEW e \in Events, Ingest(e), e.at # 0,
           FromOwner(e) /\ e \notin ingested => \A f \in ingested : f.at < e.at
    PROVE  /\ live' \in Activities /\ owner' \in Records
           /\ owner'.id = owner.id /\ owner'.claim = owner.claim /\ owner.at <= owner'.at
           /\ owner'.at = owner.at => owner'.readiness = owner.readiness
           /\ ingested' = IF FromOwner(e) THEN ingested \cup {e} ELSE ingested
           /\ TimesAreIngested' /\ ReadinessIsTheOwners'
<1>1. owner \in Records /\ owner.at \in Nat /\ owner.at <= owner.at /\ live \in Activities
  BY RecordTyped DEF EventsInv, OrderTyped
<1>2. CASE ~FromOwner(e)
  <2>1. UNCHANGED <<owner, live, ingested>>
    BY <1>2 DEF Ingest
  <2>2. TimesAreIngested' /\ ReadinessIsTheOwners'
    BY <2>1 DEF EventsInv, TimesAreIngested, ReadinessIsTheOwners, Readiness
  <2> QED BY <1>1, <1>2, <2>1, <2>2
<1>3. CASE FromOwner(e) /\ e \in ingested
  <2>1. ~News(e)
    BY <1>3 DEF News
  <2>2. ingested' = ingested \cup {e} /\ UNCHANGED <<owner, live>>
    BY <1>3, <2>1 DEF Ingest
  <2>3. ingested' = ingested
    BY <1>3, <2>2
  <2>4. TimesAreIngested' /\ ReadinessIsTheOwners'
    BY <2>2, <2>3 DEF EventsInv, TimesAreIngested, ReadinessIsTheOwners, Readiness
  <2> QED BY <1>1, <1>3, <2>2, <2>4
<1>4. CASE FromOwner(e) /\ e \notin ingested
  <2>1. /\ live' \in Activities /\ live'.at = e.at
        /\ ingested' = ingested \cup {e}
        /\ owner' = IF Readiness(e) # ""
                    THEN [owner EXCEPT !.readiness = Readiness(e), !.at = e.at] ELSE owner
        /\ owner.at < e.at
    BY <1>4, NewEventIsSaved
  <2>2. /\ e.at \in Nat /\ Readiness(e) \in Readinesses /\ e.rt = owner.id
        /\ \A f \in ingested : f.at \in Nat /\ f.at < e.at
    BY <1>4, EventTyped DEF FromOwner, EventsInv, OrderTyped
  <2>3. CASE Readiness(e) # ""
    <3>1. owner' \in Records /\ owner'.id = owner.id /\ owner'.claim = owner.claim
      BY <1>1, <2>1, <2>2, <2>3 DEF Records, Readinesses
    <3>2. owner'.readiness = Readiness(e) /\ owner'.at = e.at
      BY <1>1, <2>1, <2>3 DEF Records
    <3>3. TimesAreIngested'
      BY <2>1, <3>2 DEF TimesAreIngested
    <3>4. \A f \in ingested' : f.at <= e.at
      <4>1. e.at <= e.at /\ \A f \in ingested : f.at <= e.at
        BY <2>2
      <4> QED BY <2>1, <4>1
    <3>5. ReadinessIsTheOwners'
      <4> DEFINE after == {f \in ingested' : f.rt = owner'.id /\ Readiness(f) # ""}
      <4>1. e \in after /\ \A f \in after : f.at <= e.at
        BY <2>1, <2>2, <2>3, <3>1, <3>4
      <4> QED BY <3>2, <4>1 DEF ReadinessIsTheOwners, Readiness
    <3>6. owner.at <= owner'.at /\ owner'.at # owner.at
      <4>1. owner.at < e.at
        BY <2>1
      <4>2. owner.at <= e.at /\ e.at # owner.at
        BY <1>1, <2>2, <4>1
      <4> QED BY <3>2, <4>2
    <3> QED BY <1>4, <2>1, <3>1, <3>3, <3>5, <3>6
  <2>4. CASE Readiness(e) = ""
    <3>1. owner' = owner
      BY <2>1, <2>4
    <3>2. TimesAreIngested'
      BY <2>1, <3>1 DEF EventsInv, TimesAreIngested
    <3>3. {f \in ingested' : f.rt = owner'.id /\ Readiness(f) # ""}
            = {f \in ingested : f.rt = owner.id /\ Readiness(f) # ""}
      BY <2>1, <2>4, <3>1
    <3>4. ReadinessIsTheOwners'
      BY <3>1, <3>3 DEF EventsInv, ReadinessIsTheOwners, Readiness
    <3> QED BY <1>1, <1>4, <2>1, <3>1, <3>2, <3>4
  <2> QED BY <2>3, <2>4
<1> QED BY <1>2, <1>3, <1>4

----------------------------------------------------------------------------
(* What is emitted *)

\* The new events follow those that wait, with later times.
LEMMA EmittedInOrder ==
    ASSUME EventsInv, NEW r \in Runtimes, NEW es \in Seq(Kinds \X Readinesses), es # <<>>,
           Emit(r, es), owner.id <= owner'.id, owner'.id \in Nat
    PROVE  /\ clock' \in Nat /\ clock <= clock' /\ queue' \in [Runtimes -> Seq(Events)]
           /\ \A s \in Runtimes \ {r} : queue'[s] = queue[s]
           /\ queue'[r] # <<>> /\ (queue[r] # <<>> => Head(queue'[r]) = Head(queue[r]))
           /\ QueueInOrder'
           /\ \A e \in Events : Behind(e) => Behind(e)'
<1> DEFINE new == [k \in DOMAIN es |->
                      [rt |-> r, at |-> clock + k, kind |-> es[k][1], readiness |-> es[k][2]]]
           n == Len(es)
           q == queue[r]
           m == Len(q)
           after == q \o new
<1>1. clock \in Nat /\ q \in Seq(Events) /\ queue \in [Runtimes -> Seq(Events)] /\ m \in Nat
  BY DEF EventsInv, OrderTyped
<1>2. n \in Nat \ {0} /\ DOMAIN es = 1..n
  BY EmptySeq
<1>3. \A k \in 1..n : es[k][1] \in Kinds /\ es[k][2] \in Readinesses
  <2>1. \A k \in 1..n : es[k] \in Kinds \X Readinesses
    BY <1>2
  <2> QED BY <2>1
<1>4. \A k \in 1..n : new[k].rt = r /\ new[k].at = clock + k
  BY <1>2
<1>5. \A k \in 1..n : new[k] \in Events
  <2> TAKE k \in 1..n
  <2>1. clock + k \in Nat /\ es[k][1] \in Kinds /\ es[k][2] \in Readinesses
    BY <1>1, <1>2, <1>3
  <2> QED BY <1>2, <2>1 DEF Events, Kinds, Readinesses
<1>6. new \in Seq(Events) /\ Len(new) = n
  <2>1. new \in [1..n -> Events]
    BY <1>2, <1>5
  <2> QED BY <1>2, <2>1
<1>7. clock' = clock + n /\ queue' = [queue EXCEPT ![r] = after]
  BY DEF Emit
<1> HIDE DEF new
<1>8. /\ after \in Seq(Events) /\ Len(after) = m + n
      /\ \A k \in 1..m : after[k] = q[k]
      /\ \A k \in (m + 1)..(m + n) : after[k] = new[k - m]
  <2>1. /\ after \in Seq(Events) /\ Len(after) = m + n
        /\ \A k \in 1..(m + n) : after[k] = IF k <= m THEN q[k] ELSE new[k - m]
    <3> HIDE DEF q
    <3>1. /\ after \in Seq(Events) /\ Len(after) = Len(q) + Len(new)
          /\ \A k \in 1..(Len(q) + Len(new)) :
                after[k] = IF k <= Len(q) THEN q[k] ELSE new[k - Len(q)]
      BY <1>1, <1>6, ConcatProperties, Zenon
    <3> HIDE DEF after
    <3> QED BY <1>6, <3>1
  <2> HIDE DEF after, q, m, n
  <2>2. m \in Nat /\ n \in Nat
    BY <1>1, <1>2 DEF m, n
  <2>3. \A k \in 1..m : k \in 1..(m + n) /\ k <= m
    BY <2>2
  <2>4. \A k \in (m + 1)..(m + n) : k \in 1..(m + n) /\ ~(k <= m)
    BY <2>2
  <2> QED BY <2>1, <2>3, <2>4
<1>9. queue'[r] = after /\ \A s \in Runtimes \ {r} : queue'[s] = queue[s]
  BY <1>1, <1>7
<1> HIDE DEF after, n, q
<1>10. clock' \in Nat /\ clock <= clock' /\ queue' \in [Runtimes -> Seq(Events)]
  BY <1>1, <1>2, <1>7, <1>8
<1>11. DOMAIN after = 1..(m + n) /\ DOMAIN q = 1..m
  BY <1>1, <1>8
<1>12. \A k \in 1..m : /\ q[k].rt = r /\ q[k].at \in 1..clock
                       /\ \A j \in 1..m : j < k => q[j].at < q[k].at
  BY <1>11 DEF EventsInv, QueueInOrder, q
<1>13. \A k \in 1..(m + n) :
          \/ k \in 1..m /\ after[k] = q[k] /\ after[k].rt = r /\ after[k].at \in 1..clock
          \/ /\ k \in (m + 1)..(m + n) /\ after[k].rt = r
             /\ after[k].at = clock + (k - m) /\ clock < after[k].at /\ after[k].at \in 1..clock'
  <2> TAKE k \in 1..(m + n)
  <2>1. CASE k \in 1..m
    BY <1>8, <1>12, <2>1
  <2>2. CASE k \notin 1..m
    <3>1. k \in (m + 1)..(m + n) /\ k - m \in 1..n
      BY <1>1, <1>2, <2>2
    <3>2. after[k].rt = r /\ after[k].at = clock + (k - m)
      BY <1>4, <1>8, <3>1
    <3> QED BY <1>1, <1>2, <1>7, <3>1, <3>2
  <2> QED BY <2>1, <2>2
<1>14. \A k \in 1..(m + n) : \A j \in 1..(m + n) : j < k => after[j].at < after[k].at
  <2> TAKE k \in 1..(m + n)
  <2> TAKE j \in 1..(m + n)
  <2> HAVE j < k
  <2>1. CASE k \in 1..m
    <3>1. j \in 1..m
      BY <1>1, <2>1
    <3> QED BY <1>8, <1>12, <2>1, <3>1
  <2>2. CASE k \notin 1..m
    <3>1. after[k].at = clock + (k - m) /\ clock < after[k].at
      BY <1>13, <2>2
    <3>2. CASE j \in 1..m
      <4>1. after[j].at \in 1..clock
        BY <1>8, <1>12, <3>2
      <4> QED BY <1>1, <3>1, <4>1
    <3>3. CASE j \notin 1..m
      <4>1. after[j].at = clock + (j - m)
        BY <1>13, <3>3
      <4> QED BY <1>1, <1>2, <3>1, <4>1
    <3> QED BY <3>2, <3>3
  <2> QED BY <2>1, <2>2
<1>15. queue'[r] # <<>> /\ (queue[r] # <<>> => Head(queue'[r]) = Head(queue[r]))
  <2>1. after # <<>>
    BY <1>1, <1>2, <1>8
  <2>2. q # <<>> => Head(after) = Head(q)
    <3> HAVE q # <<>>
    <3>1. 1 \in 1..m
      BY <1>1
    <3> QED BY <1>1, <1>8, <2>1, <3>1
  <2> QED BY <1>9, <2>1, <2>2 DEF q
<1>16. QueueInOrder'
  <2> SUFFICES ASSUME NEW s \in Runtimes, NEW k \in DOMAIN queue'[s]
               PROVE  /\ queue'[s][k].rt = s /\ queue'[s][k].at \in 1..clock'
                      /\ \A j \in DOMAIN queue'[s] : j < k => queue'[s][j].at < queue'[s][k].at
    BY DEF QueueInOrder
  <2>1. CASE s = r
    <3>1. after[k].rt = r /\ after[k].at \in 1..clock'
      BY <1>1, <1>9, <1>10, <1>11, <1>13, <2>1
    <3> QED BY <1>9, <1>11, <1>14, <2>1, <3>1
  <2>2. CASE s # r
    <3>1. \A a \in 1..clock : a \in 1..clock'
      BY <1>1, <1>10
    <3> QED BY <1>9, <2>2, <3>1 DEF EventsInv, QueueInOrder
  <2> QED BY <2>1, <2>2
<1>17. ASSUME NEW e \in Events, Behind(e) PROVE Behind(e)'
  <2>1. e.rt \in Nat /\ e.rt <= owner.id /\ e.at \in 1..clock
    BY <1>17, EventTyped DEF Behind
  <2>2. e.rt <= owner'.id /\ e.at \in 1..clock'
    BY <1>1, <1>10, <2>1, RecordTyped DEF EventsInv, OrderTyped
  <2>3. ASSUME NEW s \in Runtimes, NEW k \in DOMAIN queue'[s]
        PROVE  e.at < queue'[s][k].at \/ (k = 1 /\ e = queue'[s][1])
    <3>1. CASE s = r
      <4>1. CASE k \in 1..m
        <5>1. e.at < q[k].at \/ (k = 1 /\ e = q[1])
          BY <1>11, <1>17, <4>1 DEF Behind, q
        <5> QED BY <1>8, <1>9, <3>1, <4>1, <5>1
      <4>2. CASE k \notin 1..m
        <5>1. clock < after[k].at /\ after[k].at \in Nat
          BY <1>1, <1>9, <1>10, <1>11, <1>13, <2>3, <3>1, <4>2
        <5>2. e.at < after[k].at
          BY <1>1, <2>1, <5>1
        <5> QED BY <1>9, <3>1, <5>2
      <4> QED BY <4>1, <4>2
    <3>2. CASE s # r
      BY <1>9, <1>17, <2>3, <3>2 DEF Behind
    <3> QED BY <3>1, <3>2
  <2> QED BY <2>2, <2>3 DEF Behind
<1> QED BY <1>9, <1>10, <1>15, <1>16, <1>17

----------------------------------------------------------------------------
(* Steps that keep the invariant *)

\* A step emits one event or two.
LEMMA EventLists ==
    ASSUME NEW a \in Kinds \X Readinesses, NEW b \in Kinds \X Readinesses
    PROVE  /\ <<a>> \in Seq(Kinds \X Readinesses) /\ <<a>> # <<>>
           /\ <<a, b>> \in Seq(Kinds \X Readinesses) /\ <<a, b>> # <<>>
<1> DEFINE S == Kinds \X Readinesses
<1> HIDE DEF S
<1>1. a \in S /\ b \in S
  BY DEF S
<1>2. /\ <<a>> \in Seq(S) /\ <<a>> # <<>>
      /\ <<a, b>> \in Seq(S) /\ <<a, b>> # <<>>
  BY <1>1
<1> QED BY <1>2 DEF S

\* An event that may be late stays so when its owner goes on alone.
LEMMA LateStaysInLine ==
    ASSUME NEW e, NextInLine(e), UNCHANGED <<claim, late, ingested, sending>>,
           owner'.id = owner.id, owner'.claim = owner.claim, queue'[e.rt] = queue[e.rt]
    PROVE  NextInLine(e)'
<1>1. CASE e \in ingested \/ ~FromOwner(e)
  BY <1>1 DEF NextInLine, FromOwner
<1>2. CASE ~(e \in ingested \/ ~FromOwner(e))
  BY <1>2 DEF NextInLine, FromOwner
<1> QED BY <1>1, <1>2

\* A runtime that works emits events and changes nothing else here.
LEMMA EmitStep ==
    ASSUME EventsInv, NEW r \in Runtimes, r \in sending,
           NEW es \in Seq(Kinds \X Readinesses), es # <<>>, Emit(r, es),
           UNCHANGED <<claim, owner, live, alive, sending, late, ingested, copy>>
    PROVE  EventsInv'
<1>1. owner'.id \in Nat /\ owner.id <= owner'.id
  BY RecordTyped DEF EventsInv, OrderTyped
<1>2. /\ clock' \in Nat /\ clock <= clock' /\ queue' \in [Runtimes -> Seq(Events)]
      /\ \A s \in Runtimes \ {r} : queue'[s] = queue[s]
      /\ queue'[r] # <<>> /\ (queue[r] # <<>> => Head(queue'[r]) = Head(queue[r]))
      /\ QueueInOrder'
      /\ \A e \in Events : Behind(e) => Behind(e)'
  BY <1>1, EmittedInOrder
<1>3. OrderTyped'
  BY <1>2 DEF EventsInv, OrderTyped
<1>4. OneRuntime'
  BY <1>2 DEF EventsInv, OneRuntime
<1>5. CopyIsOlder' /\ TimesAreIngested' /\ ReadinessIsTheOwners'
  BY DEF EventsInv, CopyIsOlder, TimesAreIngested, ReadinessIsTheOwners, Readiness
<1>6. \A e \in (ingested \cup late)' : Behind(e)'
  BY <1>2 DEF EventsInv, OrderTyped
<1>7. ASSUME NEW e \in late PROVE NextInLine(e)'
  <2>1. NextInLine(e) /\ e.rt \in Runtimes
    BY <1>7, EventTyped DEF EventsInv, OrderTyped
  <2>2. CASE e \in ingested \/ ~FromOwner(e)
    BY <2>2 DEF NextInLine, FromOwner
  <2>3. CASE ~(e \in ingested \/ ~FromOwner(e))
    <3>1. /\ queue[e.rt] # <<>> => e = Head(queue[e.rt])
          /\ queue[e.rt] = <<>> => e.rt \notin sending
          /\ \A f \in ingested : f.at < e.at
          /\ \A f \in late \ ingested : f.rt = e.rt => f = e
      BY <2>1, <2>3 DEF NextInLine
    <3>2. /\ queue'[e.rt] # <<>> => e = Head(queue'[e.rt])
          /\ queue'[e.rt] = <<>> => e.rt \notin sending'
      <4>1. CASE e.rt = r
        BY <1>2, <3>1, <4>1
      <4>2. CASE e.rt # r
        BY <1>2, <2>1, <3>1, <4>2
      <4> QED BY <4>1, <4>2
    <3> QED BY <3>1, <3>2 DEF NextInLine
  <2> QED BY <2>2, <2>3
<1>8. \A e \in late' : NextInLine(e)'
  BY <1>7
<1> QED BY <1>2, <1>3, <1>4, <1>5, <1>6, <1>8 DEF EventsInv

LEMMA StartTurnStep ==
    ASSUME EventsInv, NEW r \in Runtimes, StartTurn(r)
    PROVE  EventsInv'
<1> DEFINE es == <<<<"started", "">>, <<"status", "busy">>>>
<1>1. es \in Seq(Kinds \X Readinesses) /\ es # <<>>
  <2>1. /\ <<"started", "">> \in Kinds \X Readinesses
        /\ <<"status", "busy">> \in Kinds \X Readinesses
    BY DEF Kinds, Readinesses
  <2> QED BY <2>1, EventLists
<1> HIDE DEF es
<1>2. r \in sending /\ Emit(r, es)
      /\ UNCHANGED <<claim, owner, live, alive, sending, late, ingested, copy>>
  BY DEF StartTurn, wire, es
<1> QED BY <1>1, <1>2, EmitStep

LEMMA EndTurnStep ==
    ASSUME EventsInv, NEW r \in Runtimes, NEW o \in {"settled", "failed"},
           NEW recorded \in BOOLEAN, EndTurn(r, o, recorded)
    PROVE  EventsInv'
<1> DEFINE es == <<<<o, "">>, <<"status", "ready">>>>
<1>1. es \in Seq(Kinds \X Readinesses) /\ es # <<>>
  <2>1. /\ <<o, "">> \in Kinds \X Readinesses
        /\ <<"status", "ready">> \in Kinds \X Readinesses
    BY DEF Kinds, Readinesses
  <2> QED BY <2>1, EventLists
<1> HIDE DEF es
<1>2. r \in sending /\ Emit(r, es)
      /\ UNCHANGED <<claim, owner, live, alive, sending, late, ingested, copy>>
  BY DEF EndTurn, wire, es
<1> QED BY <1>1, <1>2, EmitStep

LEMMA BlockStep ==
    ASSUME EventsInv, NEW r \in Runtimes, Block(r)
    PROVE  EventsInv'
<1>1. PICK b \in {"ready", "blocked"} : Emit(r, <<<<"status", b>>>>)
  BY DEF Block
<1> DEFINE es == <<<<"status", b>>>>
<1>2. es \in Seq(Kinds \X Readinesses) /\ es # <<>>
  <2>1. <<"status", b>> \in Kinds \X Readinesses
    BY DEF Kinds, Readinesses
  <2> QED BY <2>1, EventLists
<1>3. r \in sending /\ UNCHANGED <<claim, owner, live, alive, sending, late, ingested, copy>>
  BY DEF Block, wire
<1>4. Emit(r, es)
  BY <1>1
<1> HIDE DEF es
<1> QED BY <1>2, <1>3, <1>4, EmitStep

\* A new runtime finds nobody alive, nobody sending, and its events are the
\* first: everything late is of a runtime that owns nothing any more.
LEMMA PrepareStep ==
    ASSUME EventsInv, NEW r \in Runtimes, Prepare(r)
    PROVE  EventsInv'
<1> DEFINE es == <<<<"ready", "">>>>
<1>1. es \in Seq(Kinds \X Readinesses) /\ es # <<>>
  <2>1. <<"ready", "">> \in Kinds \X Readinesses
    BY DEF Kinds, Readinesses
  <2> QED BY <2>1, EventLists
<1> HIDE DEF es
<1>2. /\ Emit(r, es) /\ owner.id = r - 1 /\ owner.id \notin alive
      /\ owner' = [id |-> r, claim |-> claim, state |-> "starting", readiness |-> "", at |-> 0]
      /\ alive' = alive \cup {r} /\ sending' = sending \cup {r}
      /\ UNCHANGED <<claim, live, late, ingested, copy>>
  BY DEF Prepare, wire, es
<1>3. r \in Nat /\ r \in 0..MaxRuntimes /\ owner.id \in Nat /\ owner.id < r /\ claim \in Nat
  <2>1. owner.id \in Nat /\ claim \in Nat
    BY RecordTyped DEF EventsInv, OrderTyped
  <2>2. owner.id = r - 1
    BY <1>2
  <2> QED BY <2>1, <2>2, BoundsAssumption DEF Runtimes
<1>4. /\ owner'.id = r /\ owner'.claim = claim /\ owner'.at = 0 /\ owner'.readiness = ""
      /\ claim' = claim /\ copy' = copy
  BY <1>2
<1>5. alive = {} /\ sending = {} /\ \A s \in Runtimes : queue[s] = <<>>
  BY <1>2 DEF EventsInv, OneRuntime
<1>6. /\ clock' \in Nat /\ clock <= clock' /\ queue' \in [Runtimes -> Seq(Events)]
      /\ \A s \in Runtimes \ {r} : queue'[s] = queue[s]
      /\ QueueInOrder'
      /\ \A e \in Events : Behind(e) => Behind(e)'
  <2>1. Emit(r, es)
    BY <1>2
  <2>2. owner.id <= r /\ r \in Nat
    BY <1>3
  <2>3. owner.id <= owner'.id /\ owner'.id \in Nat
    BY <1>4, <2>2
  <2> QED BY <1>1, <2>1, <2>3, EmittedInOrder
<1>7. owner' \in Records
  BY <1>2, <1>3 DEF Records
<1>8. OrderTyped'
  BY <1>2, <1>6, <1>7 DEF EventsInv, OrderTyped
<1>9. OneRuntime'
  <2>1. alive' = {r} /\ sending' = {r}
    BY <1>2, <1>5
  <2>2. owner'.claim <= claim'
    <3>1. claim <= claim
      BY <1>3
    <3> QED BY <1>4, <3>1
  <2> QED BY <1>4, <1>5, <1>6, <2>1, <2>2 DEF OneRuntime
<1>10. CopyIsOlder'
  <2>1. copy.id <= owner.id /\ copy.id \in Nat
    BY RecordTyped DEF EventsInv, OrderTyped, CopyIsOlder
  <2>2. copy'.id <= owner'.id /\ copy'.id # owner'.id
    <3>1. copy.id <= r /\ copy.id # r
      BY <1>3, <2>1
    <3> QED BY <1>4, <3>1
  <2> QED BY <2>2 DEF CopyIsOlder
<1>11. \A e \in (ingested \cup late)' : Behind(e)'
  BY <1>2, <1>6 DEF EventsInv, OrderTyped
<1>12. \A e \in ingested \cup late : e.rt \in Nat /\ e.rt < r
  <2> TAKE e \in ingested \cup late
  <2>1. e \in Events /\ Behind(e)
    BY DEF EventsInv, OrderTyped
  <2>2. e.rt \in Nat /\ e.rt <= owner.id
    BY <2>1, EventTyped DEF Behind
  <2> QED BY <1>3, <2>2
<1>13. \A e \in late' : NextInLine(e)'
  <2> TAKE e \in late'
  <2>1. e.rt \in Nat /\ e.rt < r
    BY <1>2, <1>12
  <2>2. e.rt # owner'.id
    <3>1. e.rt # r
      BY <1>3, <2>1
    <3> QED BY <1>4, <3>1
  <2> QED BY <2>2 DEF NextInLine, FromOwner
<1>14. TimesAreIngested'
  BY <1>2, <1>4 DEF EventsInv, TimesAreIngested
<1>15. ReadinessIsTheOwners'
  <2>1. \A e \in ingested' : e.rt # owner'.id
    <3> TAKE e \in ingested'
    <3>1. e.rt \in Nat /\ e.rt < r
      BY <1>2, <1>12
    <3>2. e.rt # r
      BY <1>3, <3>1
    <3> QED BY <1>4, <3>2
  <2>2. {e \in ingested' : e.rt = owner'.id /\ Readiness(e) # ""} = {}
    BY <2>1
  <2> QED BY <1>4, <2>2 DEF ReadinessIsTheOwners, Readiness
<1> QED BY <1>6, <1>8, <1>9, <1>10, <1>11, <1>13, <1>14, <1>15 DEF EventsInv

\* A step that changes nothing the order of events depends on.
LEMMA QuietStep ==
    ASSUME EventsInv,
           UNCHANGED <<clock, claim, owner, copy, live, alive, sending, queue, late, ingested>>
    PROVE  EventsInv'
<1>1. OrderTyped' /\ OneRuntime' /\ CopyIsOlder' /\ QueueInOrder'
  BY DEF EventsInv, OrderTyped, OneRuntime, CopyIsOlder, QueueInOrder
<1>2. (\A e \in ingested \cup late : Behind(e))'
  BY DEF EventsInv, Behind
<1>3. (\A e \in late : NextInLine(e))'
  BY DEF EventsInv, NextInLine, FromOwner
<1>4. TimesAreIngested' /\ ReadinessIsTheOwners'
  BY DEF EventsInv, TimesAreIngested, ReadinessIsTheOwners, Readiness
<1> QED BY <1>1, <1>2, <1>3, <1>4 DEF EventsInv

\* A saved record with the same readiness is the same to everything here.
LEMMA ReadinessKept ==
    ASSUME EventsInv, UNCHANGED <<live, ingested>>,
           owner'.id = owner.id, owner'.at = owner.at, owner'.readiness = owner.readiness
    PROVE  TimesAreIngested' /\ ReadinessIsTheOwners'
BY DEF EventsInv, TimesAreIngested, ReadinessIsTheOwners, Readiness

\* The first of the events that wait is its runtime's, which owns the item, and
\* the others that may be late and new are none.
LEMMA HeadIsNext ==
    ASSUME EventsInv, NEW r \in Runtimes, queue[r] # <<>>
    PROVE  /\ r = owner.id /\ r \in sending
           /\ Head(queue[r]) \in Events /\ Head(queue[r]).rt = r
           /\ Head(queue[r]).at # 0 /\ Behind(Head(queue[r]))
           /\ FromOwner(Head(queue[r])) /\ Head(queue[r]) \notin ingested =>
                 /\ \A f \in ingested : f.at < Head(queue[r]).at
                 /\ \A f \in late \ ingested : f.rt = r => f = Head(queue[r])
<1> DEFINE h == Head(queue[r])
<1>1. r \in sending /\ r = owner.id
  BY DEF EventsInv, OneRuntime
<1>2. queue[r] \in Seq(Events)
  BY DEF EventsInv, OrderTyped
<1>3. h \in Events /\ h = queue[r][1] /\ 1 \in DOMAIN queue[r]
  BY <1>2
<1>4. h.rt = r /\ h.at \in 1..clock
  BY <1>3 DEF EventsInv, QueueInOrder
<1>5. clock \in Nat /\ r \in Nat
  BY BoundsAssumption DEF EventsInv, OrderTyped, Runtimes
<1>6. Behind(h)
  <2>1. h.rt <= owner.id
    BY <1>1, <1>4, <1>5
  <2>2. ASSUME NEW s \in Runtimes, NEW k \in DOMAIN queue[s]
        PROVE  h.at < queue[s][k].at \/ (k = 1 /\ h = queue[s][1])
    <3>1. CASE s = r
      <4>1. CASE k = 1
        BY <1>3, <3>1, <4>1
      <4>2. CASE k # 1
        <5>1. 1 < k
          BY <1>2, <2>2, <3>1, <4>2
        <5> QED BY <1>3, <2>2, <3>1, <5>1 DEF EventsInv, QueueInOrder
      <4> QED BY <4>1, <4>2
    <3>2. CASE s # r
      <4>1. queue[s] = <<>>
        BY <1>1, <3>2 DEF EventsInv, OneRuntime
      <4> QED BY <2>2, <4>1
    <3> QED BY <3>1, <3>2
  <2> QED BY <1>4, <2>1, <2>2 DEF Behind
<1>7. ASSUME FromOwner(h), h \notin ingested, NEW f \in ingested PROVE f.at < h.at
  BY <1>3, <1>7 DEF EventsInv, Behind
<1>8. ASSUME FromOwner(h), h \notin ingested, NEW f \in late \ ingested, f.rt = r PROVE f = h
  <2>1. FromOwner(f) /\ NextInLine(f)
    BY <1>4, <1>8 DEF FromOwner, EventsInv
  <2> QED BY <1>8, <2>1 DEF NextInLine
<1>9. h.at # 0
  BY <1>4, <1>5
<1> QED BY <1>1, <1>3, <1>4, <1>6, <1>7, <1>8, <1>9

\* A queue that is emptied, or whose first event is taken, keeps its order.
LEMMA ShorterQueuesKeepOrder ==
    ASSUME EventsInv, UNCHANGED clock, owner'.id = owner.id,
           queue' \in [Runtimes -> Seq(Events)],
           \A s \in Runtimes : \/ queue'[s] \in {queue[s], <<>>}
                               \/ queue[s] # <<>> /\ queue'[s] = Tail(queue[s])
    PROVE  QueueInOrder' /\ \A e \in Events : Behind(e) => Behind(e)'
<1>1. ASSUME NEW s \in Runtimes, NEW k \in DOMAIN queue'[s]
      PROVE  \/ queue'[s] = queue[s] /\ k \in DOMAIN queue[s]
             \/ /\ k + 1 \in DOMAIN queue[s] /\ queue'[s][k] = queue[s][k + 1] /\ k \in Nat \ {0}
                /\ \A j \in DOMAIN queue'[s] :
                      j \in Nat /\ j + 1 \in DOMAIN queue[s] /\ queue'[s][j] = queue[s][j + 1]
  <2>1. queue[s] \in Seq(Events)
    BY DEF EventsInv, OrderTyped
  <2>2. CASE queue'[s] = queue[s]
    BY <1>1, <2>2
  <2>3. CASE queue'[s] = <<>>
    BY <1>1, <2>3
  <2>4. CASE queue[s] # <<>> /\ queue'[s] = Tail(queue[s])
    <3>1. /\ Tail(queue[s]) \in Seq(Events) /\ Len(Tail(queue[s])) = Len(queue[s]) - 1
          /\ \A j \in 1..Len(Tail(queue[s])) : Tail(queue[s])[j] = queue[s][j + 1]
      BY <2>1, <2>4, HeadTailProperties
    <3>2. DOMAIN queue'[s] = 1..(Len(queue[s]) - 1) /\ DOMAIN queue[s] = 1..Len(queue[s])
          /\ Len(queue[s]) \in Nat
      BY <2>1, <2>4, <3>1
    <3>3. \A j \in DOMAIN queue'[s] :
             j \in Nat \ {0} /\ j + 1 \in DOMAIN queue[s] /\ queue'[s][j] = queue[s][j + 1]
      BY <2>4, <3>1, <3>2
    <3> QED BY <1>1, <3>3
  <2> QED BY <2>2, <2>3, <2>4
<1>2. QueueInOrder'
  <2> SUFFICES ASSUME NEW s \in Runtimes, NEW k \in DOMAIN queue'[s]
               PROVE  /\ queue'[s][k].rt = s /\ queue'[s][k].at \in 1..clock'
                      /\ \A j \in DOMAIN queue'[s] : j < k => queue'[s][j].at < queue'[s][k].at
    BY DEF QueueInOrder
  <2>1. CASE queue'[s] = queue[s] /\ k \in DOMAIN queue[s]
    BY <2>1 DEF EventsInv, QueueInOrder
  <2>2. CASE ~(queue'[s] = queue[s] /\ k \in DOMAIN queue[s])
    <3>1. /\ k + 1 \in DOMAIN queue[s] /\ queue'[s][k] = queue[s][k + 1] /\ k \in Nat
          /\ \A j \in DOMAIN queue'[s] :
                j \in Nat /\ j + 1 \in DOMAIN queue[s] /\ queue'[s][j] = queue[s][j + 1]
      BY <1>1, <2>2
    <3>2. queue'[s][k].rt = s /\ queue'[s][k].at \in 1..clock'
      BY <3>1 DEF EventsInv, QueueInOrder
    <3>3. ASSUME NEW j \in DOMAIN queue'[s], j < k PROVE queue'[s][j].at < queue'[s][k].at
      <4>1. j + 1 < k + 1 /\ j + 1 \in DOMAIN queue[s] /\ queue'[s][j] = queue[s][j + 1]
        BY <3>1, <3>3
      <4> QED BY <3>1, <4>1 DEF EventsInv, QueueInOrder
    <3> QED BY <3>2, <3>3
  <2> QED BY <2>1, <2>2
<1>3. ASSUME NEW e \in Events, Behind(e), NEW s \in Runtimes, NEW k \in DOMAIN queue'[s]
      PROVE  e.at < queue'[s][k].at \/ (k = 1 /\ e = queue'[s][1])
  <2>1. CASE queue'[s] = queue[s] /\ k \in DOMAIN queue[s]
    BY <1>3, <2>1 DEF Behind
  <2>2. CASE ~(queue'[s] = queue[s] /\ k \in DOMAIN queue[s])
    <3>1. k + 1 \in DOMAIN queue[s] /\ queue'[s][k] = queue[s][k + 1] /\ k \in Nat \ {0}
      BY <1>1, <1>3, <2>2
    <3>2. e.at < queue[s][k + 1].at \/ k + 1 = 1
      BY <1>3, <3>1 DEF Behind
    <3> QED BY <3>1, <3>2
  <2> QED BY <2>1, <2>2
<1>4. ASSUME NEW e \in Events, Behind(e) PROVE Behind(e)'
  <2>1. e.rt <= owner'.id /\ e.at \in 1..clock'
    BY <1>4 DEF Behind
  <2> QED BY <1>3, <1>4, <2>1 DEF Behind
<1> QED BY <1>2, <1>4

\* A record with the readiness of a later event is no older than a host's copy.
LEMMA CopyStaysOlder ==
    ASSUME EventsInv, UNCHANGED copy, owner' \in Records,
           owner'.id = owner.id, owner'.claim = owner.claim, owner.at <= owner'.at,
           owner'.at = owner.at => owner'.readiness = owner.readiness
    PROVE  CopyIsOlder'
<1>1. copy.at \in Nat /\ owner.at \in Nat /\ owner'.at \in Nat
  BY RecordTyped DEF EventsInv, OrderTyped
<1>2. copy.id <= owner'.id
  BY DEF EventsInv, CopyIsOlder
<1>3. ASSUME copy # NoCopy, copy.id = owner.id
      PROVE  /\ copy.claim = owner'.claim /\ copy.at <= owner'.at
             /\ copy.at = owner'.at => copy.readiness = owner'.readiness
  <2>1. /\ copy.claim = owner.claim /\ copy.at <= owner.at
        /\ copy.at = owner.at => copy.readiness = owner.readiness
    BY <1>3 DEF EventsInv, CopyIsOlder
  <2>2. copy.at <= owner'.at /\ (copy.at = owner'.at => copy.at = owner.at /\ owner'.at = owner.at)
    BY <1>1, <2>1
  <2> QED BY <2>1, <2>2
<1> QED BY <1>2, <1>3 DEF CopyIsOlder

\* A driver is answered: the event it sent is the next of the owner's.
LEMMA SubmitStep ==
    ASSUME EventsInv, Retries = TRUE, NEW r \in Runtimes, Submit(r)
    PROVE  EventsInv'
<1> DEFINE e == Head(queue[r])
<1>1. /\ queue[r] # <<>> /\ Ingest(e)
      /\ IF ~FromOwner(e)
         THEN queue' = [queue EXCEPT ![r] = <<>>] /\ sending' = sending \ {r}
         ELSE queue' = [queue EXCEPT ![r] = Tail(@)] /\ UNCHANGED sending
      /\ UNCHANGED <<clock, claim, alive, late, copy>>
  BY DEF Submit
<1>2. /\ r = owner.id /\ r \in sending /\ e \in Events /\ e.rt = r /\ e.at # 0 /\ Behind(e)
      /\ FromOwner(e) /\ e \notin ingested => \A f \in ingested : f.at < e.at
  BY <1>1, HeadIsNext
<1> HIDE DEF e
<1>3. /\ live' \in Activities /\ owner' \in Records
      /\ owner'.id = owner.id /\ owner'.claim = owner.claim /\ owner.at <= owner'.at
      /\ owner'.at = owner.at => owner'.readiness = owner.readiness
      /\ ingested' = IF FromOwner(e) THEN ingested \cup {e} ELSE ingested
      /\ TimesAreIngested' /\ ReadinessIsTheOwners'
  BY <1>1, <1>2, IngestedInOrder
<1>4. queue \in [Runtimes -> Seq(Events)]
  BY DEF EventsInv, OrderTyped
<1>5. queue' \in [Runtimes -> Seq(Events)]
  <2>1. Tail(queue[r]) \in Seq(Events) /\ <<>> \in Seq(Events)
    BY <1>1, <1>4
  <2> QED BY <1>1, <1>4, <2>1
<1>6. /\ \A s \in Runtimes \ {r} : queue'[s] = queue[s]
      /\ queue'[r] = IF FromOwner(e) THEN Tail(queue[r]) ELSE <<>>
  BY <1>1, <1>4
<1>7. QueueInOrder' /\ \A f \in Events : Behind(f) => Behind(f)'
  BY <1>1, <1>3, <1>5, <1>6, ShorterQueuesKeepOrder
<1>8. OrderTyped'
  BY <1>1, <1>2, <1>3, <1>5 DEF EventsInv, OrderTyped
<1>9. OneRuntime'
  BY <1>1, <1>3, <1>6 DEF EventsInv, OneRuntime
<1>10. CopyIsOlder'
  BY <1>1, <1>3, CopyStaysOlder
<1>11. \A f \in (ingested \cup late)' : Behind(f)'
  <2> TAKE f \in (ingested \cup late)'
  <2>1. f \in Events /\ Behind(f)
    BY <1>1, <1>2, <1>3 DEF EventsInv, OrderTyped
  <2> QED BY <1>7, <2>1
<1>12. \A f \in late' : NextInLine(f)'
  <2> TAKE f \in late'
  <2>1. NextInLine(f)
    BY <1>1 DEF EventsInv
  <2>2. CASE f \in ingested
    BY <1>3, <2>2 DEF NextInLine
  <2>3. CASE ~FromOwner(f)
    BY <1>1, <1>3, <2>3 DEF NextInLine, FromOwner
  <2>4. CASE f \notin ingested /\ FromOwner(f)
    <3>1. f.rt = r /\ FromOwner(e)
      BY <1>2, <2>4 DEF FromOwner
    <3>2. f = e
      BY <1>1, <2>1, <2>4, <3>1 DEF NextInLine, e
    <3> QED BY <1>3, <3>1, <3>2 DEF NextInLine
  <2> QED BY <2>2, <2>3, <2>4
<1> QED BY <1>3, <1>7, <1>8, <1>9, <1>10, <1>11, <1>12 DEF EventsInv

\* A late event arrives: it is still the newest, or was committed before, or
\* comes from no owner.
LEMMA ArriveStep ==
    ASSUME EventsInv, NEW e \in late, Arrive(e)
    PROVE  EventsInv'
<1>1. /\ late' = late \ {e} /\ Ingest(e)
      /\ UNCHANGED <<clock, claim, alive, sending, queue, copy>>
  BY DEF Arrive, runtime
<1>2. /\ e \in Events /\ Behind(e) /\ NextInLine(e)
      /\ e.at # 0
  <2>1. e \in Events /\ Behind(e) /\ NextInLine(e) /\ clock \in Nat
    BY DEF EventsInv, OrderTyped
  <2>2. e.at \in 1..clock
    BY <2>1 DEF Behind
  <2> QED BY <2>1, <2>2
<1>3. FromOwner(e) /\ e \notin ingested => \A f \in ingested : f.at < e.at
  BY <1>2 DEF NextInLine
<1>4. /\ live' \in Activities /\ owner' \in Records
      /\ owner'.id = owner.id /\ owner'.claim = owner.claim /\ owner.at <= owner'.at
      /\ owner'.at = owner.at => owner'.readiness = owner.readiness
      /\ ingested' = IF FromOwner(e) THEN ingested \cup {e} ELSE ingested
      /\ TimesAreIngested' /\ ReadinessIsTheOwners'
  BY <1>1, <1>2, <1>3, IngestedInOrder
<1>5. OrderTyped'
  BY <1>1, <1>2, <1>4 DEF EventsInv, OrderTyped
<1>6. OneRuntime' /\ QueueInOrder'
  BY <1>1, <1>4 DEF EventsInv, OneRuntime, QueueInOrder
<1>7. CopyIsOlder'
  BY <1>1, <1>4, CopyStaysOlder
<1>8. \A f \in (ingested \cup late)' : Behind(f)'
  <2> TAKE f \in (ingested \cup late)'
  <2>1. Behind(f)
    BY <1>1, <1>2, <1>4 DEF EventsInv
  <2> QED BY <1>1, <1>4, <2>1 DEF Behind
<1>9. \A f \in late' : NextInLine(f)'
  <2> TAKE f \in late'
  <2>1. f \in late /\ f # e /\ NextInLine(f)
    BY <1>1 DEF EventsInv
  <2>2. CASE f \in ingested
    BY <1>4, <2>2 DEF NextInLine
  <2>3. CASE ~FromOwner(f)
    BY <1>1, <1>4, <2>3 DEF NextInLine, FromOwner
  <2>4. CASE f \notin ingested /\ FromOwner(f)
    <3>1. ~(FromOwner(e) /\ e \notin ingested)
      BY <1>2, <2>1, <2>4 DEF NextInLine, FromOwner
    <3>2. ingested' = ingested
      BY <1>4, <3>1
    <3> QED BY <1>1, <1>4, <2>1, <2>4, <3>2 DEF NextInLine
  <2> QED BY <2>2, <2>3, <2>4
<1> QED BY <1>4, <1>5, <1>6, <1>7, <1>8, <1>9 DEF EventsInv

\* No answer came: the event stays the next that its driver sends.
LEMMA SubmitFailsStep ==
    ASSUME EventsInv, Retries = TRUE, NEW r \in Runtimes, SubmitFails(r)
    PROVE  EventsInv'
<1> DEFINE h == Head(queue[r])
<1>1. /\ queue[r] # <<>> /\ late' \in {late, late \cup {h}}
      /\ UNCHANGED <<clock, claim, owner, live, alive, sending, queue, ingested, copy>>
  BY DEF SubmitFails
<1>2. /\ r = owner.id /\ h \in Events /\ h.rt = r /\ Behind(h)
      /\ FromOwner(h) /\ h \notin ingested =>
            /\ \A f \in ingested : f.at < h.at
            /\ \A f \in late \ ingested : f.rt = r => f = h
  BY <1>1, HeadIsNext
<1>3. OrderTyped' /\ OneRuntime' /\ CopyIsOlder' /\ QueueInOrder'
  BY <1>1, <1>2 DEF EventsInv, OrderTyped, OneRuntime, CopyIsOlder, QueueInOrder
<1>4. TimesAreIngested' /\ ReadinessIsTheOwners'
  BY <1>1, ReadinessKept
<1>5. \A e \in (ingested \cup late)' : Behind(e)'
  <2> TAKE e \in (ingested \cup late)'
  <2>1. Behind(e)
    BY <1>1, <1>2 DEF EventsInv
  <2> QED BY <1>1, <2>1 DEF Behind
<1>6. \A e \in late' : NextInLine(e)'
  <2> TAKE e \in late'
  <2>1. CASE e \in ingested \/ ~FromOwner(e)
    BY <1>1, <2>1 DEF NextInLine, FromOwner
  <2>2. CASE ~(e \in ingested \/ ~FromOwner(e))
    <3>1. e.rt = r /\ FromOwner(h)
      BY <1>2, <2>2 DEF FromOwner
    <3>2. e = h
      <4>1. CASE e \in late
        BY <1>1, <2>2, <3>1, <4>1 DEF EventsInv, NextInLine
      <4>2. CASE e \notin late
        BY <1>1, <4>2
      <4> QED BY <4>1, <4>2
    <3>3. \A f \in late' \ ingested : f.rt = e.rt => f = e
      BY <1>1, <1>2, <2>2, <3>1, <3>2
    <3> QED BY <1>1, <1>2, <2>2, <3>1, <3>2, <3>3 DEF NextInLine
  <2> QED BY <2>1, <2>2
<1> QED BY <1>3, <1>4, <1>5, <1>6 DEF EventsInv

\* A runtime ends: of what it had to say, only the next event may still arrive.
LEMMA ExitStep ==
    ASSUME EventsInv, NEW r \in Runtimes,
           NEW recorded \in {"none", "stopped", "problem"}, Exit(r, recorded)
    PROVE  EventsInv'
<1> DEFINE h == Head(queue[r])
<1>1. /\ r \in alive /\ alive' = alive \ {r} /\ sending' = sending \ {r}
      /\ late' = IF queue[r] = <<>> THEN late ELSE late \cup {h}
      /\ queue' = [queue EXCEPT ![r] = <<>>]
      /\ copy' = IF copy.id = r THEN NoCopy ELSE copy
      /\ owner' = IF recorded # "none" /\ owner.id = r /\ owner.claim = claim
                  THEN [owner EXCEPT !.state = recorded] ELSE owner
      /\ UNCHANGED <<clock, claim, live, ingested>>
  BY DEF Exit
<1>2. queue[r] # <<>> =>
         /\ h \in Events /\ h.rt = r /\ Behind(h)
         /\ FromOwner(h) /\ h \notin ingested =>
               /\ \A f \in ingested : f.at < h.at
               /\ \A f \in late \ ingested : f.rt = r => f = h
  BY HeadIsNext
<1>3. queue \in [Runtimes -> Seq(Events)] /\ owner \in Records /\ copy \in Records
  BY DEF EventsInv, OrderTyped
<1>4. owner.id = r /\ sending' = {} /\ \A s \in Runtimes : queue'[s] = <<>>
  BY <1>1, <1>3 DEF EventsInv, OneRuntime
<1>5. /\ owner' \in Records /\ owner'.id = owner.id /\ owner'.claim = owner.claim
      /\ owner'.at = owner.at /\ owner'.readiness = owner.readiness
  BY <1>1, <1>3 DEF Records
<1>6. queue' \in [Runtimes -> Seq(Events)]
  BY <1>1, <1>3, EmptySeq
<1>7. NoCopy \in Records /\ NoCopy.id = 0
  BY BoundsAssumption DEF NoCopy, NoOwner, Records
<1>8. OrderTyped'
  BY <1>1, <1>2, <1>5, <1>6, <1>7 DEF EventsInv, OrderTyped
<1>9. OneRuntime'
  BY <1>1, <1>4, <1>5 DEF EventsInv, OneRuntime
<1>10. CopyIsOlder'
  <2>1. CASE copy' = NoCopy
    <3>1. 0 <= owner'.id
      BY <1>5, RecordTyped
    <3> QED BY <1>7, <2>1, <3>1 DEF CopyIsOlder, NoCopy, NoOwner
  <2>2. CASE copy' = copy
    BY <1>5, <2>2 DEF EventsInv, CopyIsOlder, NoCopy, NoOwner
  <2> QED BY <1>1, <2>1, <2>2
<1>11. QueueInOrder' /\ \A f \in Events : Behind(f) => Behind(f)'
  BY <1>1, <1>4, <1>5, <1>6, ShorterQueuesKeepOrder
<1>12. \A e \in (ingested \cup late)' : Behind(e)'
  <2> TAKE e \in (ingested \cup late)'
  <2>1. e \in Events /\ Behind(e)
    BY <1>1, <1>2 DEF EventsInv, OrderTyped
  <2> QED BY <1>11, <2>1
<1>13. \A e \in late' : NextInLine(e)'
  <2> TAKE e \in late'
  <2>1. CASE e \in ingested \/ ~FromOwner(e)
    BY <1>1, <1>5, <2>1 DEF NextInLine, FromOwner
  <2>2. CASE ~(e \in ingested \/ ~FromOwner(e))
    <3>1. e.rt = r
      BY <1>4, <2>2 DEF FromOwner
    <3>2. /\ \A f \in ingested : f.at < e.at
          /\ \A f \in late' \ ingested : f.rt = e.rt => f = e
      <4>1. CASE queue[r] # <<>>
        <5>1. FromOwner(h)
          BY <1>2, <2>2, <3>1, <4>1 DEF FromOwner
        <5>2. e = h
          <6>1. CASE e \in late
            BY <2>2, <3>1, <4>1, <6>1 DEF EventsInv, NextInLine
          <6>2. CASE e \notin late
            BY <1>1, <6>2
          <6> QED BY <6>1, <6>2
        <5> QED BY <1>1, <1>2, <2>2, <4>1, <5>1, <5>2
      <4>2. CASE queue[r] = <<>>
        <5>1. late' = late
          BY <1>1, <4>2
        <5> QED BY <2>2, <5>1 DEF EventsInv, NextInLine
      <4> QED BY <4>1, <4>2
    <3>3. queue'[e.rt] = <<>> /\ e.rt \notin sending'
      BY <1>4, <3>1
    <3> QED BY <1>1, <3>2, <3>3 DEF NextInLine
  <2> QED BY <2>1, <2>2
<1>14. TimesAreIngested' /\ ReadinessIsTheOwners'
  BY <1>1, <1>5, ReadinessKept
<1> QED BY <1>8, <1>9, <1>10, <1>11, <1>12, <1>13, <1>14 DEF EventsInv

LEMMA HostLoadStep ==
    ASSUME EventsInv, HostLoad
    PROVE  EventsInv'
<1>1. /\ copy' = owner
      /\ UNCHANGED <<clock, claim, owner, live, alive, sending, queue, late, ingested>>
  BY DEF HostLoad, runtime, wire
<1>2. owner \in Records /\ owner.id <= owner.id /\ owner.at <= owner.at
  BY RecordTyped DEF EventsInv, OrderTyped
<1>3. CopyIsOlder'
  BY <1>1, <1>2 DEF CopyIsOlder
<1>4. OrderTyped' /\ OneRuntime' /\ QueueInOrder'
  BY <1>1, <1>2 DEF EventsInv, OrderTyped, OneRuntime, QueueInOrder
<1>5. (\A e \in ingested \cup late : Behind(e))'
  BY <1>1 DEF EventsInv, Behind
<1>6. (\A e \in late : NextInLine(e))'
  BY <1>1 DEF EventsInv, NextInLine, FromOwner
<1>7. TimesAreIngested' /\ ReadinessIsTheOwners'
  BY <1>1, ReadinessKept
<1> QED BY <1>3, <1>4, <1>5, <1>6, <1>7 DEF EventsInv

\* A host saves the record it loaded: only for the owner and the claim, and with
\* the readiness that was saved since.
LEMMA HostSaveStep ==
    ASSUME EventsInv, HostSave
    PROVE  EventsInv'
<1> DEFINE record == [copy EXCEPT !.state = "running"]
<1>1. /\ copy # NoCopy /\ copy' = NoCopy
      /\ IF copy.id = owner.id /\ copy.claim = claim THEN Save(record) ELSE UNCHANGED owner
      /\ UNCHANGED <<clock, claim, live, alive, sending, queue, late, ingested>>
  BY DEF HostSave, runtime, wire
<1>2. owner \in Records /\ copy \in Records
  BY DEF EventsInv, OrderTyped
<1>3. /\ owner' \in Records /\ owner'.id = owner.id /\ owner'.claim = owner.claim
      /\ owner'.at = owner.at /\ owner'.readiness = owner.readiness
  <2>1. CASE copy.id = owner.id /\ copy.claim = claim
    <3>1. /\ copy.claim = owner.claim /\ copy.at <= owner.at
          /\ copy.at = owner.at => copy.readiness = owner.readiness
      BY <1>1, <2>1 DEF EventsInv, CopyIsOlder
    <3>2. /\ record \in Records /\ record.id = copy.id /\ record.claim = copy.claim
          /\ record.at = copy.at /\ record.readiness = copy.readiness
      BY <1>2 DEF Records
    <3> HIDE DEF record
    <3>3. Save(record)
      BY <1>1, <2>1
    <3>4. CASE owner.at # 0
      <4>1. owner' = [record EXCEPT !.readiness = owner.readiness, !.at = owner.at]
        BY <2>1, <3>1, <3>2, <3>3, <3>4 DEF Save
      <4> QED BY <1>2, <2>1, <3>1, <3>2, <4>1 DEF Records
    <3>5. CASE owner.at = 0
      <4>1. owner' = record
        BY <3>3, <3>5 DEF Save
      <4>2. copy.at = owner.at
        BY <1>2, <3>1, <3>5, RecordTyped
      <4> QED BY <2>1, <3>1, <3>2, <4>1, <4>2
    <3> QED BY <3>4, <3>5
  <2>2. CASE ~(copy.id = owner.id /\ copy.claim = claim)
    BY <1>1, <1>2, <2>2
  <2> QED BY <2>1, <2>2
<1> HIDE DEF record
<1>4. NoCopy \in Records /\ NoCopy.id = 0
  BY BoundsAssumption DEF NoCopy, NoOwner, Records
<1>5. OrderTyped' /\ OneRuntime' /\ QueueInOrder'
  BY <1>1, <1>3, <1>4 DEF EventsInv, OrderTyped, OneRuntime, QueueInOrder
<1>6. CopyIsOlder'
  <2>1. 0 <= owner'.id
    BY <1>3, RecordTyped
  <2> QED BY <1>1, <1>4, <2>1 DEF CopyIsOlder, NoCopy, NoOwner
<1>7. (\A e \in ingested \cup late : Behind(e))'
  BY <1>1, <1>3 DEF EventsInv, Behind
<1>8. \A e \in late' : NextInLine(e)'
  BY <1>1, <1>3, LateStaysInLine DEF EventsInv
<1>9. TimesAreIngested' /\ ReadinessIsTheOwners'
  BY <1>1, <1>3, ReadinessKept
<1> QED BY <1>5, <1>6, <1>7, <1>8, <1>9 DEF EventsInv

\* With the claim gone, the owner's events are nobody's, for good.
LEMMA ReclaimStep ==
    ASSUME EventsInv, Reclaim
    PROVE  EventsInv'
<1>1. /\ claim' = claim + 1
      /\ UNCHANGED <<clock, owner, live, alive, sending, queue, late, ingested, copy>>
  BY DEF Reclaim, runtime, wire
<1>2. claim \in Nat /\ owner.claim \in Nat /\ owner.claim <= claim
  BY RecordTyped DEF EventsInv, OrderTyped, OneRuntime
<1>3. claim + 1 \in Nat /\ owner.claim <= claim + 1 /\ owner.claim # claim + 1
  BY <1>2
<1>4. OrderTyped' /\ OneRuntime' /\ CopyIsOlder' /\ QueueInOrder'
  BY <1>1, <1>3 DEF EventsInv, OrderTyped, OneRuntime, CopyIsOlder, QueueInOrder
<1>5. (\A e \in ingested \cup late : Behind(e))'
  BY <1>1 DEF EventsInv, Behind
<1>6. \A e \in late' : NextInLine(e)'
  BY <1>1, <1>3 DEF NextInLine, FromOwner
<1>7. TimesAreIngested' /\ ReadinessIsTheOwners'
  BY <1>1, ReadinessKept
<1> QED BY <1>4, <1>5, <1>6, <1>7 DEF EventsInv

----------------------------------------------------------------------------
(* The theorem *)

LEMMA EventsInit == Init => EventsInv
<1> SUFFICES ASSUME Init PROVE EventsInv
  OBVIOUS
<1>1. /\ clock = 0 /\ claim = 1 /\ owner = NoOwner /\ copy = NoOwner
      /\ live = NoActivity(0) /\ alive = {} /\ sending = {} /\ late = {} /\ ingested = {}
      /\ queue = [r \in Runtimes |-> <<>>]
  BY DEF Init, NoCopy
<1>2. NoOwner \in Records /\ NoActivity(0) \in Activities
  BY BoundsAssumption DEF NoOwner, Records, NoActivity, Activities
<1>3. queue \in [Runtimes -> Seq(Events)]
  BY <1>1, EmptySeq
<1>4. OrderTyped
  BY <1>1, <1>2, <1>3 DEF OrderTyped
<1>5. OneRuntime /\ QueueInOrder
  <2>1. owner.claim = 0 /\ \A r \in Runtimes : queue[r] = <<>>
    BY <1>1 DEF NoOwner
  <2>2. owner.claim <= claim
    BY <1>1, <2>1
  <2>3. \A r \in Runtimes : DOMAIN queue[r] = {}
    BY <2>1
  <2> QED BY <1>1, <2>1, <2>2, <2>3 DEF OneRuntime, QueueInOrder
<1>6. CopyIsOlder
  <2>1. owner.id = 0 /\ copy.id = 0 /\ copy = NoCopy
    BY <1>1 DEF NoOwner, NoCopy
  <2> QED BY <2>1 DEF CopyIsOlder
<1>7. TimesAreIngested /\ ReadinessIsTheOwners
  BY <1>1 DEF TimesAreIngested, ReadinessIsTheOwners, NoActivity, NoOwner
<1> QED BY <1>1, <1>4, <1>5, <1>6, <1>7 DEF EventsInv

LEMMA EventsStep ==
    ASSUME EventsInv, Retries = TRUE, [Next]_vars
    PROVE  EventsInv'
<1>1. CASE Next
  <2>1. ASSUME NEW r \in Runtimes, Prepare(r) PROVE EventsInv'
    BY <2>1, PrepareStep
  <2>2. ASSUME NEW r \in Runtimes, StartTurn(r) PROVE EventsInv'
    BY <2>2, StartTurnStep
  <2>3. ASSUME NEW r \in Runtimes, Block(r) PROVE EventsInv'
    BY <2>3, BlockStep
  <2>4. ASSUME NEW r \in Runtimes, Submit(r) PROVE EventsInv'
    BY <2>4, SubmitStep
  <2>5. ASSUME NEW r \in Runtimes, SubmitFails(r) PROVE EventsInv'
    BY <2>5, SubmitFailsStep
  <2>6. ASSUME NEW r \in Runtimes, NEW o \in {"settled", "failed"}, NEW recorded \in BOOLEAN,
               EndTurn(r, o, recorded)
        PROVE  EventsInv'
    BY <2>6, EndTurnStep
  <2>7. ASSUME NEW r \in Runtimes, NEW recorded \in {"none", "stopped", "problem"},
               Exit(r, recorded)
        PROVE  EventsInv'
    BY <2>7, ExitStep
  <2>8. ASSUME NEW e \in late, Arrive(e) PROVE EventsInv'
    BY <2>8, ArriveStep
  <2>9. CASE HostLoad
    BY <2>9, HostLoadStep
  <2>10. CASE HostSave
    BY <2>10, HostSaveStep
  <2>11. CASE Reclaim
    BY <2>11, ReclaimStep
  <2>12. CASE Inspect \/ Import
    BY <2>12, QuietStep DEF Inspect, Import, runtime, wire
  <2>13. ASSUME NEW grace \in BOOLEAN, ReconcileWith(grace) \/ ReconcileActionability(grace)
         PROVE  EventsInv'
    BY <2>13, QuietStep DEF ReconcileWith, ReconcileActionability, runtime, wire
  <2> QED BY <1>1, <2>1, <2>2, <2>3, <2>4, <2>5, <2>6, <2>7, <2>8, <2>9, <2>10, <2>11,
             <2>12, <2>13 DEF Next
<1>2. CASE UNCHANGED vars
  BY <1>2, QuietStep DEF vars, runtime, wire
<1> QED BY <1>1, <1>2

\* The events of a driver that retries are committed in the order in which it
\* emitted them, once each, whatever is lost, late or sent again.
THEOREM EventsInvariant ==
    ASSUME Retries = TRUE
    PROVE  Spec => []EventsInv
<1>1. Init => EventsInv
  BY EventsInit
<1>2. EventsInv /\ [Next]_vars => EventsInv'
  BY EventsStep
<1> QED BY <1>1, <1>2, PTL DEF Spec

\* The readiness of the saved record is the newest that its own runtime
\* reported and the daemon committed (IngestRuntimeEvent, StoreAgentRuntimeSave),
\* when the driver retries.
THEOREM ReadinessIsCurrent ==
    ASSUME Retries = TRUE
    PROVE  Spec => []ReadinessIsTheOwners
<1>1. EventsInv => ReadinessIsTheOwners
  BY DEF EventsInv
<1> QED BY <1>1, EventsInvariant, PTL

----------------------------------------------------------------------------
(***************************************************************************)
(* ConversationImport                                                      *)
(***************************************************************************)

----------------------------------------------------------------------------
(* Pieces of a file *)

\* t holds the records of s behind the first a, up to the first b.
Piece(t, s, a, b) ==
    /\ t \in Seq(Nat) /\ s \in Seq(Nat) /\ a \in Nat /\ b \in Nat
    /\ a <= b /\ b <= Len(s) /\ Len(t) = b - a
    /\ \A k \in 1..(b - a) : t[k] = s[a + k]

LEMMA NoPiece ==
    ASSUME NEW s \in Seq(Nat), NEW a \in Nat, a <= Len(s)
    PROVE  Piece(<<>>, s, a, a)
BY DEF Piece

\* Appending to the file leaves the pieces of it as they are.
LEMMA PieceStays ==
    ASSUME NEW s, NEW x \in Nat, NEW t, NEW a, NEW b, Piece(t, s, a, b)
    PROVE  Piece(t, Append(s, x), a, b)
<1>1. /\ Append(s, x) \in Seq(Nat) /\ Len(Append(s, x)) = Len(s) + 1
      /\ \A k \in 1..Len(s) : Append(s, x)[k] = s[k]
  BY AppendProperties DEF Piece
<1>2. \A k \in 1..(b - a) : a + k \in 1..Len(s)
  BY DEF Piece
<1> QED BY <1>1, <1>2 DEF Piece

LEMMA PieceNext ==
    ASSUME NEW s, NEW t, NEW a, NEW b, Piece(t, s, a, b), b < Len(s)
    PROVE  Piece(Append(t, s[b + 1]), s, a, b + 1)
<1>1. s[b + 1] \in Nat
  <2>1. b + 1 \in 1..Len(s)
    BY DEF Piece
  <2> QED BY <2>1, ElementOfSeq DEF Piece
<1> DEFINE u == Append(t, s[b + 1])
<1>2. /\ u \in Seq(Nat) /\ Len(u) = Len(t) + 1 /\ u[Len(t) + 1] = s[b + 1]
      /\ \A k \in 1..Len(t) : u[k] = t[k]
  BY <1>1, AppendProperties DEF Piece
<1> HIDE DEF u
<1>3. ASSUME NEW k \in 1..((b + 1) - a) PROVE u[k] = s[a + k]
  <2>1. k \in 1..(b - a) \/ (k = (b - a) + 1 /\ a + k = b + 1)
    BY DEF Piece
  <2> QED BY <1>2, <2>1 DEF Piece
<1>4. b + 1 \in Nat /\ a <= b + 1 /\ b + 1 <= Len(s) /\ Len(u) = (b + 1) - a
  BY <1>2 DEF Piece
<1> QED BY <1>2, <1>3, <1>4 DEF Piece, u

LEMMA PiecesJoin ==
    ASSUME NEW s, NEW t, NEW u, NEW a, NEW b, Piece(t, s, 0, a), Piece(u, s, a, b)
    PROVE  Piece(t \o u, s, 0, b)
<1> DEFINE v == t \o u
<1>1. t \in Seq(Nat) /\ u \in Seq(Nat) /\ Len(t) = a /\ Len(u) = b - a /\ a \in Nat /\ b \in Nat
  BY DEF Piece
<1>2. /\ v \in Seq(Nat) /\ Len(v) = Len(t) + Len(u)
      /\ \A k \in 1..(Len(t) + Len(u)) : v[k] = IF k <= Len(t) THEN t[k] ELSE u[k - Len(t)]
  BY <1>1, ConcatProperties, Zenon
<1> HIDE DEF v
<1>3. Len(v) = b - 0
  BY <1>1, <1>2
<1>4. ASSUME NEW k \in 1..(b - 0) PROVE v[k] = s[0 + k]
  <2>1. v[k] = IF k <= a THEN t[k] ELSE u[k - a]
    BY <1>1, <1>2
  <2>2. CASE k <= a
    <3>1. k \in 1..(a - 0)
      BY <1>1, <2>2
    <3> QED BY <2>1, <2>2, <3>1 DEF Piece
  <2>3. CASE ~(k <= a)
    <3>1. k - a \in 1..(b - a) /\ a + (k - a) = k /\ 0 + k = k
      BY <1>1, <2>3
    <3>2. u[k - a] = s[a + (k - a)]
      BY <3>1 DEF Piece
    <3> QED BY <2>1, <2>3, <3>1, <3>2
  <2> QED BY <2>2, <2>3
<1>5. s \in Seq(Nat) /\ 0 \in Nat /\ 0 <= b /\ b <= Len(s)
  BY <1>1 DEF Piece
<1> QED BY <1>1, <1>2, <1>3, <1>4, <1>5 DEF Piece, v

LEMMA PrefixIsPiece ==
    ASSUME NEW s \in Seq(Nat), NEW n \in Nat, n <= Len(s)
    PROVE  Piece(Prefix(s, n), s, 0, n)
<1> DEFINE p == Prefix(s, n)
<1>1. p = SubSeq(s, 1, n)
  BY DEF Prefix, Least
<1>2. \A k \in 1..n : s[k] \in Nat
  BY ElementOfSeq
<1>3. /\ p \in Seq(Nat) /\ Len(p) = IF 1 <= n THEN n - 1 + 1 ELSE 0
      /\ \A k \in 1..(n - 1 + 1) : p[k] = s[1 + k - 1]
  BY <1>1, <1>2, SubSeqProperties
<1> HIDE DEF p
<1> QED BY <1>3 DEF Piece, p

LEMMA PieceIsPrefix ==
    ASSUME NEW s, NEW t, NEW n, Piece(t, s, 0, n)
    PROVE  t = Prefix(s, n)
<1> DEFINE p == Prefix(s, n)
<1>1. Piece(p, s, 0, n)
  BY PrefixIsPiece DEF Piece
<1> HIDE DEF p
<1>2. t \in Seq(Nat) /\ p \in Seq(Nat) /\ Len(t) = Len(p) /\ \A k \in 1..Len(t) : t[k] = p[k]
  BY <1>1 DEF Piece
<1> QED BY <1>2, SeqEqual DEF p

----------------------------------------------------------------------------
(* The inductive invariant *)

Steps == {"idle", "inspect", "checkpoint", "fingerprint", "read", "commit", "commitLast"}
Opening == {"inspect", "checkpoint", "fingerprint"}
Reading == {"read", "commit", "commitLast"}

Imports == [pc : Steps, src : Nat, size : Nat, start : Checkpoints, base : Checkpoints,
            reset : BOOLEAN, offset : Nat, facts : Seq(Nat)]

FilesTyped ==
    /\ files \in Seq(Seq(Nat)) /\ Len(files) \in Sources /\ written \in Nat
    /\ checkpoint \in [Sources -> Checkpoints] /\ index \in [src : Nat, records : Seq(Nat)]
    /\ op \in [Importers -> Imports] /\ belated \in BOOLEAN

\* Unless an import of an old file was belated, the index is about the last of the
\* files that have a checkpoint, and holds the records up to it.
IndexAgrees ==
    /\ index.src <= Current
    /\ \A s \in Sources : checkpoint[s].found => s <= index.src
    /\ index.src # 0 =>
          /\ checkpoint[index.src].found
          /\ Piece(index.records, files[index.src], 0, checkpoint[index.src].offset)

\* An import under way holds the records behind the place it started from, and
\* starts at the beginning unless it found its file's checkpoint.
Holds(o, fs, cps) ==
    /\ o.src \in 1..Len(fs)
    /\ o.start.found => cps[o.src].found
    /\ o.pc \in Opening => o.facts = <<>> /\ (o.pc = "inspect" \/ o.size <= Len(fs[o.src]))
    /\ o.pc \in Reading =>
          /\ o.base.found
          /\ Piece(o.facts, fs[o.src], o.base.offset, o.offset)
          /\ IF o.reset THEN o.base.offset = 0 ELSE o.start.found /\ o.base = o.start

Busy == {i \in Importers : op[i].pc # "idle"}

ImportsHold == \A i \in Busy : Holds(op[i], files, checkpoint)

Follows == FilesTyped /\ ImportsHold /\ (~belated => IndexAgrees)

ImportInv == replacements \in Nat /\ (replacements = 0 => Follows)

----------------------------------------------------------------------------
(* One step per action *)

\* A step of one import that saves nothing.
LEMMA ImportMoves ==
    ASSUME Follows, UNCHANGED <<files, written, checkpoint, index, belated>>,
           NEW i \in Importers, NEW o \in Imports, op' = [op EXCEPT ![i] = o],
           o.pc # "idle" => Holds(o, files, checkpoint)
    PROVE  Follows'
<1>1. /\ op' \in [Importers -> Imports] /\ op'[i] = o
      /\ \A k \in Importers \ {i} : op'[k] = op[k]
  BY DEF Follows, FilesTyped
<1>2. FilesTyped' /\ (~belated' => IndexAgrees')
  BY <1>1 DEF Follows, FilesTyped, IndexAgrees, Current
<1>3. Busy' \subseteq Busy \cup {i} /\ (i \in Busy' => o.pc # "idle")
  BY <1>1 DEF Busy
<1>4. ImportsHold'
  BY <1>1, <1>3 DEF Follows, ImportsHold
<1> QED BY <1>2, <1>4 DEF Follows

LEMMA IdleType == Idle \in Imports /\ NoCheckpoint \in Checkpoints /\ Idle.pc = "idle"
BY DEF Idle, NoCheckpoint, Imports, Checkpoints, Steps

\* The record of a busy import.
LEMMA BusyImport ==
    ASSUME Follows, NEW i \in Busy
    PROVE  /\ op[i] \in Imports /\ Holds(op[i], files, checkpoint)
           /\ files[op[i].src] \in Seq(Nat) /\ op[i].src \in Sources
<1>1. /\ op[i] \in Imports /\ Holds(op[i], files, checkpoint)
  BY DEF Follows, FilesTyped, ImportsHold, Busy
<1>2. op[i].src \in 1..Len(files) /\ files \in Seq(Seq(Nat)) /\ Len(files) \in Sources
  BY <1>1 DEF Holds, Follows, FilesTyped
<1>3. files[op[i].src] \in Seq(Nat)
  BY <1>2, ElementOfSeq
<1>4. op[i].src \in Sources
  BY <1>2, ImportBoundsAssumption DEF Sources
<1> QED BY <1>1, <1>3, <1>4

LEMMA ListStep ==
    ASSUME Follows, NEW i \in Importers, List(i)
    PROVE  Follows'
<1> DEFINE o == [Idle EXCEPT !.pc = "inspect", !.src = Current]
<1>1. op' = [op EXCEPT ![i] = o] /\ UNCHANGED <<files, written, checkpoint, index, belated>>
  BY DEF List, world, saved
<1>2. Current \in Nat \ {0}
  BY ImportBoundsAssumption DEF Follows, FilesTyped, Current, Sources
<1>3. /\ o \in Imports /\ o.pc = "inspect" /\ o.src = Current /\ o.facts = <<>>
      /\ o.start.found = FALSE
  BY <1>2, IdleType DEF Idle, NoCheckpoint, Imports, Steps
<1> HIDE DEF o
<1>4. Holds(o, files, checkpoint)
  BY <1>2, <1>3 DEF Holds, Current, Opening, Reading
<1> QED BY <1>1, <1>3, <1>4, ImportMoves

LEMMA InspectStep ==
    ASSUME Follows, NEW i \in Importers, InspectFile(i)
    PROVE  Follows'
<1> DEFINE o == [op[i] EXCEPT !.pc = "checkpoint", !.size = Len(files[op[i].src])]
<1>1. i \in Busy
  BY DEF InspectFile, Busy
<1>2. /\ op[i] \in Imports /\ Holds(op[i], files, checkpoint)
      /\ Len(files[op[i].src]) \in Nat
  BY <1>1, BusyImport
<1>3. op' = [op EXCEPT ![i] = o] /\ UNCHANGED <<files, written, checkpoint, index, belated>>
  BY DEF InspectFile, world, saved, Follows, FilesTyped
<1>4. /\ o \in Imports /\ o.pc = "checkpoint" /\ o.src = op[i].src /\ o.facts = op[i].facts
      /\ o.start = op[i].start /\ o.size = Len(files[op[i].src])
  BY <1>2 DEF Imports, Steps
<1> HIDE DEF o
<1>5. Holds(o, files, checkpoint)
  BY <1>2, <1>4 DEF Holds, Opening, Reading, InspectFile
<1> QED BY <1>2, <1>3, <1>4, <1>5, ImportMoves

LEMMA ReadCheckpointStep ==
    ASSUME Follows, NEW i \in Importers, ReadCheckpoint(i)
    PROVE  Follows'
<1> DEFINE o == [op[i] EXCEPT !.pc = "fingerprint", !.start = checkpoint[op[i].src]]
<1>1. i \in Busy /\ op[i].pc = "checkpoint"
  BY DEF ReadCheckpoint, Busy
<1>2. /\ op[i] \in Imports /\ Holds(op[i], files, checkpoint)
      /\ op[i].src \in Sources
  BY <1>1, BusyImport
<1>3. op' = [op EXCEPT ![i] = o] /\ UNCHANGED <<files, written, checkpoint, index, belated>>
  BY DEF ReadCheckpoint, world, saved, Follows, FilesTyped
<1>4. checkpoint[op[i].src] \in Checkpoints
  BY <1>2 DEF Follows, FilesTyped
<1>5. /\ o \in Imports /\ o.pc = "fingerprint" /\ o.src = op[i].src /\ o.facts = op[i].facts
      /\ o.start = checkpoint[op[i].src] /\ o.size = op[i].size
  BY <1>2, <1>4 DEF Imports, Steps
<1> HIDE DEF o
<1>6. Holds(o, files, checkpoint)
  BY <1>1, <1>2, <1>5 DEF Holds, Opening, Reading
<1> QED BY <1>2, <1>3, <1>5, <1>6, ImportMoves

LEMMA FingerprintStep ==
    ASSUME Follows, NEW i \in Importers, Fingerprint(i)
    PROVE  Follows'
<1> DEFINE q == op[i]
           size == Least(Least(q.size, PrintSize),
                         IF q.start.found THEN Len(q.start.mark) ELSE PrintSize)
           mark == Prefix(files[q.src], size)
           fresh == [found |-> TRUE, offset |-> 0, mark |-> mark]
           base == IF Reset(q, mark) THEN fresh ELSE q.start
           o == [q EXCEPT !.pc = "read", !.reset = Reset(q, mark), !.base = base,
                          !.offset = base.offset]
<1>1. i \in Busy /\ q.pc = "fingerprint"
  BY DEF Fingerprint, Busy
<1>2. /\ q \in Imports /\ Holds(q, files, checkpoint)
      /\ files[q.src] \in Seq(Nat)
  BY <1>1, BusyImport
<1>3. op' = [op EXCEPT ![i] = o] /\ UNCHANGED <<files, written, checkpoint, index, belated>>
  BY DEF Fingerprint, world, saved, Follows, FilesTyped
<1>4. mark \in Seq(Nat)
  <2>1. q.size \in Nat /\ q.start \in Checkpoints /\ PrintSize \in Nat
    BY <1>2, SizesAssumption DEF Imports
  <2>2. size \in Nat
    BY <2>1 DEF Least, Checkpoints
  <2> HIDE DEF size
  <2>3. /\ Least(size, Len(files[q.src])) \in Nat
        /\ Least(size, Len(files[q.src])) <= Len(files[q.src])
    BY <1>2, <2>2 DEF Least
  <2>4. Piece(Prefix(files[q.src], Least(size, Len(files[q.src]))), files[q.src], 0,
              Least(size, Len(files[q.src])))
    BY <1>2, <2>3, PrefixIsPiece
  <2>5. Prefix(files[q.src], Least(size, Len(files[q.src]))) = mark
    BY <1>2, <2>2 DEF Prefix, Least
  <2> QED BY <2>4, <2>5 DEF Piece
<1> HIDE DEF mark, size
<1>5. fresh \in Checkpoints /\ fresh.found /\ fresh.offset = 0
  BY <1>4 DEF Checkpoints
<1> HIDE DEF fresh
<1>6. q.start \in Checkpoints /\ q.start.offset \in Nat /\ q.size \in Nat /\ q.facts = <<>>
      /\ q.size <= Len(files[q.src])
  BY <1>1, <1>2 DEF Imports, Checkpoints, Holds, Opening
<1>7. /\ base \in Checkpoints /\ base.found /\ base.offset \in Nat
      /\ base.offset <= Len(files[q.src])
      /\ IF Reset(q, mark) THEN base.offset = 0 ELSE q.start.found /\ base = q.start
  <2>1. CASE Reset(q, mark)
    BY <1>2, <1>5, <2>1
  <2>2. CASE ~Reset(q, mark)
    <3>1. q.start.found /\ ~(q.start.offset > q.size)
      BY <2>2 DEF Reset
    <3>2. q.start.offset <= Len(files[q.src])
      BY <1>2, <1>6, <3>1
    <3> QED BY <1>6, <2>2, <3>1, <3>2
  <2> QED BY <2>1, <2>2
<1>8. Reset(q, mark) \in BOOLEAN
  BY DEF Reset
<1> HIDE DEF base
<1>9. /\ o \in Imports /\ o.pc = "read" /\ o.src = q.src /\ o.facts = q.facts
      /\ o.start = q.start /\ o.base = base /\ o.offset = base.offset
      /\ o.reset = Reset(q, mark)
  BY <1>2, <1>7, <1>8 DEF Imports, Steps
<1> HIDE DEF o, q
<1>10. Piece(o.facts, files[o.src], o.base.offset, o.offset)
  BY <1>2, <1>6, <1>7, <1>9, NoPiece
<1>11. Holds(o, files, checkpoint)
  BY <1>2, <1>7, <1>9, <1>10 DEF Holds, Opening, Reading
<1> QED BY <1>3, <1>9, <1>11, ImportMoves

LEMMA ReadStep ==
    ASSUME Follows, NEW i \in Importers, Read(i)
    PROVE  Follows'
<1> DEFINE q == op[i]
           facts == Append(q.facts, files[q.src][q.offset + 1])
           o == [q EXCEPT !.facts = facts, !.offset = @ + 1,
                          !.pc = IF Len(facts) = Batch THEN "commit" ELSE "read"]
<1>1. i \in Busy /\ q.pc = "read" /\ q.offset < Len(files[q.src])
  BY DEF Read, Busy
<1>2. /\ q \in Imports /\ Holds(q, files, checkpoint)
  BY <1>1, BusyImport
<1>3. op' = [op EXCEPT ![i] = o] /\ UNCHANGED <<files, written, checkpoint, index, belated>>
  BY DEF Read, world, saved, Follows, FilesTyped
<1>4. Piece(q.facts, files[q.src], q.base.offset, q.offset)
  BY <1>1, <1>2 DEF Holds, Reading
<1>5. Piece(facts, files[q.src], q.base.offset, q.offset + 1)
  BY <1>1, <1>4, PieceNext
<1>6. facts \in Seq(Nat) /\ q.offset + 1 \in Nat
  BY <1>5 DEF Piece
<1> HIDE DEF facts
<1>7. /\ o \in Imports /\ o.pc \in Reading /\ o.src = q.src /\ o.facts = facts
      /\ o.start = q.start /\ o.base = q.base /\ o.offset = q.offset + 1 /\ o.reset = q.reset
  BY <1>2, <1>6 DEF Imports, Steps, Reading
<1> HIDE DEF o, q
<1>8. Holds(o, files, checkpoint)
  BY <1>1, <1>2, <1>5, <1>7 DEF Holds, Opening, Reading
<1> QED BY <1>2, <1>3, <1>7, <1>8, ImportMoves

LEMMA ReadEndStep ==
    ASSUME Follows, NEW i \in Importers, ReadEnd(i)
    PROVE  Follows'
<1> DEFINE q == op[i]
           o == [q EXCEPT !.pc = "commitLast"]
<1>1. i \in Busy /\ q.pc = "read"
  BY DEF ReadEnd, Busy
<1>2. /\ q \in Imports /\ Holds(q, files, checkpoint)
  BY <1>1, BusyImport
<1>3. /\ op' = [op EXCEPT ![i] = IF q.facts = <<>> THEN Idle ELSE o]
      /\ UNCHANGED <<files, written, checkpoint, index, belated>>
  BY DEF ReadEnd, world, saved, Follows, FilesTyped
<1>4. /\ o \in Imports /\ o.pc = "commitLast" /\ o.src = q.src /\ o.facts = q.facts
      /\ o.start = q.start /\ o.base = q.base /\ o.offset = q.offset /\ o.reset = q.reset
  BY <1>2 DEF Imports, Steps
<1> HIDE DEF o, q
<1>5. Holds(o, files, checkpoint)
  BY <1>1, <1>2, <1>4 DEF Holds, Opening, Reading
<1>6. CASE q.facts = <<>>
  BY <1>3, <1>6, IdleType, ImportMoves
<1>7. CASE q.facts # <<>>
  BY <1>2, <1>3, <1>4, <1>5, <1>7, ImportMoves
<1> QED BY <1>6, <1>7

LEMMA RacedStep ==
    ASSUME Follows, NEW i \in Importers, Raced(i)
    PROVE  Follows'
<1>1. op' = [op EXCEPT ![i] = Idle] /\ UNCHANGED <<files, written, checkpoint, index, belated>>
  BY DEF Raced, world, saved
<1> QED BY <1>1, IdleType, ImportMoves

\* The facts join what the index holds, or replace it, and the checkpoint moves
\* to their end.
LEMMA CommitStep ==
    ASSUME Follows, NEW i \in Importers, Commit(i)
    PROVE  Follows'
<1> DEFINE q == op[i]
           moved == [q.base EXCEPT !.offset = q.offset]
           o == [q EXCEPT !.pc = "read", !.start = moved, !.base = moved,
                          !.reset = FALSE, !.facts = <<>>]
           file == files[q.src]
<1>1. i \in Busy /\ q.pc \in {"commit", "commitLast"}
  BY DEF Commit, Busy
<1>2. /\ q \in Imports /\ Holds(q, files, checkpoint)
      /\ q.src \in Sources /\ file \in Seq(Nat)
  BY <1>1, BusyImport
<1>3. /\ checkpoint[q.src].offset = q.start.offset
      /\ index' = IF q.reset THEN [src |-> q.src, records |-> q.facts]
                             ELSE [index EXCEPT !.records = @ \o q.facts]
      /\ checkpoint' = [checkpoint EXCEPT ![q.src] = moved]
      /\ op' = [op EXCEPT ![i] = IF q.pc = "commitLast" THEN Idle ELSE o]
      /\ files' = files /\ written' = written /\ belated' = (belated \/ Overtaken(q))
  BY DEF Commit, Unmoved, world, Follows, FilesTyped
<1>4. /\ q.base \in Checkpoints /\ q.base.found /\ q.offset \in Nat /\ q.base.offset \in Nat
      /\ Piece(q.facts, file, q.base.offset, q.offset) /\ q.offset <= Len(file)
      /\ IF q.reset THEN q.base.offset = 0 ELSE q.start.found /\ q.base = q.start
      /\ q.facts \in Seq(Nat)
  BY <1>1, <1>2 DEF Holds, Reading, Imports, Checkpoints, Piece
<1>5. moved \in Checkpoints /\ moved.found /\ moved.offset = q.offset
  BY <1>4 DEF Checkpoints
<1> HIDE DEF moved
<1>6. /\ o \in Imports /\ o.pc = "read" /\ o.src = q.src /\ o.facts = <<>>
      /\ o.start = moved /\ o.base = moved /\ o.offset = q.offset /\ o.reset = FALSE
  <2>1. <<>> \in Seq(Nat) /\ "read" \in Steps /\ FALSE \in BOOLEAN
    BY DEF Steps
  <2> HIDE DEF q
  <2> QED BY <1>2, <1>5, <2>1 DEF Imports
<1> HIDE DEF o, q
<1>7. /\ checkpoint' \in [Sources -> Checkpoints] /\ checkpoint'[q.src] = moved
      /\ \A s \in Sources \ {q.src} : checkpoint'[s] = checkpoint[s]
  BY <1>2, <1>3, <1>5 DEF Follows, FilesTyped
<1>8. /\ index' \in [src : Nat, records : Seq(Nat)]
      /\ q.reset => index'.src = q.src /\ index'.records = q.facts
      /\ ~q.reset => index'.src = index.src /\ index'.records = index.records \o q.facts
  <2>1. /\ index \in [src : Nat, records : Seq(Nat)] /\ index.records \in Seq(Nat)
        /\ q.src \in Nat
    BY <1>2 DEF Follows, FilesTyped, Imports
  <2>2. index.records \o q.facts \in Seq(Nat)
    BY <1>4, <2>1, ConcatProperties, Zenon
  <2> DEFINE joined == index.records \o q.facts
  <2>3. index' = IF q.reset THEN [src |-> q.src, records |-> q.facts]
                            ELSE [index EXCEPT !.records = joined]
    BY <1>3
  <2>4. joined \in Seq(Nat)
    BY <2>2
  <2> HIDE DEF joined
  <2>5. /\ index' \in [src : Nat, records : Seq(Nat)]
        /\ q.reset => index'.src = q.src /\ index'.records = q.facts
        /\ ~q.reset => index'.src = index.src /\ index'.records = joined
    BY <1>4, <2>1, <2>3, <2>4
  <2> QED BY <2>5 DEF joined
<1>9. /\ op' \in [Importers -> Imports]
      /\ op'[i] = IF q.pc = "commitLast" THEN Idle ELSE o
      /\ \A k \in Importers \ {i} : op'[k] = op[k]
  BY <1>3, <1>6, IdleType DEF Follows, FilesTyped
<1>10. FilesTyped'
  <2>1. belated' \in BOOLEAN
    BY <1>3 DEF Follows, FilesTyped, Overtaken
  <2> QED BY <1>3, <1>7, <1>8, <1>9, <2>1 DEF Follows, FilesTyped
<1>11. ASSUME ~belated' PROVE IndexAgrees'
  <2>1. IndexAgrees /\ \A s \in Sources : s > q.src => ~checkpoint[s].found
    BY <1>3, <1>11 DEF Follows, Overtaken
  <2>2. /\ q.src \in 1..Len(files) /\ Len(files) \in Nat /\ index.src \in Nat
        /\ q.src \in Nat /\ index \in [src : Nat, records : Seq(Nat)]
        /\ index.src <= Len(files) /\ Len(files) \in Sources
    BY <1>2, <2>1 DEF Holds, Follows, FilesTyped, Sources, IndexAgrees, Current
  <2>3. index.src # 0 => index.src \in Sources
    <3>1. Sources = 1..(MaxForks + 1) /\ MaxForks \in Nat
      BY ImportBoundsAssumption DEF Sources
    <3> QED BY <2>2, <3>1
  <2>4. index.src <= q.src
    BY <2>1, <2>2, <2>3 DEF IndexAgrees
  <2>5. ASSUME ~q.reset
        PROVE  index.src = q.src /\ Piece(index.records \o q.facts, file, 0, q.offset)
    <3>1. checkpoint[q.src].found
      BY <1>2, <1>4, <2>5 DEF Holds
    <3>2. index.src = q.src
      BY <1>2, <2>1, <2>2, <2>4, <3>1 DEF IndexAgrees
    <3>3. q.base.offset = checkpoint[q.src].offset
      BY <1>3, <1>4, <2>5
    <3>4. Piece(index.records, file, 0, q.base.offset)
      BY <2>1, <2>2, <3>2, <3>3 DEF IndexAgrees
    <3> QED BY <1>4, <3>2, <3>4, PiecesJoin
  <2>6. index'.src = q.src /\ Piece(index'.records, file, 0, q.offset)
    BY <1>4, <1>8, <2>5
  <2>7. ASSUME NEW s \in Sources, checkpoint'[s].found PROVE s <= q.src
    <3>1. CASE s = q.src
      BY <2>2, <3>1
    <3>2. CASE s # q.src
      <4>1. s <= index.src /\ s \in Nat
        BY <1>7, <2>1, <2>7, <3>2 DEF IndexAgrees, Sources
      <4> QED BY <2>2, <2>4, <4>1
    <3> QED BY <3>1, <3>2
  <2>8. q.src <= Len(files)
    BY <2>2
  <2> QED BY <1>3, <1>5, <1>7, <2>6, <2>7, <2>8 DEF IndexAgrees, Current
<1>12. Busy' \subseteq Busy /\ (i \in Busy' => op'[i] = o)
  BY <1>1, <1>9, IdleType DEF Busy
<1>13. q.src \in 1..Len(files)
  BY <1>2 DEF Holds
<1>14. Holds(o, files, checkpoint')
  <2>1. Piece(<<>>, file, q.offset, q.offset)
    BY <1>2, <1>4, NoPiece
  <2> QED BY <1>5, <1>6, <1>7, <1>13, <2>1 DEF Holds, Opening, Reading
<1>15. ASSUME NEW k \in Busy \ {i} PROVE Holds(op[k], files, checkpoint')
  <2> DEFINE p == op[k]
  <2>1. Holds(p, files, checkpoint) /\ p.src \in Sources
    BY BusyImport
  <2> HIDE DEF p
  <2>2. checkpoint[p.src].found => checkpoint'[p.src].found
    BY <1>5, <1>7, <2>1
  <2>3. Holds(p, files, checkpoint')
    BY <2>1, <2>2 DEF Holds
  <2> QED BY <2>3 DEF p
<1>16. ImportsHold'
  BY <1>3, <1>8, <1>9, <1>12, <1>14, <1>15 DEF ImportsHold, Busy
<1> QED BY <1>10, <1>11, <1>16 DEF Follows

\* A file that grows, or a further file, leaves the imported parts as they are.
LEMMA FilesGrow ==
    ASSUME Follows, UNCHANGED <<checkpoint, index, belated, op>>, written' \in Nat,
           files' \in Seq(Seq(Nat)), Len(files') \in Sources, Len(files) <= Len(files'),
           \A s \in 1..Len(files) : \/ files'[s] = files[s]
                                    \/ \E x \in Nat : files'[s] = Append(files[s], x)
    PROVE  Follows'
<1>1. Len(files) \in Nat /\ Len(files') \in Nat /\ Sources \subseteq Nat
  BY DEF Follows, FilesTyped, Sources
<1>2. FilesTyped'
  BY DEF Follows, FilesTyped
<1>3. ASSUME NEW s \in 1..Len(files), NEW t, NEW a, NEW b, Piece(t, files[s], a, b)
      PROVE  Piece(t, files'[s], a, b)
  BY <1>3, PieceStays
<1>4. \A s \in 1..Len(files) : s \in 1..Len(files') /\ Len(files[s]) <= Len(files'[s])
                              /\ Len(files[s]) \in Nat /\ Len(files'[s]) \in Nat
  <2> TAKE s \in 1..Len(files)
  <2>1. s \in 1..Len(files')
    BY <1>1
  <2>2. files[s] \in Seq(Nat) /\ files'[s] \in Seq(Nat)
    BY <2>1, ElementOfSeq DEF Follows, FilesTyped
  <2>3. files'[s] = files[s] => Len(files[s]) <= Len(files'[s])
    BY <2>2
  <2>4. ASSUME NEW x \in Nat, files'[s] = Append(files[s], x) PROVE Len(files[s]) <= Len(files'[s])
    <3>1. Len(files'[s]) = Len(files[s]) + 1 /\ Len(files[s]) \in Nat
      BY <2>2, <2>4, AppendProperties
    <3> DEFINE n == Len(files[s])
    <3>2. n \in Nat => n <= n + 1
      OBVIOUS
    <3> HIDE DEF n
    <3>3. Len(files'[s]) = n + 1 /\ n \in Nat
      BY <3>1 DEF n
    <3>4. n <= Len(files'[s])
      BY <3>2, <3>3
    <3> QED BY <3>4 DEF n
  <2>5. Len(files[s]) <= Len(files'[s])
    BY <2>3, <2>4
  <2>6. Len(files[s]) \in Nat /\ Len(files'[s]) \in Nat
    BY <2>2
  <2> QED BY <2>1, <2>5, <2>6
<1>5. ASSUME ~belated' PROVE IndexAgrees'
  <2> USE <1>5
  <2>1. index.src \in Nat /\ index.src <= Len(files)
    BY DEF Follows, FilesTyped, IndexAgrees, Current
  <2>2. index.src # 0 => index.src \in 1..Len(files)
    BY <1>1, <2>1
  <2>3. index.src <= Len(files')
    BY <1>1, <2>1
  <2> QED BY <1>3, <2>2, <2>3 DEF Follows, IndexAgrees, Current
<1>6. ASSUME NEW i \in Busy PROVE Holds(op[i], files', checkpoint)
  <2> DEFINE q == op[i]
  <2>1. q \in Imports /\ Holds(q, files, checkpoint)
    BY BusyImport
  <2> HIDE DEF q
  <2>2. q.src \in 1..Len(files) /\ q.src \in 1..Len(files') /\ q.size \in Nat
    BY <1>4, <2>1 DEF Holds, Imports
  <2>3. q.size <= Len(files[q.src]) => q.size <= Len(files'[q.src])
    BY <1>4, <2>2
  <2>4. Holds(q, files', checkpoint)
    BY <1>3, <2>1, <2>2, <2>3 DEF Holds
  <2> QED BY <2>4 DEF q
<1>7. ImportsHold'
  BY <1>6 DEF Follows, ImportsHold, Busy
<1> QED BY <1>2, <1>5, <1>7 DEF Follows

LEMMA AgentAppendsStep ==
    ASSUME Follows, AgentAppends
    PROVE  Follows'
<1>1. /\ written' = written + 1 /\ files' = [files EXCEPT ![Current] = Append(@, written')]
      /\ UNCHANGED <<checkpoint, index, belated, op>>
  BY DEF AgentAppends, saved
<1>2. /\ files \in Seq(Seq(Nat)) /\ Len(files) \in Sources /\ Current \in 1..Len(files)
      /\ written' \in Nat
  BY <1>1 DEF Follows, FilesTyped, Sources, Current
<1>3. files[Current] \in Seq(Nat)
  BY <1>2, ElementOfSeq
<1>4. Append(files[Current], written') \in Seq(Nat)
  BY <1>2, <1>3
<1>5. files' \in Seq(Seq(Nat)) /\ Len(files') = Len(files)
      /\ files'[Current] = Append(files[Current], written')
      /\ \A s \in 1..Len(files) : s # Current => files'[s] = files[s]
  BY <1>1, <1>2, <1>4
<1>6. Len(files) <= Len(files)
  BY <1>2
<1> QED BY <1>1, <1>2, <1>5, <1>6, FilesGrow

LEMMA ForkStep ==
    ASSUME Follows, Fork
    PROVE  Follows'
<1> DEFINE forked == <<written'>> \o Tail(files[Current])
<1>1. /\ Len(files) <= MaxForks /\ files[Current] # <<>> /\ written' = written + 1
      /\ files' = Append(files, forked) /\ UNCHANGED <<checkpoint, index, belated, op>>
  BY DEF Fork, saved
<1>2. /\ files \in Seq(Seq(Nat)) /\ Len(files) \in Sources /\ Current \in 1..Len(files)
      /\ written' \in Nat /\ Len(files) \in Nat
  BY <1>1 DEF Follows, FilesTyped, Sources, Current
<1>3. files[Current] \in Seq(Nat)
  BY <1>2, ElementOfSeq
<1>4. forked \in Seq(Nat)
  <2>1. Tail(files[Current]) \in Seq(Nat)
    BY <1>1, <1>3, HeadTailProperties
  <2>2. <<written'>> \in Seq(Nat)
    BY <1>2
  <2> QED BY <2>1, <2>2, ConcatProperties, Zenon
<1> HIDE DEF forked
<1>5. /\ files' \in Seq(Seq(Nat)) /\ Len(files') = Len(files) + 1
      /\ \A s \in 1..Len(files) : files'[s] = files[s]
  BY <1>1, <1>2, <1>4, AppendProperties
<1>6. Len(files') \in Sources /\ Len(files) <= Len(files')
  BY <1>1, <1>2, <1>5, ImportBoundsAssumption DEF Sources
<1> QED BY <1>1, <1>2, <1>5, <1>6, FilesGrow

LEMMA CrashStep ==
    ASSUME Follows, Crash
    PROVE  Follows'
<1>1. UNCHANGED <<files, written, checkpoint, index, belated>> /\ op' = [i \in Importers |-> Idle]
  BY DEF Crash, saved
<1>2. op' \in [Importers -> Imports] /\ Busy' = {}
  BY <1>1, IdleType DEF Busy
<1> QED BY <1>1, <1>2 DEF Follows, FilesTyped, IndexAgrees, ImportsHold, Current

----------------------------------------------------------------------------
(* The theorems *)

\* A daemon that imported nothing yet, before the agent wrote anything.
LEMMA ImportInvInitially ==
    ASSUME ImportInit
    PROVE  ImportInv
<1> USE DEF ImportInit
<1>1. FilesTyped
  <2>1. 1 \in Sources
    BY ImportBoundsAssumption DEF Sources
  <2>2. files \in Seq(Seq(Nat)) /\ Len(files) = 1
    OBVIOUS
  <2>3. index \in [src : Nat, records : Seq(Nat)]
    <3>1. <<>> \in Seq(Nat) /\ index = [src |-> 0, records |-> <<>>]
      OBVIOUS
    <3> QED BY <3>1
  <2>4. /\ checkpoint \in [Sources -> Checkpoints] /\ op \in [Importers -> Imports]
        /\ written \in Nat /\ belated \in BOOLEAN
    BY IdleType
  <2> QED BY <2>1, <2>2, <2>3, <2>4 DEF FilesTyped
<1>2. IndexAgrees /\ ImportsHold
  BY IdleType DEF IndexAgrees, ImportsHold, Busy, NoCheckpoint, Current
<1> QED BY <1>1, <1>2 DEF ImportInv, Follows

\* One step per action; a file that was replaced ends what is claimed.
LEMMA ImportInvInductive ==
    ASSUME ImportInv, [ImportNext]_importVars
    PROVE  ImportInv'
<1>1. CASE Replace
  <2>1. replacements' = replacements + 1 /\ replacements \in Nat
    BY <1>1 DEF Replace, ImportInv
  <2> QED BY <2>1 DEF ImportInv
<1>2. CASE replacements' = replacements /\ ~Replace
  <2> SUFFICES ASSUME Follows PROVE Follows'
    BY <1>2 DEF ImportInv
  <2>1. CASE UNCHANGED importVars
    BY <2>1 DEF importVars, Follows, FilesTyped, IndexAgrees, ImportsHold, Busy, Current
  <2>2. ASSUME NEW i \in Importers, ImportStep(i) PROVE Follows'
    BY <2>2, ListStep, InspectStep, ReadCheckpointStep, FingerprintStep, ReadStep,
       ReadEndStep, CommitStep, RacedStep DEF ImportStep
  <2> QED BY <1>2, <2>1, <2>2, AgentAppendsStep, ForkStep, CrashStep DEF ImportNext
<1>3. Replace \/ replacements' = replacements
  BY DEF ImportNext, ImportStep, List, InspectFile, ReadCheckpoint, Fingerprint, Read, ReadEnd,
         Commit, Raced, AgentAppends, Fork, Crash, world, importVars
<1> QED BY <1>1, <1>2, <1>3

\* While no file is replaced, each import under way holds the records behind
\* where it started, whatever file it is about, and unless an old file's import
\* was saved after its fork's, the index holds the records up to the checkpoint
\* of the last file that was imported (importConversationFile, commit).
THEOREM ImportInvariant ==
    ImportSpec => []ImportInv
<1>1. ImportInit => ImportInv
  BY ImportInvInitially
<1>2. ImportInv /\ [ImportNext]_importVars => ImportInv'
  BY ImportInvInductive
<1> QED BY <1>1, <1>2, PTL DEF ImportSpec

\* Importers that race, are interrupted or read a file while it grows neither
\* lose nor repeat a record, also while the conversation moves to a fork; only an
\* import of the old file that is saved after the fork's escapes (commit,
\* errImportRaced).
THEOREM NoRecordIsLostOrRepeated ==
    ImportSpec => []IndexFollowsFile
<1>1. ImportInv => IndexFollowsFile
  <2> SUFFICES ASSUME Follows, ~belated, index.src # 0
               PROVE  /\ checkpoint[index.src].found
                      /\ index.records = Prefix(files[index.src], checkpoint[index.src].offset)
                      /\ checkpoint[index.src].offset <= Len(files[index.src])
    BY DEF ImportInv, IndexFollowsFile
  <2>1. /\ checkpoint[index.src].found
        /\ Piece(index.records, files[index.src], 0, checkpoint[index.src].offset)
    BY DEF Follows, IndexAgrees
  <2> QED BY <2>1, PieceIsPrefix DEF Piece
<1> QED BY <1>1, ImportInvariant, PTL

----------------------------------------------------------------------------
(***************************************************************************)
(* ChangeLog                                                               *)
(***************************************************************************)

----------------------------------------------------------------------------
(* Truncation *)

Entries == [revision : Nat, item : Items \cup {AllItems}]

Ascending(s) ==
    \A m, n \in 1..Len(s) : m <= n => s[m].revision <= s[n].revision

\* What truncation drops is older than all that stays, or of the revision that
\* it splits.
LEMMA TruncateKeeps ==
    ASSUME NEW s \in Seq(Entries), s # <<>>, Ascending(s)
    PROVE  LET t == Truncate(s) IN
           /\ t \in Seq(Entries) /\ Len(t) \in 1..MaxRecent /\ Ascending(t)
           /\ t[Len(t)] = s[Len(s)]
           /\ \A k \in 1..Len(t) : \E m \in 1..Len(s) : t[k] = s[m]
           /\ s[1].revision <= t[1].revision
           /\ \A m \in 1..Len(s) : \/ \E k \in 1..Len(t) : t[k] = s[m]
                                   \/ s[m].revision \in Split(s)
                                   \/ s[m].revision < t[1].revision
<1> DEFINE t == Truncate(s)
           gone == Len(s) - MaxRecent
<1>1. Len(s) \in Nat \ {0} /\ MaxRecent \in Nat \ {0} /\ DOMAIN s = 1..Len(s)
  BY EmptySeq, LogAssumption
<1>2. \A m \in 1..Len(s) : s[m] \in Entries /\ s[m].revision \in Nat
  <2>1. \A m \in 1..Len(s) : s[m] \in Entries
    BY ElementOfSeq
  <2> QED BY <2>1 DEF Entries
<1>3. CASE Len(s) <= MaxRecent
  <2>1. t = s
    BY <1>1, <1>3 DEF Truncate
  <2> HIDE DEF t
  <2>2. s[1].revision <= s[1].revision
    BY <1>1, <1>2
  <2>3. Len(s) \in 1..MaxRecent
    BY <1>1, <1>3
  <2> QED BY <2>1, <2>2, <2>3 DEF t
<1>4. CASE Len(s) > MaxRecent
  <2>1. gone \in 1..(Len(s) - 1) /\ gone + 1 \in 1..Len(s) /\ gone \in Nat /\ gone \in 1..Len(s)
    BY <1>1, <1>4
  <2>2. t = SubSeq(s, gone + 1, Len(s))
    BY <1>4 DEF Truncate
  <2>3. /\ t \in Seq(Entries) /\ Len(t) = MaxRecent
        /\ \A k \in 1..MaxRecent : t[k] = s[gone + k]
    <3>1. \A m \in (gone + 1)..Len(s) : s[m] \in Entries
      BY <1>1, <1>2, <2>1
    <3>2. /\ t \in Seq(Entries)
          /\ Len(t) = IF gone + 1 <= Len(s) THEN Len(s) - (gone + 1) + 1 ELSE 0
          /\ \A k \in 1..(Len(s) - (gone + 1) + 1) : t[k] = s[gone + 1 + k - 1]
      BY <1>1, <2>1, <2>2, <3>1, SubSeqProperties
    <3> HIDE DEF t
    <3>3. Len(s) - (gone + 1) + 1 = MaxRecent /\ gone + 1 <= Len(s)
      BY <1>1, <2>1
    <3>4. \A k \in 1..MaxRecent : gone + 1 + k - 1 = gone + k
      BY <1>1
    <3> QED BY <3>2, <3>3, <3>4
  <2> HIDE DEF t
  <2>4. \A k \in 1..MaxRecent : gone + k \in 1..Len(s)
    BY <1>1, <1>4
  <2> HIDE DEF gone
  <2>5. Ascending(t)
    <3> SUFFICES ASSUME NEW m \in 1..MaxRecent, NEW n \in 1..MaxRecent, m <= n
                 PROVE  t[m].revision <= t[n].revision
      BY <2>3 DEF Ascending
    <3>1. gone + m <= gone + n
      BY <1>1, <2>1
    <3> QED BY <2>3, <2>4, <3>1 DEF Ascending
  <2>6. 1 \in 1..MaxRecent /\ MaxRecent \in 1..MaxRecent /\ gone + MaxRecent = Len(s)
    BY <1>1 DEF gone
  <2>7. t[Len(t)] = s[Len(s)]
    BY <2>3, <2>6
  <2>8. t[1] = s[gone + 1]
    BY <2>3, <2>6
  <2>9. s[1].revision <= t[1].revision
    <3>1. 1 <= gone + 1 /\ 1 \in 1..Len(s)
      BY <1>1, <2>1
    <3> QED BY <2>1, <2>8, <3>1 DEF Ascending
  <2>10. ASSUME NEW m \in 1..Len(s)
         PROVE  \/ \E k \in 1..Len(t) : t[k] = s[m]
                \/ s[m].revision \in Split(s)
                \/ s[m].revision < t[1].revision
    <3>1. CASE m > gone
      <4>1. m - gone \in 1..MaxRecent /\ gone + (m - gone) = m
        BY <1>1, <2>1, <3>1 DEF gone
      <4> QED BY <2>3, <4>1
    <3>2. CASE m <= gone /\ ~(s[m].revision < t[1].revision)
      <4>1. gone <= gone + 1
        BY <2>1
      <4>2. s[m].revision <= s[gone].revision /\ s[gone].revision <= s[gone + 1].revision
        BY <2>1, <3>2, <4>1 DEF Ascending
      <4>3. s[gone].revision = s[m].revision /\ s[gone + 1].revision = s[m].revision
        BY <1>2, <2>1, <2>8, <3>2, <4>2
      <4>4. gone < Len(s)
        BY <1>1, <2>1
      <4> QED BY <1>1, <2>1, <4>3, <4>4 DEF Split, gone
    <3> QED BY <1>1, <2>1, <3>1, <3>2
  <2> QED BY <1>1, <2>3, <2>4, <2>5, <2>6, <2>7, <2>9, <2>10 DEF t
<1> QED BY <1>1, <1>3, <1>4

----------------------------------------------------------------------------
(* The inductive invariant *)

Moments == Nat \X Nat
Answers == [at : Moments, all : BOOLEAN, items : SUBSET (Items \cup {AllItems})]
Sending == {"send", "poll_send"}

LogTyped ==
    /\ epoch \in Nat /\ revision \in Nat \ {0}
    /\ recent \in Seq(Entries) /\ Len(recent) <= MaxRecent
    /\ changed \in [Items -> Moments]

ReadersTyped ==
    /\ phase \in [Readers -> Phases] /\ first \in [Readers -> BOOLEAN]
    /\ reply \in [Readers -> Answers] /\ cursor \in [Readers -> Moments]
    /\ told \in [Readers -> [Items -> Moments]]

\* The revisions of the log ascend to its head.
LogAscends ==
    /\ Ascending(recent)
    /\ \A k \in 1..Len(recent) : recent[k].revision \in 2..revision
    /\ revision > 1 => recent # <<>> /\ recent[Len(recent)].revision = revision

\* The last record of an item is in the log, older than the log, or was cut.
Remembered(i) ==
    \/ changed[i] \in cut
    \/ \E k \in 1..Len(recent) :
          recent[k].revision = changed[i][2] /\ recent[k].item \in {i, AllItems}
    \/ recent # <<>> /\ changed[i][2] < recent[1].revision

LogCovers ==
    \A i \in Items : /\ ~Before(Top, changed[i])
                     /\ changed[i][1] = epoch => Remembered(i)

\* What a reader is still to be told of is after its cursor, or was cut.
TellsAll(r) ==
    \A i \in Items : \/ ~Before(told[r][i], changed[i])
                     \/ Before(cursor[r], changed[i])
                     \/ changed[i] \in cut

\* The same of the cursor that the answer under way will leave.
AnswerTells(r) ==
    \A i \in Items : \/ reply[r].all \/ i \in reply[r].items \/ cursor[r] = <<0, 0>>
                     \/ ~Before(told[r][i], changed[i])
                     \/ Before(reply[r].at, changed[i])
                     \/ changed[i] \in cut

ReaderInv(r) ==
    /\ ~Before(Top, cursor[r]) /\ ~Before(Top, reply[r].at)
    /\ TellsAll(r)
    /\ phase[r] \in Sending => AnswerTells(r)

LogInv ==
    /\ LogTyped /\ ReadersTyped
    /\ LogAscends /\ LogCovers
    /\ \A r \in Readers : ReaderInv(r)

----------------------------------------------------------------------------
(* Records *)

\* The calls of record name every item of their set.
LEMMA EveryItemNamed ==
    ASSUME NEW S, S # {}, IsFiniteSet(S), NEW ids \in SetToSeqs(S)
    PROVE  ids \in Seq(S) /\ ids # <<>> /\ \A x \in S : \E k \in DOMAIN ids : ids[k] = x
<1> DEFINE n == Cardinality(S)
           D == 1..n
<1>1. n \in Nat /\ n # 0
  BY FS_CardinalityType, FS_EmptySet
<1>2. IsFiniteSet(D) /\ Cardinality(D) = n
  <2>1. 1 \in Int /\ n \in Int /\ ~(1 > n)
    BY <1>1
  <2>2. IsFiniteSet(1..n) /\ Cardinality(1..n) = IF 1 > n THEN 0 ELSE n - 1 + 1
    BY <2>1, FS_Interval
  <2>3. n - 1 + 1 = n
    BY <1>1
  <2> QED BY <2>1, <2>2, <2>3
<1>3. ids \in [D -> S] /\ \A a, b \in D : a # b => ids[a] # ids[b]
  BY DEF SetToSeqs
<1> HIDE DEF n, D
<1>4. ids \in Injection(D, S)
  BY <1>3 DEF Injection, IsInjective
<1>5. ids \in Surjection(D, S)
  BY <1>2, <1>4, FS_Injection DEF n
<1>6. \A x \in S : \E k \in D : ids[k] = x
  BY <1>5 DEF Surjection
<1>7. ids \in Seq(S) /\ ids # <<>>
  BY <1>1, <1>3 DEF D
<1> QED BY <1>3, <1>6, <1>7

\* An entry is in the log, or was dropped in the ways that readers notice.
Kept(x) ==
    \/ \E k \in 1..Len(recent') : recent'[k] = x
    \/ <<epoch, x.revision>> \in cut'
    \/ x.revision < recent'[1].revision

\* A call appends its entries under one revision, and drops what is oldest.
LEMMA AppendKeeps ==
    ASSUME LogInv, NEW ids \in Seq(Items \cup {AllItems}), ids # <<>>, AppendEntries(ids)
    PROVE  /\ epoch' = epoch /\ revision' = revision + 1 /\ cut \subseteq cut'
           /\ recent' \in Seq(Entries) /\ Len(recent') \in 1..MaxRecent
           /\ LogAscends'
           /\ \A m \in 1..Len(recent) : Kept(recent[m])
           /\ \A k \in DOMAIN ids : Kept([revision |-> revision + 1, item |-> ids[k]])
           /\ recent # <<>> => recent[1].revision <= recent'[1].revision
<1> DEFINE new == [k \in DOMAIN ids |-> [revision |-> revision + 1, item |-> ids[k]]]
           grown == recent \o new
           l == Len(recent)
           n == Len(ids)
<1>1. /\ epoch \in Nat /\ revision \in Nat /\ revision > 0 /\ recent \in Seq(Entries) /\ l \in Nat
      /\ DOMAIN recent = 1..l
  BY DEF LogInv, LogTyped
<1>2. n \in Nat \ {0} /\ DOMAIN ids = 1..n
  BY EmptySeq
<1>3. /\ epoch' = epoch /\ revision' = revision + 1 /\ recent' = Truncate(grown)
      /\ cut' = cut \cup {<<epoch, m>> : m \in Split(grown)}
  BY DEF AppendEntries
<1>4. /\ new \in Seq(Entries) /\ Len(new) = n
      /\ \A k \in 1..n : new[k] = [revision |-> revision + 1, item |-> ids[k]]
  <2>1. \A k \in 1..n : ids[k] \in Items \cup {AllItems}
    BY <1>2, ElementOfSeq
  <2>2. \A k \in 1..n : [revision |-> revision + 1, item |-> ids[k]] \in Entries
    BY <1>1, <2>1 DEF Entries
  <2>3. new \in [1..n -> Entries]
    BY <1>2, <2>2
  <2> QED BY <1>2, <2>3
<1> HIDE DEF new
<1>5. /\ grown \in Seq(Entries) /\ Len(grown) = l + n
      /\ \A m \in 1..(l + n) : grown[m] = IF m <= l THEN recent[m] ELSE new[m - l]
  <2>1. /\ grown \in Seq(Entries) /\ Len(grown) = Len(recent) + Len(new)
        /\ \A m \in 1..(Len(recent) + Len(new)) :
              grown[m] = IF m <= Len(recent) THEN recent[m] ELSE new[m - Len(recent)]
    <3>1. recent \in Seq(Entries) /\ new \in Seq(Entries)
      BY <1>1, <1>4
    <3> QED BY <3>1, ConcatProperties, Zenon
  <2> HIDE DEF grown
  <2> QED BY <1>4, <2>1
<1> HIDE DEF grown, l
<1>6. \A m \in 1..l : m \in 1..(l + n) /\ grown[m] = recent[m]
                      /\ recent[m].revision \in 2..revision
  BY <1>1, <1>2, <1>5 DEF LogInv, LogAscends, l
<1>7. \A k \in 1..n : l + k \in 1..(l + n)
                      /\ grown[l + k] = [revision |-> revision + 1, item |-> ids[k]]
  <2> TAKE k \in 1..n
  <2>1. l + k \in 1..(l + n) /\ ~(l + k <= l) /\ (l + k) - l = k
    BY <1>1, <1>2
  <2>2. grown[l + k] = new[(l + k) - l]
    BY <1>5, <2>1
  <2> QED BY <1>4, <2>1, <2>2
<1>8. \A m \in 1..(l + n) : m \in 1..l \/ grown[m].revision = revision + 1
  <2> TAKE m \in 1..(l + n)
  <2>1. CASE m \notin 1..l
    <3>1. m - l \in 1..n /\ l + (m - l) = m
      BY <1>1, <1>2, <2>1
    <3>2. grown[l + (m - l)] = [revision |-> revision + 1, item |-> ids[m - l]]
      BY <1>7, <3>1
    <3>3. grown[m] = [revision |-> revision + 1, item |-> ids[m - l]]
      BY <3>1, <3>2
    <3> QED BY <3>3
  <2> QED BY <2>1
<1>9. Ascending(grown)
  <2> SUFFICES ASSUME NEW a \in 1..(l + n), NEW b \in 1..(l + n), a <= b
               PROVE  grown[a].revision <= grown[b].revision
    BY <1>5 DEF Ascending
  <2>1. CASE b \in 1..l
    <3>1. a \in 1..l
      BY <1>1, <1>2, <2>1
    <3>2. recent[a].revision <= recent[b].revision
      BY <2>1, <3>1 DEF LogInv, LogAscends, Ascending, l
    <3> QED BY <1>6, <2>1, <3>1, <3>2
  <2>2. CASE b \notin 1..l
    <3>1. grown[b].revision = revision + 1
      BY <1>8, <2>2
    <3>2. grown[a].revision \in 2..revision \/ grown[a].revision = revision + 1
      BY <1>6, <1>8
    <3> QED BY <1>1, <3>1, <3>2
  <2> QED BY <2>1, <2>2
<1>10. grown # <<>>
  BY <1>1, <1>2, <1>5
<1> DEFINE t == Truncate(grown)
<1>11. /\ t \in Seq(Entries) /\ Len(t) \in 1..MaxRecent /\ Ascending(t)
       /\ t[Len(t)] = grown[l + n]
       /\ \A k \in 1..Len(t) : \E m \in 1..(l + n) : t[k] = grown[m]
       /\ grown[1].revision <= t[1].revision
       /\ \A m \in 1..(l + n) : \/ \E k \in 1..Len(t) : t[k] = grown[m]
                                \/ grown[m].revision \in Split(grown)
                                \/ grown[m].revision < t[1].revision
  BY <1>5, <1>9, <1>10, TruncateKeeps
<1> HIDE DEF t
<1>12. recent' = t
  BY <1>3 DEF t
<1>13. \A m \in 1..(l + n) : Kept(grown[m])
  BY <1>3, <1>11, <1>12 DEF Kept
<1>14. LogAscends'
  <2>1. Ascending(t)
    BY <1>11
  <2>2. \A k \in 1..Len(t) : t[k].revision \in 2..(revision + 1)
    <3> TAKE k \in 1..Len(t)
    <3>1. PICK m \in 1..(l + n) : t[k] = grown[m]
      BY <1>11
    <3>2. grown[m].revision \in 2..revision \/ grown[m].revision = revision + 1
      BY <1>6, <1>8
    <3> QED BY <1>1, <3>1, <3>2
  <2>3. t # <<>> /\ t[Len(t)].revision = revision + 1
    <3>1. l + n \in 1..(l + n) /\ l + n \notin 1..l
      BY <1>1, <1>2
    <3>2. grown[l + n].revision = revision + 1
      BY <1>8, <3>1
    <3>3. Len(t) # 0
      BY <1>11
    <3> QED BY <1>11, <3>2, <3>3, EmptySeq
  <2> QED BY <1>3, <1>12, <2>1, <2>2, <2>3 DEF LogAscends, Ascending
<1>15. recent # <<>> => recent[1].revision <= t[1].revision
  <2> HAVE recent # <<>>
  <2>1. 1 \in 1..l
    BY <1>1 DEF l
  <2> QED BY <1>6, <1>11, <2>1
<1> QED BY <1>2, <1>3, <1>6, <1>7, <1>11, <1>12, <1>13, <1>14, <1>15 DEF l

\* What a record does to the readers: nothing, and its items are news to each.
LEMMA RecordKeeps ==
    ASSUME LogInv, NEW ids \in Seq(Items \cup {AllItems}), ids # <<>>, AppendEntries(ids),
           changed' \in [Items -> Moments],
           \A i \in Items : \/ changed'[i] = changed[i]
                            \/ /\ changed'[i] = <<epoch, revision + 1>>
                               /\ \E k \in DOMAIN ids : ids[k] \in {i, AllItems}
    PROVE  LogInv'
<1>1. /\ epoch' = epoch /\ revision' = revision + 1 /\ cut \subseteq cut'
      /\ recent' \in Seq(Entries) /\ Len(recent') \in 1..MaxRecent
      /\ LogAscends'
      /\ \A m \in 1..Len(recent) : Kept(recent[m])
      /\ \A k \in DOMAIN ids : Kept([revision |-> revision + 1, item |-> ids[k]])
      /\ recent # <<>> => recent[1].revision <= recent'[1].revision
  BY AppendKeeps
<1>2. UNCHANGED <<phase, first, channel, reply, cursor, told>>
  BY DEF AppendEntries, readers
<1>3. epoch \in Nat /\ revision \in Nat /\ changed \in [Items -> Moments]
      /\ recent \in Seq(Entries)
  BY DEF LogInv, LogTyped
<1>4. LogTyped'
  <2>1. revision + 1 \in Nat \ {0} /\ Len(recent') <= MaxRecent
    BY <1>1, <1>3, LogAssumption
  <2> QED BY <1>1, <1>3, <2>1 DEF LogTyped
<1>5. ReadersTyped'
  BY <1>2 DEF LogInv, ReadersTyped
<1>6. recent' # <<>> /\ 1 \in 1..Len(recent')
  BY <1>1, LogAssumption, EmptySeq
<1>7. ASSUME NEW i \in Items
      PROVE  /\ ~Before(Top, changed[i])'
             /\ changed'[i][1] = epoch' => Remembered(i)'
  <2>1. CASE changed'[i] = changed[i]
    <3>1. changed[i] \in Nat \X Nat /\ ~Before(Top, changed[i])
      BY <1>3 DEF LogInv, LogCovers, Moments
    <3>2. ~Before(Top, changed[i])'
      BY <1>1, <1>3, <2>1, <3>1 DEF Before, Top
    <3>3. ASSUME changed[i][1] = epoch PROVE Remembered(i)'
      <4>1. changed[i] = <<epoch, changed[i][2]>> /\ changed[i][2] \in Nat
        BY <3>1, <3>3
      <4>2. Remembered(i)
        BY <3>3 DEF LogInv, LogCovers
      <4>3. CASE changed[i] \in cut
        BY <1>1, <2>1, <4>3 DEF Remembered
      <4>4. ASSUME NEW k \in 1..Len(recent), recent[k].revision = changed[i][2],
                   recent[k].item \in {i, AllItems}
            PROVE  Remembered(i)'
        BY <1>1, <1>6, <2>1, <4>1, <4>4 DEF Remembered, Kept
      <4>5. CASE recent # <<>> /\ changed[i][2] < recent[1].revision
        <5>1. recent[1].revision <= recent'[1].revision
          BY <1>1, <4>5
        <5>2. recent[1].revision \in Nat /\ recent'[1].revision \in Nat
          <6>1. recent[1] \in Entries /\ recent'[1] \in Entries
            BY <1>1, <1>3, <1>6, <4>5, ElementOfSeq
          <6> QED BY <6>1 DEF Entries
        <5>3. changed[i][2] < recent'[1].revision
          BY <4>1, <4>5, <5>1, <5>2
        <5> QED BY <1>6, <2>1, <5>3 DEF Remembered
      <4> QED BY <4>2, <4>3, <4>4, <4>5 DEF Remembered
    <3> QED BY <1>1, <2>1, <3>2, <3>3
  <2>2. CASE /\ changed'[i] = <<epoch, revision + 1>>
             /\ \E k \in DOMAIN ids : ids[k] \in {i, AllItems}
    <3>1. changed'[i][1] = epoch /\ changed'[i][2] = revision + 1
      BY <2>2
    <3>2. ~Before(Top, changed[i])'
      BY <1>1, <1>3, <3>1 DEF Before, Top
    <3>3. PICK k \in DOMAIN ids : ids[k] \in {i, AllItems}
      BY <2>2
    <3> DEFINE x == [revision |-> revision + 1, item |-> ids[k]]
    <3>4. Kept(x) /\ x.revision = revision + 1 /\ x.item \in {i, AllItems}
      BY <1>1, <3>3
    <3> HIDE DEF x
    <3>5. Remembered(i)'
      BY <1>6, <2>2, <3>1, <3>4 DEF Remembered, Kept
    <3> QED BY <3>2, <3>5
  <2> QED BY <2>1, <2>2
<1>8. LogCovers'
  BY <1>7 DEF LogCovers
<1>9. ASSUME NEW r \in Readers PROVE ReaderInv(r)'
  <2>1. ReaderInv(r) /\ cursor[r] \in Nat \X Nat /\ reply[r].at \in Nat \X Nat
    BY DEF LogInv, ReadersTyped, Answers, Moments
  <2>2. ~Before(Top, cursor[r])' /\ ~Before(Top, reply[r].at)'
    BY <1>1, <1>2, <1>3, <2>1 DEF ReaderInv, Before, Top
  <2>3. Before(cursor[r], <<epoch, revision + 1>>) /\ Before(reply[r].at, <<epoch, revision + 1>>)
    BY <1>3, <2>1 DEF ReaderInv, Before, Top
  <2>4. TellsAll(r)'
    BY <1>1, <1>2, <2>1, <2>3 DEF ReaderInv, TellsAll
  <2>5. AnswerTells(r) => AnswerTells(r)'
    BY <1>1, <1>2, <2>3 DEF AnswerTells
  <2> QED BY <1>2, <2>1, <2>2, <2>4, <2>5 DEF ReaderInv
<1> QED BY <1>1, <1>4, <1>5, <1>8, <1>9 DEF LogInv

LEMMA RecordStep ==
    ASSUME LogInv, NEW S \in Batches, Record(S)
    PROVE  LogInv'
<1>1. PICK ids \in SetToSeqs(S) : AppendEntries(ids)
  BY DEF Record
<1>2. S \subseteq Items /\ S # {} /\ IsFiniteSet(S)
  BY DEF Batches
<1>3. ids \in Seq(S) /\ ids # <<>> /\ \A x \in S : \E k \in DOMAIN ids : ids[k] = x
  BY <1>2, EveryItemNamed
<1>4. ids \in Seq(Items \cup {AllItems})
  BY <1>2, <1>3
<1>5. changed' = [i \in Items |-> IF i \in S THEN <<epoch, revision + 1>> ELSE changed[i]]
  BY DEF Record
<1>6. changed' \in [Items -> Moments]
  <2>1. <<epoch, revision + 1>> \in Moments /\ changed \in [Items -> Moments]
    BY DEF LogInv, LogTyped, Moments
  <2> QED BY <1>5, <2>1
<1> QED BY <1>1, <1>3, <1>4, <1>5, <1>6, RecordKeeps

LEMMA RecordAllStep ==
    ASSUME LogInv, RecordAll
    PROVE  LogInv'
<1> DEFINE ids == <<AllItems>>
<1>1. /\ ids \in Seq(Items \cup {AllItems}) /\ ids # <<>>
      /\ 1 \in DOMAIN ids /\ ids[1] = AllItems
  OBVIOUS
<1>2. AppendEntries(ids) /\ changed' = [i \in Items |-> <<epoch, revision + 1>>]
  BY DEF RecordAll
<1>3. changed' \in [Items -> Moments]
  BY <1>2 DEF LogInv, LogTyped, Moments
<1> HIDE DEF ids
<1> QED BY <1>1, <1>2, <1>3, RecordKeeps

\* A new instance of the daemon knows of nothing, and no cursor is its own.
LEMMA RestartStep ==
    ASSUME LogInv, Restart
    PROVE  LogInv'
<1>1. /\ epoch' = epoch + 1 /\ revision' = 1 /\ recent' = <<>>
      /\ phase' = [r \in Readers |-> "off"] /\ first' = [r \in Readers |-> FALSE]
      /\ reply' = [r \in Readers |-> NoAnswer]
      /\ UNCHANGED <<cursor, changed, told, cut>>
  BY DEF Restart, history
<1>2. epoch \in Nat /\ changed \in [Items -> Nat \X Nat] /\ cursor \in [Readers -> Nat \X Nat]
  BY DEF LogInv, LogTyped, ReadersTyped, Moments
<1>3. LogTyped'
  BY <1>1, EmptySeq, LogAssumption DEF LogInv, LogTyped
<1>4. NoAnswer \in Answers
  BY DEF NoAnswer, Answers, Moments
<1>5. ReadersTyped'
  BY <1>1, <1>4 DEF LogInv, ReadersTyped, Phases
<1>6. LogAscends'
  BY <1>1, EmptySeq DEF LogAscends, Ascending
<1>7. LogCovers'
  <2> SUFFICES ASSUME NEW i \in Items
               PROVE  ~Before(Top, changed[i])' /\ changed'[i][1] # epoch'
    BY DEF LogCovers
  <2>1. ~Before(Top, changed[i]) /\ changed[i] \in Nat \X Nat
    BY <1>2 DEF LogInv, LogCovers
  <2> QED BY <1>1, <1>2, <2>1 DEF Before, Top
<1>8. ASSUME NEW r \in Readers PROVE ReaderInv(r)'
  <2>1. ReaderInv(r) /\ cursor[r] \in Nat \X Nat
    BY <1>2 DEF LogInv
  <2>2. ~Before(Top, cursor[r])'
    BY <1>1, <1>2, <2>1 DEF ReaderInv, Before, Top
  <2>3. ~Before(Top, reply[r].at)'
    BY <1>1, <1>2 DEF Before, Top, NoAnswer
  <2>4. TellsAll(r)'
    BY <1>1, <2>1 DEF ReaderInv, TellsAll
  <2>5. phase'[r] \notin Sending
    BY <1>1 DEF Sending
  <2> QED BY <2>2, <2>3, <2>4, <2>5 DEF ReaderInv
<1> QED BY <1>3, <1>5, <1>6, <1>7, <1>8 DEF LogInv

----------------------------------------------------------------------------
(* Readers *)

\* What since answers is all that a reader with this cursor has not been told
\* of, or that anything may have changed, but for what was cut.
LEMMA SinceTells ==
    ASSUME LogInv, NEW r \in Readers
    PROVE  /\ Since(cursor[r]) \in Answers /\ Since(cursor[r]).at = Top
           /\ \A i \in Items : \/ Since(cursor[r]).all \/ i \in Since(cursor[r]).items
                               \/ ~Before(told[r][i], changed[i])
                               \/ changed[i] \in cut
<1> DEFINE c == cursor[r]
           entries == {e \in ToSet(recent) : e.revision > c[2]}
           named == {e.item : e \in entries}
           any == \/ c[1] # epoch \/ c[2] = 0 \/ c[2] > revision
                  \/ c[2] < revision /\ (recent = <<>> \/ recent[1].revision > c[2] + 1)
                  \/ AllItems \in named
<1>1. Since(c) = IF any THEN Answer(TRUE, {}) ELSE Answer(FALSE, named)
  BY DEF Since
<1>2. /\ epoch \in Nat /\ revision \in Nat /\ c \in Nat \X Nat /\ recent \in Seq(Entries)
      /\ changed \in [Items -> Nat \X Nat] /\ DOMAIN recent = 1..Len(recent)
  BY DEF LogInv, LogTyped, ReadersTyped, Moments
<1>3. \A k \in 1..Len(recent) : recent[k] \in Entries
  BY <1>2, ElementOfSeq
<1>4. named \subseteq Items \cup {AllItems}
  BY <1>2, <1>3 DEF ToSet, Entries
<1>5. \A k \in 1..Len(recent) : recent[k].revision > c[2] => recent[k].item \in named
  BY <1>2 DEF ToSet
<1> HIDE DEF named
<1>6. Since(c) \in Answers /\ Since(c).at = Top
  BY <1>1, <1>2, <1>4 DEF Answer, Answers, Top, Moments
<1>7. ASSUME ~any, NEW i \in Items, Before(told[r][i], changed[i]), changed[i] \notin cut
      PROVE  i \in named
  <2>1. Before(c, changed[i]) /\ ~Before(Top, changed[i]) /\ changed[i] \in Nat \X Nat
    BY <1>2, <1>7 DEF LogInv, ReaderInv, TellsAll, LogCovers
  <2>2. /\ changed[i][1] = epoch /\ c[2] < changed[i][2] /\ changed[i][2] <= revision
        /\ changed[i][2] \in Nat
    BY <1>2, <1>7, <2>1 DEF Before, Top
  <2>3. recent # <<>> /\ ~(recent[1].revision > c[2] + 1) /\ AllItems \notin named
    BY <1>2, <1>7, <2>2
  <2>4. recent[1].revision \in Nat
    <3>1. 1 \in 1..Len(recent)
      BY <1>2, <2>3
    <3> QED BY <1>3, <3>1 DEF Entries
  <2>5. ~(changed[i][2] < recent[1].revision)
    BY <1>2, <2>2, <2>3, <2>4
  <2>6. PICK k \in 1..Len(recent) :
          recent[k].revision = changed[i][2] /\ recent[k].item \in {i, AllItems}
    BY <1>7, <2>2, <2>5 DEF LogInv, LogCovers, Remembered
  <2>7. recent[k].item \in named
    BY <1>2, <1>5, <2>2, <2>6
  <2> QED BY <2>3, <2>6, <2>7
<1>8. Since(c).all = any /\ (~any => Since(c).items = named)
  BY <1>1 DEF Answer
<1> HIDE DEF any
<1> QED BY <1>6, <1>7, <1>8

\* A step of one reader leaves the log and the other readers alone.
LEMMA ReaderStep ==
    ASSUME LogInv, UNCHANGED <<epoch, revision, recent, changed, cut>>, NEW r \in Readers,
           \A s \in Readers \ {r} : /\ phase'[s] = phase[s] /\ reply'[s] = reply[s]
                                    /\ cursor'[s] = cursor[s] /\ told'[s] = told[s],
           ReadersTyped', ReaderInv(r)'
    PROVE  LogInv'
<1>1. LogTyped' /\ LogAscends' /\ LogCovers'
  BY DEF LogInv, LogTyped, LogAscends, Ascending, LogCovers, Remembered, Top
<1>2. ASSUME NEW s \in Readers \ {r} PROVE ReaderInv(s)'
  <2>1. ReaderInv(s)
    BY DEF LogInv
  <2> QED BY <2>1 DEF ReaderInv, TellsAll, AnswerTells, Top
<1> QED BY <1>1, <1>2 DEF LogInv

\* A reader is given an answer to send that tells it all, and keeps its cursor.
LEMMA AnswerStep ==
    ASSUME LogInv, UNCHANGED <<epoch, revision, recent, changed, cut, told, cursor>>,
           NEW r \in Readers, NEW p \in Phases, NEW answer \in Answers,
           phase' = [phase EXCEPT ![r] = p], first' \in [Readers -> BOOLEAN],
           reply' = [reply EXCEPT ![r] = answer],
           ~Before(Top, answer.at),
           p \in Sending => \A i \in Items : \/ answer.all \/ i \in answer.items
                                             \/ cursor[r] = <<0, 0>>
                                             \/ ~Before(told[r][i], changed[i])
                                             \/ changed[i] \in cut
    PROVE  LogInv'
<1>1. ReadersTyped'
  BY DEF LogInv, ReadersTyped
<1>2. phase'[r] = p /\ reply'[r] = answer
      /\ \A s \in Readers \ {r} : phase'[s] = phase[s] /\ reply'[s] = reply[s]
  BY DEF LogInv, ReadersTyped
<1>3. ReaderInv(r)'
  <2>1. ReaderInv(r)
    BY DEF LogInv
  <2>2. ~Before(Top, cursor[r])' /\ ~Before(Top, reply[r].at)' /\ TellsAll(r)'
    BY <1>2, <2>1 DEF ReaderInv, TellsAll, Top
  <2>3. phase'[r] \in Sending => AnswerTells(r)'
    BY <1>2 DEF AnswerTells
  <2> QED BY <2>2, <2>3 DEF ReaderInv
<1> QED BY <1>1, <1>2, <1>3, ReaderStep

\* A phase that sends nothing leaves nothing to tell.
LEMMA PhaseStep ==
    ASSUME LogInv, UNCHANGED <<epoch, revision, recent, changed, cut, told, cursor>>,
           NEW r \in Readers, NEW p \in Phases \ Sending,
           phase' = [phase EXCEPT ![r] = p], first' \in [Readers -> BOOLEAN],
           reply' = reply \/ reply' = [reply EXCEPT ![r] = NoAnswer]
    PROVE  LogInv'
<1>1. NoAnswer \in Answers /\ ~Before(Top, NoAnswer.at)
  BY DEF NoAnswer, Answers, Moments, LogInv, LogTyped, Before, Top
<1>2. ReadersTyped'
  BY <1>1 DEF LogInv, ReadersTyped
<1>3. phase'[r] = p /\ reply'[r] \in {reply[r], NoAnswer}
      /\ \A s \in Readers \ {r} : phase'[s] = phase[s] /\ reply'[s] = reply[s]
  BY DEF LogInv, ReadersTyped
<1>4. ReaderInv(r)'
  <2>1. ReaderInv(r)
    BY DEF LogInv
  <2> QED BY <1>1, <1>3, <2>1 DEF ReaderInv, TellsAll, Top
<1> QED BY <1>2, <1>3, <1>4, ReaderStep

\* The answer arrives: the client knows what it names, and moves its cursor.
LEMMA DeliverStep ==
    ASSUME LogInv, NEW r \in Readers, phase[r] \in Sending,
           NEW p \in Phases \ Sending, phase' = [phase EXCEPT ![r] = p], Deliver(r)
    PROVE  LogInv'
<1>1. /\ cursor' = [cursor EXCEPT ![r] = reply[r].at]
      /\ told' = [told EXCEPT ![r] = [i \in Items |->
            IF reply[r].all \/ i \in reply[r].items \/ cursor[r] = <<0, 0>>
            THEN reply[r].at ELSE @[i]]]
      /\ reply' = [reply EXCEPT ![r] = NoAnswer]
      /\ UNCHANGED <<epoch, revision, recent, first, changed, cut>>
  BY DEF Deliver, log
<1>2. ReadersTyped /\ ReaderInv(r) /\ AnswerTells(r)
  BY DEF LogInv, ReaderInv
<1>3. reply[r].at \in Moments /\ reply[r].at \in Nat \X Nat
  BY <1>2 DEF ReadersTyped, Answers, Moments
<1>4. NoAnswer \in Answers /\ ~Before(Top, NoAnswer.at)
  BY DEF NoAnswer, Answers, Moments, LogInv, LogTyped, Before, Top
<1>5. told'[r] = [i \in Items |-> IF reply[r].all \/ i \in reply[r].items \/ cursor[r] = <<0, 0>>
                                  THEN reply[r].at ELSE told[r][i]]
  BY <1>1, <1>2 DEF ReadersTyped
<1>6. /\ cursor'[r] = reply[r].at /\ reply'[r] = NoAnswer /\ phase'[r] = p
      /\ \A s \in Readers \ {r} : /\ phase'[s] = phase[s] /\ reply'[s] = reply[s]
                                  /\ cursor'[s] = cursor[s] /\ told'[s] = told[s]
  BY <1>1, <1>2 DEF ReadersTyped
<1>7. ReadersTyped'
  <2>1. told'[r] \in [Items -> Moments]
    BY <1>2, <1>3, <1>5 DEF ReadersTyped
  <2>2. told' \in [Readers -> [Items -> Moments]]
    BY <1>1, <1>2, <2>1 DEF ReadersTyped
  <2> QED BY <1>1, <1>2, <1>3, <1>4, <2>2 DEF ReadersTyped
<1>8. TellsAll(r)'
  <2> SUFFICES ASSUME NEW i \in Items
               PROVE  \/ ~Before(told'[r][i], changed[i])
                      \/ Before(cursor'[r], changed[i])
                      \/ changed[i] \in cut
    BY <1>1 DEF TellsAll
  <2>1. told'[r][i] \in {reply[r].at, told[r][i]}
    BY <1>5
  <2>2. CASE told'[r][i] = reply[r].at
    BY <1>6, <2>2
  <2>3. CASE told'[r][i] = told[r][i] /\ told'[r][i] # reply[r].at
    BY <1>2, <1>5, <1>6, <2>3 DEF AnswerTells
  <2> QED BY <2>1, <2>2, <2>3
<1>9. ReaderInv(r)'
  BY <1>1, <1>2, <1>4, <1>6, <1>8 DEF ReaderInv, Top
<1> QED BY <1>1, <1>6, <1>7, <1>9, ReaderStep

\* One step per action of a reader.
LEMMA ReaderNextStep ==
    ASSUME LogInv, NEW r \in Readers, ReaderNext(r)
    PROVE  LogInv'
<1>1. /\ {"off", "watch", "wait", "poll_wait"} \subseteq Phases \ Sending
      /\ Sending \subseteq Phases
  BY DEF Phases, Sending
<1>2. phase[r] \in Phases /\ first \in [Readers -> BOOLEAN]
  BY DEF LogInv, ReadersTyped
<1>3. epoch \in Nat /\ revision \in Nat /\ Top \in Moments /\ ~Before(Top, Top)
  BY DEF LogInv, LogTyped, Top, Moments, Before
<1>4. /\ Since(cursor[r]) \in Answers /\ ~Before(Top, Since(cursor[r]).at)
      /\ \A i \in Items : \/ Since(cursor[r]).all \/ i \in Since(cursor[r]).items
                          \/ ~Before(told[r][i], changed[i])
                          \/ changed[i] \in cut
  BY <1>3, SinceTells
<1>5. CASE Watch(r)
  <2>1. /\ phase' = [phase EXCEPT ![r] = "watch"] /\ first' \in [Readers -> BOOLEAN]
        /\ reply' = reply
        /\ UNCHANGED <<epoch, revision, recent, changed, cut, told, cursor>>
    BY <1>2, <1>5 DEF Watch, log, history
  <2> QED BY <1>1, <2>1, PhaseStep
<1>6. CASE WatchSnapshot(r)
  <2> DEFINE answer == WatchAnswer(r)
  <2>1. /\ first' \in [Readers -> BOOLEAN]
        /\ UNCHANGED <<epoch, revision, recent, changed, cut, told, cursor>>
    BY <1>2, <1>6 DEF WatchSnapshot, log, history
  <2>2. \/ /\ phase' = [phase EXCEPT ![r] = "send"]
           /\ reply' = [reply EXCEPT ![r] = answer]
        \/ phase' = [phase EXCEPT ![r] = "wait"] /\ reply' = reply
    BY <1>6 DEF WatchSnapshot
  <2>3. /\ answer \in Answers /\ ~Before(Top, answer.at)
        /\ \A i \in Items : \/ answer.all \/ i \in answer.items \/ cursor[r] = <<0, 0>>
                            \/ ~Before(told[r][i], changed[i])
                            \/ changed[i] \in cut
    <3>1. CASE first[r] /\ cursor[r] = <<0, 0>>
      <4>1. answer = Answer(FALSE, {})
        BY <3>1 DEF WatchAnswer
      <4>2. answer \in Answers /\ answer.at = Top
        BY <1>3, <4>1 DEF Answer, Answers
      <4> QED BY <1>3, <3>1, <4>2
    <3>2. CASE ~(first[r] /\ cursor[r] = <<0, 0>>)
      <4>1. answer = Since(cursor[r])
        BY <3>2 DEF WatchAnswer
      <4> HIDE DEF answer
      <4> QED BY <1>4, <4>1
    <3> QED BY <3>1, <3>2
  <2> HIDE DEF answer
  <2>4. CASE phase' = [phase EXCEPT ![r] = "send"] /\ reply' = [reply EXCEPT ![r] = answer]
    <3>1. "send" \in Phases
      BY DEF Phases
    <3> QED BY <2>1, <2>3, <2>4, <3>1, AnswerStep
  <2>5. CASE phase' = [phase EXCEPT ![r] = "wait"] /\ reply' = reply
    BY <1>1, <2>1, <2>5, PhaseStep
  <2> QED BY <2>2, <2>4, <2>5
<1>7. CASE WatchSend(r)
  <2>1. phase[r] \in Sending /\ phase' = [phase EXCEPT ![r] = "wait"] /\ Deliver(r)
    BY <1>7 DEF WatchSend, Sending
  <2> QED BY <1>1, <2>1, DeliverStep
<1>8. CASE Disconnect(r)
  <2>1. /\ phase' = [phase EXCEPT ![r] = "off"] /\ first' \in [Readers -> BOOLEAN]
        /\ reply' = [reply EXCEPT ![r] = NoAnswer]
        /\ UNCHANGED <<epoch, revision, recent, changed, cut, told, cursor>>
    BY <1>2, <1>8 DEF Disconnect, log, history
  <2> QED BY <1>1, <2>1, PhaseStep
<1>9. CASE Poll(r)
  <2>1. PICK p \in {"poll_wait", "poll_send"} :
           /\ phase' = [phase EXCEPT ![r] = p] /\ first' \in [Readers -> BOOLEAN]
           /\ reply' = [reply EXCEPT ![r] = Since(cursor[r])]
           /\ UNCHANGED <<epoch, revision, recent, changed, cut, told, cursor>>
    <3>1. /\ phase' = [phase EXCEPT ![r] = IF Silent(Since(cursor[r])) THEN "poll_wait"
                                           ELSE "poll_send"]
          /\ first' \in [Readers -> BOOLEAN]
          /\ reply' = [reply EXCEPT ![r] = Since(cursor[r])]
          /\ UNCHANGED <<epoch, revision, recent, changed, cut, told, cursor>>
      BY <1>2, <1>9 DEF Poll, log, history
    <3>2. CASE Silent(Since(cursor[r]))
      <4>1. phase' = [phase EXCEPT ![r] = "poll_wait"]
        BY <3>1, <3>2
      <4> QED BY <3>1, <4>1
    <3>3. CASE ~Silent(Since(cursor[r]))
      <4>1. phase' = [phase EXCEPT ![r] = "poll_send"]
        BY <3>1, <3>3
      <4> QED BY <3>1, <4>1
    <3> QED BY <3>2, <3>3
  <2>2. p \in Phases
    BY DEF Phases
  <2> QED BY <1>4, <2>1, <2>2, AnswerStep
<1>10. CASE PollAgain(r)
  <2>1. /\ phase' = [phase EXCEPT ![r] = "poll_send"] /\ first' \in [Readers -> BOOLEAN]
        /\ reply' = [reply EXCEPT ![r] = Since(cursor[r])]
        /\ UNCHANGED <<epoch, revision, recent, changed, cut, told, cursor>>
    BY <1>2, <1>10 DEF PollAgain, log, history
  <2>2. "poll_send" \in Phases
    BY DEF Phases
  <2> QED BY <1>4, <2>1, <2>2, AnswerStep
<1>11. CASE PollSend(r)
  <2>1. phase[r] \in Sending /\ phase' = [phase EXCEPT ![r] = "off"] /\ Deliver(r)
    BY <1>11 DEF PollSend, Sending
  <2> QED BY <1>1, <2>1, DeliverStep
<1> QED BY <1>5, <1>6, <1>7, <1>8, <1>9, <1>10, <1>11 DEF ReaderNext

\* A new log remembers nothing, and nothing was recorded.
LEMMA LogInvInitially ==
    ASSUME LogInit
    PROVE  LogInv
<1> USE DEF LogInit
<1>1. LogTyped
  BY LogAssumption DEF LogTyped, Moments
<1>2. ReadersTyped
  BY DEF ReadersTyped, Phases, NoAnswer, Answers, Moments
<1>3. LogAscends
  BY DEF LogAscends, Ascending
<1>4. LogCovers
  BY DEF LogCovers, Before, Top, Remembered
<1>5. ASSUME NEW r \in Readers PROVE ReaderInv(r)
  BY DEF ReaderInv, TellsAll, NoAnswer, Before, Top, Sending
<1> QED BY <1>1, <1>2, <1>3, <1>4, <1>5 DEF LogInv

\* One step per action.
LEMMA LogInvInductive ==
    ASSUME LogInv, [LogNext]_logVars
    PROVE  LogInv'
<1>1. CASE \E S \in Batches : Record(S)
  BY <1>1, RecordStep
<1>2. CASE RecordAll
  BY <1>2, RecordAllStep
<1>3. CASE Restart
  BY <1>3, RestartStep
<1>4. CASE \E r \in Readers : ReaderNext(r)
  BY <1>4, ReaderNextStep
<1>5. CASE UNCHANGED logVars
  <2>1. /\ UNCHANGED <<epoch, revision, recent, phase, first, reply, cursor>>
        /\ UNCHANGED <<changed, told, cut>>
    BY <1>5 DEF logVars, log, readers, history
  <2>2. LogTyped' /\ ReadersTyped' /\ LogAscends' /\ LogCovers'
    BY <2>1 DEF LogInv, LogTyped, ReadersTyped, LogAscends, LogCovers, Remembered, Top
  <2>3. ASSUME NEW r \in Readers PROVE ReaderInv(r)'
    BY <2>1 DEF LogInv, ReaderInv, TellsAll, AnswerTells, Top
  <2> QED BY <2>2, <2>3 DEF LogInv
<1> QED BY <1>1, <1>2, <1>3, <1>4, <1>5 DEF LogNext

\* Whatever the log forgot, and whatever a reader was not told of, the reader's
\* cursor still shows it behind (changeLog.record, since), except what was cut.
THEOREM LogInvariant == LogSpec => []LogInv
<1>1. LogInit => LogInv
  BY LogInvInitially
<1>2. LogInv /\ [LogNext]_logVars => LogInv'
  BY LogInvInductive
<1> QED BY <1>1, <1>2, PTL DEF LogSpec

\* A client that has moved past a record was told of every item in it, unless
\* truncation split that record (changeLog.since).
THEOREM NothingIsMissed == LogSpec => []MissedOnlyInCutRevisions
<1>1. LogInv => MissedOnlyInCutRevisions
  BY DEF LogInv, ReaderInv, TellsAll, MissedOnlyInCutRevisions, Missed
<1> QED BY <1>1, LogInvariant, PTL
================================================================================
