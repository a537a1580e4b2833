----------------------------- MODULE ChangeLog -----------------------------
(***************************************************************************)
(* The daemon's in-memory change log (coordinator/changes.go) and the two  *)
(* ways a client reads it: the WatchChanges stream (daemonapi/views.go)    *)
(* and the changes_wait request of the coordinator socket (server.go).     *)
(*                                                                         *)
(* record and since hold the log's mutex, so each is one step; a snapshot  *)
(* and the delivery of its answer are two steps, and anything may happen   *)
(* between them: further records, the loss of the connection, a restart of *)
(* the daemon, which starts an empty log under a new epoch.                *)
(***************************************************************************)
EXTENDS Naturals, Sequences, SequencesExt, FiniteSets

CONSTANTS
    Items,        \* work item IDs
    Readers,      \* clients that follow changes
    MaxRecent,    \* maxRecentChanges (1024 in the code)
    MaxBatch,     \* bound: items named by one record call
    MaxRevision,  \* bound: records of one daemon instance
    MaxEpoch      \* bound: daemon instances

AllItems == "all"   \* allItems, the empty item ID

ASSUME LogAssumption ==
    /\ AllItems \notin Items
    /\ MaxRecent \in Nat \ {0}
    /\ MaxBatch \in Nat /\ MaxRevision \in Nat /\ MaxEpoch \in Nat

VARIABLES
    epoch,      \* the daemon instance; its start time in the code
    revision,   \* counts records, from 1
    recent,     \* the last MaxRecent entries
    phase,      \* what each reader's connection is doing
    first,      \* whether a stream has answered nothing yet
    channel,    \* the head of the log when the reader took its notify channel
    reply,      \* the answer about to be sent
    cursor,     \* <<epoch, revision>> the client holds; <<0, 0>> when none
    changed,    \* history: the last record that named the item
    told,       \* history: up to which record the reader was told of the item
    cut         \* history: revisions of which truncation dropped only a part

log == <<epoch, revision, recent>>
readers == <<phase, first, channel, reply, cursor>>
history == <<changed, told, cut>>
logVars == <<log, readers, history>>

----------------------------------------------------------------------------
Top == <<epoch, revision>>

\* The order of records, across daemon instances.
Before(p, q) == p[1] < q[1] \/ (p[1] = q[1] /\ p[2] < q[2])

\* The last MaxRecent entries of s.
Truncate(s) == IF Len(s) > MaxRecent THEN SubSeq(s, Len(s) - MaxRecent + 1, Len(s)) ELSE s

\* The revision that Truncate(s) splits, if any.
Split(s) ==
    LET gone == Len(s) - MaxRecent IN
    {s[k].revision : k \in {n \in {gone} \cap DOMAIN s :
                              n < Len(s) /\ s[n].revision = s[n + 1].revision}}

Answer(all, items) == [at |-> Top, all |-> all, items |-> items]
NoAnswer == [at |-> <<0, 0>>, all |-> FALSE, items |-> {}]

\* Mutant: the oldest remembered revision is taken to be one later.
SinceOffByOne(c) ==
    LET entries == {e \in ToSet(recent) : e.revision > c[2]}
        named == {e.item : e \in entries}
    IN IF \/ c[1] # epoch \/ c[2] = 0 \/ c[2] > revision
          \/ c[2] < revision /\ (recent = <<>> \/ recent[1].revision > c[2] + 2)
          \/ AllItems \in named
       THEN Answer(TRUE, {})
       ELSE Answer(FALSE, named)

\* changeLog.since
Since(c) ==
    LET entries == {e \in ToSet(recent) : e.revision > c[2]}
        named == {e.item : e \in entries}
    IN IF \/ c[1] # epoch \/ c[2] = 0 \/ c[2] > revision
          \/ c[2] < revision /\ (recent = <<>> \/ recent[1].revision > c[2] + 1)
          \/ AllItems \in named
       THEN Answer(TRUE, {})
       ELSE Answer(FALSE, named)

Silent(a) == ~a.all /\ a.items = {}

----------------------------------------------------------------------------
LogInit ==
    /\ epoch = 1
    /\ revision = 1
    /\ recent = <<>>
    /\ phase = [r \in Readers |-> "off"]
    /\ first = [r \in Readers |-> FALSE]
    /\ channel = [r \in Readers |-> <<0, 0>>]
    /\ reply = [r \in Readers |-> NoAnswer]
    /\ cursor = [r \in Readers |-> <<0, 0>>]
    /\ changed = [i \in Items |-> <<0, 0>>]
    /\ told = [r \in Readers |-> [i \in Items |-> <<0, 0>>]]
    /\ cut = {}

\* changeLog.record: one revision for all the entries of a call.
AppendEntries(ids) ==
    LET grown == recent \o [k \in DOMAIN ids |-> [revision |-> revision + 1, item |-> ids[k]]]
    IN /\ revision < MaxRevision
       /\ revision' = revision + 1
       /\ recent' = Truncate(grown)
       /\ cut' = cut \cup {<<epoch, n>> : n \in Split(grown)}
       /\ UNCHANGED <<epoch, readers, told>>

\* A command names one item, an observer pass every active item that changed,
\* in manifest order.
Record(S) ==
    /\ \E ids \in SetToSeqs(S) : AppendEntries(ids)
    /\ changed' = [i \in Items |-> IF i \in S THEN <<epoch, revision + 1>> ELSE changed[i]]

\* changeLog.recordAll: repository changes, profile changes, blocker sweeps.
RecordAll ==
    /\ AppendEntries(<<AllItems>>)
    /\ changed' = [i \in Items |-> <<epoch, revision + 1>>]

\* A daemon restart: newChangeLog, and every connection is lost.
Restart ==
    /\ epoch < MaxEpoch
    /\ epoch' = epoch + 1
    /\ revision' = 1
    /\ recent' = <<>>
    /\ phase' = [r \in Readers |-> "off"]
    /\ first' = [r \in Readers |-> FALSE]
    /\ channel' = [r \in Readers |-> <<0, 0>>]
    /\ reply' = [r \in Readers |-> NoAnswer]
    /\ UNCHANGED <<cursor, history>>

----------------------------------------------------------------------------
(* WatchChanges *)

Watch(r) ==
    /\ phase[r] = "off"
    /\ phase' = [phase EXCEPT ![r] = "watch"]
    /\ first' = [first EXCEPT ![r] = TRUE]
    /\ UNCHANGED <<log, channel, reply, cursor, history>>

\* A client without a cursor is given one and no items: it lists them itself.
WatchAnswer(r) ==
    IF first[r] /\ cursor[r] = <<0, 0>> THEN Answer(FALSE, {}) ELSE Since(cursor[r])

\* The stream snapshots on connection and whenever its notify channel closes.
WatchSnapshot(r) ==
    LET answer == WatchAnswer(r) IN
    /\ \/ phase[r] = "watch"
       \/ phase[r] = "wait" /\ channel[r] # Top
    /\ channel' = [channel EXCEPT ![r] = Top]
    /\ first' = [first EXCEPT ![r] = FALSE]
    /\ IF first[r] \/ ~Silent(answer)
       THEN /\ phase' = [phase EXCEPT ![r] = "send"]
            /\ reply' = [reply EXCEPT ![r] = answer]
       ELSE /\ phase' = [phase EXCEPT ![r] = "wait"]
            /\ UNCHANGED reply
    /\ UNCHANGED <<log, cursor, history>>

\* What the client knows after the answer: it reads the items named, or all of
\* them, as of the answer's revision at least.
Deliver(r) ==
    /\ cursor' = [cursor EXCEPT ![r] = reply[r].at]
    /\ told' = [told EXCEPT ![r] = [i \in Items |->
          IF reply[r].all \/ i \in reply[r].items \/ cursor[r] = <<0, 0>>
          THEN reply[r].at ELSE @[i]]]
    /\ reply' = [reply EXCEPT ![r] = NoAnswer]
    /\ UNCHANGED <<log, first, changed, cut>>

\* Mutant: the notify channel is taken after the answer was sent.
WatchSendThenSubscribe(r) ==
    /\ phase[r] = "send"
    /\ phase' = [phase EXCEPT ![r] = "wait"]
    /\ channel' = [channel EXCEPT ![r] = Top]
    /\ Deliver(r)

WatchSend(r) ==
    /\ phase[r] = "send"
    /\ phase' = [phase EXCEPT ![r] = "wait"]
    /\ UNCHANGED channel
    /\ Deliver(r)

\* The request's context ends: the client went away, or the send failed.
Disconnect(r) ==
    /\ phase[r] # "off"
    /\ phase' = [phase EXCEPT ![r] = "off"]
    /\ first' = [first EXCEPT ![r] = FALSE]
    /\ channel' = [channel EXCEPT ![r] = <<0, 0>>]
    /\ reply' = [reply EXCEPT ![r] = NoAnswer]
    /\ UNCHANGED <<log, cursor, history>>

----------------------------------------------------------------------------
(* changes_wait *)

\* The first snapshot; an empty answer is held until a change or the timeout.
Poll(r) ==
    LET answer == Since(cursor[r]) IN
    /\ phase[r] = "off"
    /\ phase' = [phase EXCEPT ![r] = IF Silent(answer) THEN "poll_wait" ELSE "poll_send"]
    /\ reply' = [reply EXCEPT ![r] = answer]
    /\ UNCHANGED <<log, first, channel, cursor, history>>

\* The second snapshot, after a change, wait_millis, or shutdown.
PollAgain(r) ==
    /\ phase[r] = "poll_wait"
    /\ phase' = [phase EXCEPT ![r] = "poll_send"]
    /\ reply' = [reply EXCEPT ![r] = Since(cursor[r])]
    /\ UNCHANGED <<log, first, channel, cursor, history>>

PollSend(r) ==
    /\ phase[r] = "poll_send"
    /\ phase' = [phase EXCEPT ![r] = "off"]
    /\ UNCHANGED channel
    /\ Deliver(r)

Batches == {S \in SUBSET Items : S # {} /\ IsFiniteSet(S) /\ Cardinality(S) <= MaxBatch}

ReaderNext(r) ==
    \/ Watch(r) \/ WatchSnapshot(r) \/ WatchSend(r) \/ Disconnect(r)
    \/ Poll(r) \/ PollAgain(r) \/ PollSend(r)

LogNext ==
    \/ \E S \in Batches : Record(S)
    \/ RecordAll
    \/ Restart
    \/ \E r \in Readers : ReaderNext(r)

\* A connected stream's goroutine keeps running.
LogFairness == \A r \in Readers : WF_logVars(WatchSnapshot(r)) /\ WF_logVars(WatchSend(r))

LogSpec == LogInit /\ [][LogNext]_logVars /\ LogFairness
----------------------------------------------------------------------------
(* Properties *)

Phases == {"off", "watch", "send", "wait", "poll_wait", "poll_send"}

\* Every variable holds a value of its kind; the log never exceeds its limit
\* and its revisions ascend to the head, several entries to a revision.
LogTypeOK ==
    /\ epoch \in Nat /\ revision \in Nat \ {0}
    /\ recent \in Seq([revision : 2..revision, item : Items \cup {AllItems}])
    /\ Len(recent) <= MaxRecent
    /\ \A m, n \in DOMAIN recent : m <= n => recent[m].revision <= recent[n].revision
    /\ revision > 1 => recent # <<>> /\ recent[Len(recent)].revision = revision
    /\ phase \in [Readers -> Phases]
    /\ \A r \in Readers : cursor[r] = <<0, 0>> \/ ~Before(Top, cursor[r])

\* Changes a client was never told of although its cursor has passed them.
Missed(r) == {i \in Items : Before(told[r][i], changed[i]) /\ ~Before(cursor[r], changed[i])}

\* A client that has moved past a record has been told of every item in it,
\* or that anything may have changed, whatever it missed, however far it fell
\* behind and whichever daemon instance it talked to, unless truncation kept
\* only a part of that record (changeLog.since).
MissedOnlyInCutRevisions == \A r \in Readers : \A i \in Missed(r) : changed[i] \in cut

\* A stream that is behind the log catches up with it or ends: no wake-up is
\* lost between the snapshot and the wait on the notify channel.
LaggingStreamCatchesUp ==
    \A r \in Readers :
        phase[r] \in {"send", "wait"} /\ cursor[r] # Top
            ~> phase[r] = "off" \/ cursor[r] = Top
=============================================================================
