---------------------------- MODULE NativeWrites ----------------------------
(***************************************************************************)
(* Descriptions live in files, everything else about an item in the        *)
(* coordinator database.  A command that touches both stages the content   *)
(* in a file, commits a database transaction that records its outcome and  *)
(* a pending native write, and then lets MaterializeNativeWrites carry the *)
(* pending writes out; startup does the same before it accepts work.       *)
(*                                                                         *)
(* Handlers run one at a time (the server's domain lock); the steps here   *)
(* are the file operations and transactions between which the daemon can   *)
(* be killed, an operation can fail, or a person can edit a description.   *)
(* A transaction and a rename are atomic and durable.                      *)
(***************************************************************************)
EXTENDS Naturals, Sequences, SequencesExt, FiniteSets

CONSTANTS
    Items,         \* work item IDs
    Commands,      \* command IDs; natural numbers, for their order
    Texts,         \* descriptions; equal digests mean equal texts
    Reuse,         \* whether a client may send an ID again with other input
    MaxFailures,   \* bound: crashes and failed file operations
    MaxEdits       \* bound: edits by a person, outside the daemon

Absent == "absent"
Empty == "empty"
NotStaged == "none"

ASSUME CommandsAssumption == Commands \subseteq Nat
ASSUME TextsAssumption == Empty \in Texts /\ Absent \notin Texts /\ NotStaged \notin Texts
ASSUME ModeAssumption == Reuse \in BOOLEAN /\ MaxFailures \in Nat /\ MaxEdits \in Nat

VARIABLES
    item,      \* canonical manifest: "none", "there", "deleted"
    outcome,   \* outcome[c]: the input recorded with command c, or NoInput
    pending,   \* pending native writes
    sequence,  \* global event sequence
    dir,       \* whether the item's directory exists
    desc,      \* its description file, Absent when there is none
    stage,     \* stage[c]: staged description of command c, or NotStaged
    up,        \* the daemon: "down", "starting", "serving"
    input,     \* the request being handled
    step,      \* "idle", "staged" or "loop"
    queue,     \* writes left in the current MaterializeNativeWrites
    part,      \* progress of the first of them
    failures,  \* crashes and failed operations so far
    edits,     \* edits by a person so far
    latest,    \* history: what the last commit or edit made the description
    torn,      \* history: items whose new file was left opened but unwritten
    raced,     \* history: items edited between a rename's check and the rename
    reused     \* history: items whose pending text a reused ID replaced

database == <<item, outcome, pending, sequence>>
files == <<dir, desc, stage>>
handler == <<up, input, step, queue, part>>
history == <<latest, torn, raced, reused>>
nativeVars == <<database, files, handler, failures, edits, history>>

----------------------------------------------------------------------------
Inputs == [op : {"create", "edit", "delete"}, cmd : Commands, item : Items,
           text : Texts, prev : Texts]
NoInput == [op |-> "none"]
Write(in, n) == [op |-> in.op, cmd |-> in.cmd, item |-> in.item, text |-> in.text,
                 prev |-> in.prev, seq |-> n]

\* What ReadEditDescription returns in an existing directory.
Text(i) == IF desc[i] = Absent THEN Empty ELSE desc[i]

\* The order of PendingNativeWrites.
Earlier(v, w) == v.seq < w.seq \/ (v.seq = w.seq /\ v.cmd < w.cmd)
Sorted(S) == {q \in SetToSeqs(S) : \A m, n \in DOMAIN q : m < n => Earlier(q[m], q[n])}

\* Start MaterializeNativeWrites over writes S.
Loop(S) ==
    /\ step' = "loop"
    /\ queue' \in Sorted(S)
    /\ part' = "begin"

Idle ==
    /\ step' = "idle"
    /\ input' = NoInput
    /\ queue' = <<>>
    /\ part' = "begin"

----------------------------------------------------------------------------
NativeInit ==
    /\ item = [i \in Items |-> "none"]
    /\ outcome = [c \in Commands |-> NoInput]
    /\ pending = {}
    /\ sequence = 0
    /\ dir = [i \in Items |-> FALSE]
    /\ desc = [i \in Items |-> Absent]
    /\ stage = [c \in Commands |-> NotStaged]
    /\ up = "down"
    /\ input = NoInput
    /\ step = "idle"
    /\ queue = <<>>
    /\ part = "begin"
    /\ failures = 0
    /\ edits = 0
    /\ latest = [i \in Items |-> Empty]
    /\ torn = {}
    /\ raced = {}
    /\ reused = {}

\* A request may be sent again after any answer or none; only a careless
\* client changes its input, which matters while the command's write is
\* pending: then the first such request is enough.
Sendable(in) ==
    \/ outcome[in.cmd] \in {NoInput, in}
    \/ Reuse /\ reused = {} /\ \E w \in pending : w.cmd = in.cmd

\* MethodCreateItem: the description is staged before the command is looked at.
StageCreate(in) ==
    /\ up = "serving" /\ step = "idle"
    /\ in.op = "create" /\ in.prev = Empty
    /\ Sendable(in)
    /\ stage' = [stage EXCEPT ![in.cmd] = in.text]
    /\ reused' = reused \cup {w.item : w \in {v \in pending : v.cmd = in.cmd /\ outcome[v.cmd] # in}}
    /\ input' = in
    /\ step' = "staged"
    /\ UNCHANGED <<database, dir, desc, up, queue, part, failures, edits, latest, torn, raced>>

\* editItem: a replay is noticed before anything is staged, and a new edit is
\* staged only over the text its author saw.
StageEdit(in) ==
    /\ up = "serving" /\ step = "idle"
    /\ in.op = "edit"
    /\ outcome[in.cmd] \in {NoInput, in}
    /\ outcome[in.cmd] = NoInput =>
         /\ \A w \in pending : ~(w.op = "edit" /\ w.item = in.item)
         /\ dir[in.item]
         /\ Text(in.item) = in.prev
    /\ stage' = IF outcome[in.cmd] = NoInput
                THEN [stage EXCEPT ![in.cmd] = in.text] ELSE stage
    /\ input' = in
    /\ step' = "staged"
    /\ UNCHANGED <<database, dir, desc, up, queue, part, failures, edits, history>>

\* MethodStoreCommand with an item_delete; its staged payload is never read.
RequestDelete(in) ==
    /\ up = "serving" /\ step = "idle"
    /\ in.op = "delete" /\ in.text = Empty /\ in.prev = Empty
    /\ outcome[in.cmd] \in {NoInput, in}
    /\ input' = in
    /\ step' = "staged"
    /\ UNCHANGED <<database, files, up, queue, part, failures, edits, history>>

----------------------------------------------------------------------------
(* The transaction *)

\* The state of the item that the command needs.
Applicable(in) == item[in.item] = IF in.op = "create" THEN "none" ELSE "there"

\* The pending writes a command adds: an edit that changes nothing adds none,
\* and an edit's write carries no sequence.
NewWrites(in) ==
    CASE in.op = "edit" -> IF in.text = in.prev THEN {} ELSE {Write(in, 0)}
      [] OTHER -> {Write(in, sequence + 1)}

\* executeCreateItemCommand, executeManifestCommand, ExecuteStoreCommand
Commit ==
    LET new == NewWrites(input) IN
    /\ step = "staged"
    /\ outcome[input.cmd] = NoInput
    /\ Applicable(input)
    /\ item' = [item EXCEPT ![input.item] =
                  IF input.op = "delete" THEN "deleted" ELSE "there"]
    /\ outcome' = [outcome EXCEPT ![input.cmd] = input]
    /\ pending' = pending \cup new
    /\ sequence' = sequence + 1
    /\ latest' = IF input.op # "delete" /\ new # {}
                 THEN [latest EXCEPT ![input.item] = input.text] ELSE latest
    /\ Loop(pending')
    /\ UNCHANGED <<files, up, input, failures, edits, torn, raced, reused>>

\* The stored result is returned again, and the pending writes are retried.
Duplicate ==
    /\ step = "staged"
    /\ outcome[input.cmd] = input
    /\ Loop(pending)
    /\ UNCHANGED <<database, files, up, input, failures, edits, history>>

\* The transaction fails: the ID was used with other input, the item is missing
\* or exists, its revision moved, its slug is taken.  The staged content goes.
Refuse ==
    /\ step = "staged"
    /\ outcome[input.cmd] # input
    /\ stage' = [stage EXCEPT ![input.cmd] = NotStaged]
    /\ Idle
    /\ UNCHANGED <<database, dir, desc, up, failures, edits, history>>

\* Any other manifest command also retries the pending writes.
OtherCommand ==
    /\ up = "serving" /\ step = "idle"
    /\ pending # {}
    /\ Loop(pending)
    /\ UNCHANGED <<database, files, up, input, failures, edits, history>>

----------------------------------------------------------------------------
(* MaterializeNativeWrites *)

Current == queue[1]
Writing(op, p) == step = "loop" /\ queue # <<>> /\ Current.op = op /\ part = p

\* Mutant: the description is read from the stage alone.
RecoverableFromStage(w) == stage[w.cmd] # NotStaged

\* materializeCreate reads the staged text, or the file written earlier.
Recoverable(w) == stage[w.cmd] # NotStaged \/ desc[w.item] # Absent

\* materializeCreate: os.WriteFile opens the file before it writes it, and an
\* existing file is left as it is.
OpenCreated ==
    /\ Writing("create", "begin")
    /\ Recoverable(Current)
    /\ dir' = [dir EXCEPT ![Current.item] = TRUE]
    /\ IF desc[Current.item] = Absent
       THEN /\ desc' = [desc EXCEPT ![Current.item] = Empty]
            /\ part' = "opened"
       ELSE /\ part' = "written"
            /\ UNCHANGED desc
    /\ UNCHANGED <<database, stage, up, input, step, queue, failures, edits, history>>

WriteCreated ==
    /\ Writing("create", "opened")
    /\ desc' = [desc EXCEPT ![Current.item] = stage[Current.cmd]]
    /\ part' = "written"
    /\ UNCHANGED <<database, dir, stage, up, input, step, queue, failures, edits, history>>

\* Mutant: the current text is not compared.
ReplaceableUnchecked(w) == dir[w.item] /\ stage[w.cmd] = w.text

\* materializeDescriptionEdit's checks, the second of them after the
\* replacement is prepared.
Replaceable(w) == dir[w.item] /\ Text(w.item) = w.prev /\ stage[w.cmd] = w.text

\* The rename already happened, or the replacement is ready.
CheckEdited ==
    /\ Writing("edit", "begin")
    /\ dir[Current.item]
    /\ Text(Current.item) = Current.text \/ Replaceable(Current)
    /\ part' = IF Text(Current.item) = Current.text THEN "written" ELSE "checked"
    /\ UNCHANGED <<database, files, up, input, step, queue, failures, edits, history>>

\* Any error keeps the staged content and the pending write, and the loop goes on.
SkipEdited ==
    /\ Writing("edit", "begin")
    /\ ~dir[Current.item] \/ (Text(Current.item) # Current.text /\ ~Replaceable(Current))
    /\ queue' = Tail(queue)
    /\ UNCHANGED <<database, files, up, input, step, part, failures, edits, history>>

RenameEdited ==
    /\ Writing("edit", "checked")
    /\ desc' = [desc EXCEPT ![Current.item] = Current.text]
    /\ part' = "written"
    /\ latest' = IF Text(Current.item) = Current.prev
                 THEN [latest EXCEPT ![Current.item] = Current.text] ELSE latest
    /\ UNCHANGED <<database, dir, stage, up, input, step, queue, failures, edits, torn, raced, reused>>

\* RemoveItem
RemoveDeleted ==
    /\ Writing("delete", "begin")
    /\ dir' = [dir EXCEPT ![Current.item] = FALSE]
    /\ desc' = [desc EXCEPT ![Current.item] = Absent]
    /\ part' = "written"
    /\ UNCHANGED <<database, stage, up, input, step, queue, failures, edits, history>>

\* RemoveStagedDescription, then ClearPendingNativeWrite.
Unstage ==
    /\ step = "loop" /\ queue # <<>> /\ part = "written"
    /\ stage' = [stage EXCEPT ![Current.cmd] = NotStaged]
    /\ part' = "unstaged"
    /\ UNCHANGED <<database, dir, desc, up, input, step, queue, failures, edits, history>>

ClearPending ==
    /\ step = "loop" /\ queue # <<>> /\ part = "unstaged"
    /\ pending' = pending \ {Current}
    /\ queue' = Tail(queue)
    /\ part' = "begin"
    /\ UNCHANGED <<item, outcome, sequence, files, up, input, step, failures, edits, history>>

\* The handler returns; MethodCreateItem first removes its staged content.
Finish ==
    /\ up = "serving" /\ step = "loop" /\ queue = <<>>
    /\ stage' = IF input.op = "create" THEN [stage EXCEPT ![input.cmd] = NotStaged] ELSE stage
    /\ Idle
    /\ UNCHANGED <<database, dir, desc, up, failures, edits, history>>

\* The files an unfinished write leaves half made.
TornNow == IF step = "loop" /\ queue # <<>> /\ part = "opened" THEN {Current.item} ELSE {}

\* A create or a delete that fails ends the loop, and a daemon that is
\* starting gives up.
Abandon ==
    /\ up' = IF up = "starting" THEN "down" ELSE up
    /\ Idle

\* No staged text and no file: the create cannot be carried out.
FailCreate ==
    /\ Writing("create", "begin")
    /\ ~Recoverable(Current)
    /\ Abandon
    /\ UNCHANGED <<database, files, failures, edits, history>>

\* A file operation fails.
FailWrite ==
    /\ step = "loop" /\ queue # <<>> /\ Current.op \in {"create", "delete"}
    /\ part \in {"begin", "opened"}
    /\ failures < MaxFailures
    /\ failures' = failures + 1
    /\ torn' = torn \cup TornNow
    /\ Abandon
    /\ UNCHANGED <<database, files, edits, latest, raced, reused>>

----------------------------------------------------------------------------
(* The daemon and the world *)

\* newServer
Start ==
    /\ up = "down"
    /\ up' = "starting"
    /\ Loop(pending)
    /\ UNCHANGED <<database, files, input, failures, edits, history>>

\* Mutant: no staged content is cleaned up.
NoOrphans == {}

\* CleanupOrphanedStages keeps the content of pending writes.
Orphans == Commands \ {w.cmd : w \in pending}

Serve ==
    /\ up = "starting" /\ queue = <<>>
    /\ up' = "serving"
    /\ stage' = [c \in Commands |-> IF c \in Orphans THEN NotStaged ELSE stage[c]]
    /\ Idle
    /\ UNCHANGED <<database, dir, desc, failures, edits, history>>

DaemonCrash ==
    /\ up # "down" /\ failures < MaxFailures
    /\ up' = "down"
    /\ failures' = failures + 1
    /\ torn' = torn \cup TornNow
    /\ Idle
    /\ UNCHANGED <<database, files, edits, latest, raced, reused>>

\* A person replaces a description file that is not just being created.
EditFile(i, t) ==
    /\ edits < MaxEdits
    /\ desc[i] \notin {Absent, t}
    /\ i \notin TornNow
    /\ edits' = edits + 1
    /\ desc' = [desc EXCEPT ![i] = t]
    /\ latest' = [latest EXCEPT ![i] = t]
    /\ raced' = IF Writing("edit", "checked") /\ Current.item = i THEN raced \cup {i} ELSE raced
    /\ UNCHANGED <<database, dir, stage, handler, failures, torn, reused>>

RequestNext == \E in \in Inputs : StageCreate(in) \/ StageEdit(in) \/ RequestDelete(in)
TransactionNext == Commit \/ Duplicate \/ Refuse \/ OtherCommand
WriteNext ==
    \/ OpenCreated \/ WriteCreated \/ CheckEdited \/ SkipEdited \/ RenameEdited
    \/ RemoveDeleted \/ Unstage \/ ClearPending \/ FailCreate
DaemonNext == Start \/ Serve \/ Finish

NativeNext ==
    \/ RequestNext \/ TransactionNext \/ WriteNext \/ DaemonNext
    \/ FailWrite \/ DaemonCrash
    \/ \E i \in Items, t \in Texts : EditFile(i, t)

\* The daemon is started again after it stops, and a started loop goes on.
NativeFairness == WF_nativeVars(WriteNext) /\ WF_nativeVars(DaemonNext)

NativeSpec == NativeInit /\ [][NativeNext]_nativeVars /\ NativeFairness
----------------------------------------------------------------------------
(* Properties *)

Writes == {Write(in, n) : in \in Inputs, n \in 0..sequence}

\* Every variable holds a value of its kind, and the loop's writes are pending.
NativeTypeOK ==
    /\ item \in [Items -> {"none", "there", "deleted"}]
    /\ outcome \in [Commands -> Inputs \cup {NoInput}]
    /\ pending \subseteq Writes
    /\ dir \in [Items -> BOOLEAN]
    /\ desc \in [Items -> Texts \cup {Absent}]
    /\ stage \in [Commands -> Texts \cup {NotStaged}]
    /\ up \in {"down", "starting", "serving"}
    /\ input \in Inputs \cup {NoInput}
    /\ step \in {"idle", "staged", "loop"}
    /\ ToSet(queue) \subseteq pending
    /\ part \in {"begin", "opened", "checked", "written", "unstaged"}

\* The last description is in the item's file, or staged for a pending write.
DescriptionKept(i) ==
    \/ desc[i] = latest[i]
    \/ \E w \in pending : w.item = i /\ w.text = latest[i] /\ stage[w.cmd] = latest[i]

\* A description once committed, or edited by a person, is in the item's file
\* or still staged for a pending write, whenever the daemon stops and whatever
\* fails, except for a file a stop left opened but unwritten, an edit made
\* inside the last check of a rename, and a pending text that a client replaced
\* by using its command's ID again (MaterializeNativeWrites).
DescriptionsSurvive ==
    \A i \in Items : item[i] = "there" /\ i \notin torn \cup raced \cup reused => DescriptionKept(i)

\* A deleted item's directory does not come back once its removal is done,
\* although a create of the same item may have been pending with it.
DeletedStaysDeleted ==
    \A i \in Items :
        item[i] = "deleted" /\ (\A w \in pending : ~(w.item = i /\ w.op = "delete")) => ~dir[i]

\* The files follow the items, over both.
FilesFollowItems == DescriptionsSurvive /\ DeletedStaysDeleted

\* When the daemon begins to serve, no create or delete is pending, and the
\* only staged contents are those of pending edits.
StartupSettlesWrites ==
    [][up = "starting" /\ up' = "serving" =>
         /\ \A w \in pending : w.op = "edit"
         /\ \A c \in Commands : stage'[c] # NotStaged => \E w \in pending : w.cmd = c]_nativeVars

\* However it stopped, the daemon comes up again, unless a client used the ID
\* of a pending command for other input: no pending write is in a state that
\* makes startup fail each time.
DaemonComesUp == up = "down" ~> up = "serving" \/ reused # {}
=============================================================================
