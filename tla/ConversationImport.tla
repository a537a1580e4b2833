------------------------ MODULE ConversationImport ------------------------
(***************************************************************************)
(* The import of one item's conversation into its index                    *)
(* (coordinator/conversation_importer.go): several importers read a file   *)
(* that its agent appends to, decode it without a lock, and fold what they *)
(* read into the index under the domain lock if the checkpoint they        *)
(* started from is still there.                                            *)
(*                                                                         *)
(* A file is a sequence of records, complete lines; an offset counts       *)
(* records.  The index is the sequence of records folded into it.  A file  *)
(* may be replaced in place, an item's conversation may move to a fork of  *)
(* its file (app/agent_conversation.go), and the daemon may stop at any    *)
(* time.                                                                   *)
(***************************************************************************)
EXTENDS Naturals, Sequences

CONSTANTS
    Importers,        \* the loop, the snapshots and the barriers that import
    PrintSize,        \* records a fingerprint covers (4096 bytes)
    Batch,            \* records of a batch (runtimeBatchRecords)
    MaxRecords,       \* bound: records written
    MaxReplacements,  \* bound: replacements of the file
    MaxForks,         \* bound: forks
    MaxCrashes        \* bound: stops of the daemon

ASSUME SizesAssumption == PrintSize \in Nat \ {0} /\ Batch \in Nat \ {0}
ASSUME ImportBoundsAssumption ==
    /\ MaxRecords \in Nat /\ MaxReplacements \in Nat /\ MaxForks \in Nat /\ MaxCrashes \in Nat

VARIABLES
    files,         \* the conversation files, the item's current one last
    checkpoint,    \* the saved checkpoint of each file
    index,         \* the file the index is about, 0 for no index, and its records
    op,            \* each importer's import
    written,       \* counts records, so that each is told from the others
    hidden,        \* history: a replacement that no fingerprint can show
    belated,       \* history: an import of a file that was forked since, after the fork's
    replacements, crashes

importVars == <<files, checkpoint, index, op, written, hidden, belated, replacements, crashes>>

----------------------------------------------------------------------------
Sources == 1..(MaxForks + 1)
Current == Len(files)

Least(m, n) == IF m < n THEN m ELSE n
Prefix(s, n) == SubSeq(s, 1, Least(n, Len(s)))

NoCheckpoint == [found |-> FALSE, offset |-> 0, mark |-> <<>>]
Idle == [pc |-> "idle", src |-> 0, size |-> 0, start |-> NoCheckpoint, base |-> NoCheckpoint,
         reset |-> FALSE, offset |-> 0, facts |-> <<>>]

ImportInit ==
    /\ files = << <<>> >>
    /\ checkpoint = [s \in Sources |-> NoCheckpoint]
    /\ index = [src |-> 0, records |-> <<>>]
    /\ op = [i \in Importers |-> Idle]
    /\ written = 0
    /\ hidden = FALSE
    /\ belated = FALSE
    /\ replacements = 0
    /\ crashes = 0

world == <<files, written, hidden, replacements, crashes>>
saved == <<checkpoint, index, belated>>

----------------------------------------------------------------------------
(* importConversations, importConversationFile *)

\* The item's manifest is listed: the importer has its conversation's file.
\* Nothing keeps the import of a file from overlapping that of its fork.
List(i) ==
    /\ op[i].pc = "idle"
    /\ op' = [op EXCEPT ![i] = [Idle EXCEPT !.pc = "inspect", !.src = Current]]
    /\ UNCHANGED <<world, saved>>

\* Lstat
InspectFile(i) ==
    /\ op[i].pc = "inspect"
    /\ op' = [op EXCEPT ![i].pc = "checkpoint", ![i].size = Len(files[op[i].src])]
    /\ UNCHANGED <<world, saved>>

ReadCheckpoint(i) ==
    /\ op[i].pc = "checkpoint"
    /\ op' = [op EXCEPT ![i].pc = "fingerprint", ![i].start = checkpoint[op[i].src]]
    /\ UNCHANGED <<world, saved>>

\* Mutant: only a file that is shorter than before starts over.
ResetWhenShorter(o, mark) == ~o.start.found \/ o.start.offset > o.size \/ index.src = 0

\* The file is another one than the checkpoint's, or nothing was imported yet.
Reset(o, mark) ==
    ~o.start.found \/ o.start.mark # mark \/ o.start.offset > o.size \/ index.src = 0

\* The beginning of the file, as much of it as the checkpoint's fingerprint
\* covers, decides where reading starts.
Fingerprint(i) ==
    /\ op[i].pc = "fingerprint"
    /\ LET o == op[i]
           size == Least(Least(o.size, PrintSize), IF o.start.found THEN Len(o.start.mark) ELSE PrintSize)
           mark == Prefix(files[o.src], size)
           base == IF Reset(o, mark) THEN [found |-> TRUE, offset |-> 0, mark |-> mark] ELSE o.start
       IN op' = [op EXCEPT ![i].pc = "read", ![i].reset = Reset(o, mark),
                           ![i].base = base, ![i].offset = base.offset]
    /\ UNCHANGED <<world, saved>>

\* One more line, and its fact; a full batch is committed.
Read(i) ==
    /\ op[i].pc = "read"
    /\ op[i].offset < Len(files[op[i].src])
    /\ LET facts == Append(op[i].facts, files[op[i].src][op[i].offset + 1]) IN
       op' = [op EXCEPT ![i].facts = facts, ![i].offset = @ + 1,
                        ![i].pc = IF Len(facts) = Batch THEN "commit" ELSE "read"]
    /\ UNCHANGED <<world, saved>>

\* No further line: the rest is committed, if there is any.
ReadEnd(i) ==
    /\ op[i].pc = "read"
    /\ op[i].offset >= Len(files[op[i].src])
    /\ op' = [op EXCEPT ![i] = IF op[i].facts = <<>> THEN Idle ELSE [op[i] EXCEPT !.pc = "commitLast"]]
    /\ UNCHANGED <<world, saved>>

\* Mutant: only the beginning of the file is looked at.
SameFile(o) == checkpoint[o.src].mark = o.start.mark

\* The checkpoint is the one this import started from, or saved last.
Unmoved(o) ==
    /\ checkpoint[o.src].found = o.start.found
    /\ checkpoint[o.src].offset = o.start.offset
    /\ checkpoint[o.src].mark = o.start.mark

\* An import of a later file of the item was saved.
Overtaken(o) == \E s \in Sources : s > o.src /\ checkpoint[s].found

\* commit: under the domain lock, in one transaction, the facts are folded into
\* the item's index, or into an empty one, and the checkpoint moves.
Commit(i) ==
    /\ op[i].pc \in {"commit", "commitLast"}
    /\ Unmoved(op[i])
    /\ LET o == op[i]
           moved == [o.base EXCEPT !.offset = o.offset]
       IN /\ index' = IF o.reset THEN [src |-> o.src, records |-> o.facts]
                                 ELSE [index EXCEPT !.records = @ \o o.facts]
          /\ checkpoint' = [checkpoint EXCEPT ![o.src] = moved]
          /\ belated' = (belated \/ Overtaken(o))
          /\ op' = [op EXCEPT ![i] =
                       IF o.pc = "commitLast" THEN Idle
                       ELSE [o EXCEPT !.pc = "read", !.start = moved, !.base = moved,
                                      !.reset = FALSE, !.facts = <<>>]]
    /\ UNCHANGED world

\* errImportRaced: another import moved the checkpoint.
Raced(i) ==
    /\ op[i].pc \in {"commit", "commitLast"}
    /\ ~Unmoved(op[i])
    /\ op' = [op EXCEPT ![i] = Idle]
    /\ UNCHANGED <<world, saved>>

----------------------------------------------------------------------------
(* The agents and their files *)

\* The agent's runtime appends a record.
AgentAppends ==
    /\ written < MaxRecords
    /\ written' = written + 1
    /\ files' = [files EXCEPT ![Current] = Append(@, written')]
    /\ UNCHANGED <<saved, op, hidden, replacements, crashes>>

\* The file is cut off, or filled with other records.  Whether its beginning is
\* still the one of the checkpoint is all that an importer can see.
Replace ==
    /\ replacements < MaxReplacements
    /\ replacements' = replacements + 1
    /\ \E keep \in 0..(Len(files[Current]) - 1), n \in 0..(MaxRecords - written) :
          /\ files' = [files EXCEPT ![Current] = Prefix(@, keep) \o [k \in 1..n |-> written + k]]
          /\ written' = written + n
          /\ hidden' = (hidden \/ keep > 0)
    /\ UNCHANGED <<saved, op, crashes>>

\* ForkConversation copies the records behind a header of its own, and the
\* manifest's conversation becomes the copy; the first record is the header.
Fork ==
    /\ Len(files) <= MaxForks
    /\ files[Current] # <<>>
    /\ written' = written + 1
    /\ files' = Append(files, <<written'>> \o Tail(files[Current]))
    /\ UNCHANGED <<saved, op, hidden, replacements, crashes>>

Crash ==
    /\ crashes < MaxCrashes
    /\ crashes' = crashes + 1
    /\ op' = [i \in Importers |-> Idle]
    /\ UNCHANGED <<files, written, hidden, replacements, saved>>

ImportStep(i) ==
    \/ List(i) \/ InspectFile(i) \/ ReadCheckpoint(i) \/ Fingerprint(i)
    \/ Read(i) \/ ReadEnd(i) \/ Commit(i) \/ Raced(i)

ImportNext ==
    \/ \E i \in Importers : ImportStep(i)
    \/ AgentAppends \/ Replace \/ Fork \/ Crash

\* The import loop runs, and what was asked to import is done.
ImportFairness == \A i \in Importers : WF_importVars(ImportStep(i))

ImportSpec == ImportInit /\ [][ImportNext]_importVars /\ ImportFairness

----------------------------------------------------------------------------
(* Properties *)

Checkpoints == [found : BOOLEAN, offset : Nat, mark : Seq(Nat)]

\* Every variable holds a value of its kind.
ImportTypeOK ==
    /\ files \in Seq(Seq(Nat)) /\ Current \in Sources
    /\ checkpoint \in [Sources -> Checkpoints]
    /\ index \in [src : 0..Current, records : Seq(Nat)]
    /\ op \in [Importers -> [pc : {"idle", "inspect", "checkpoint", "fingerprint", "read", "commit", "commitLast"},
                             src : 0..Current, size : Nat, start : Checkpoints, base : Checkpoints,
                             reset : BOOLEAN, offset : Nat, facts : Seq(Nat)]]
    /\ written \in Nat /\ hidden \in BOOLEAN /\ belated \in BOOLEAN /\ replacements \in Nat /\ crashes \in Nat

\* Concurrent imports never apply records twice (docs/design/
\* live-content-stream.md).  The code does not keep it: a checkpoint is kept by
\* file, the index by item (commit), so the import of an item's old file that is
\* under way while the conversation moves to a fork is not stopped by the fork's
\* import, and folds records into the index that the fork's copies brought.
ImportsNeverRepeat ==
    \A k, l \in DOMAIN index.records : k # l => index.records[k] # index.records[l]

\* What the code does keep: while files are only appended to and forked, and no
\* import of an old file is saved after one of its fork, the index holds exactly
\* the records up to the checkpoint of the file it is about, in order: importers
\* that race, are interrupted or read a file while it grows neither lose nor
\* repeat one.
IndexFollowsFile ==
    index.src # 0 /\ replacements = 0 /\ ~belated =>
        /\ checkpoint[index.src].found
        /\ index.records = Prefix(files[index.src], checkpoint[index.src].offset)
        /\ checkpoint[index.src].offset <= Len(files[index.src])

\* The index comes to be about the item's current file and to hold all of it,
\* also after the file was replaced under an import or the conversation moved to
\* a fork.  Four cases escape: a file that was replaced behind a beginning that
\* stayed, one that was still empty when its first import looked at its size (the
\* fingerprint covers nothing), one that is empty for good, and a belated import of
\* a file that was forked.
IndexCatchesUp ==
    <>[](\/ hidden
         \/ belated
         \/ checkpoint[Current].found /\ checkpoint[Current].mark = <<>>
         \/ files[Current] = <<>>
         \/ index.src = Current /\ index.records = files[Current])
=============================================================================
