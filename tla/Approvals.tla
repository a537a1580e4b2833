----------------------------- MODULE Approvals -----------------------------
(***************************************************************************)
(* Trusting a checkout's .envrc before an agent starts                     *)
(* (plugins/direnv/direnv.go): a job asks a question, clients answer it    *)
(* (daemonapi/jobs.go), and what was answered is compared with the file    *)
(* before direnv is told to trust it.                                      *)
(*                                                                         *)
(* One checkout, and one start after the other: they hold the item's lock. *)
(* People edit the file and run direnv themselves at any time, several     *)
(* clients answer the same question, questions expire, jobs are cancelled, *)
(* summaries cannot be saved, and the daemon restarts.  A content stands   *)
(* for its digest.                                                         *)
(***************************************************************************)
EXTENDS Naturals, Sequences

CONSTANTS
    Contents,     \* what the file may hold
    MaxStarts,    \* bound: starts of the agent
    MaxEdits,     \* bound: edits of the file
    MaxFailures   \* bound: summaries that cannot be saved, and restarts

ASSUME ContentsAssumption == Contents # {}
ASSUME BoundsAssumption == MaxStarts \in Nat /\ MaxEdits \in Nat /\ MaxFailures \in Nat

VARIABLES
    file,        \* what the .envrc holds
    trusted,     \* the contents direnv trusts at this path
    policy,      \* the operator's setting, as the start read it
    pc,          \* where the start is
    before,      \* the file as it was before the first question
    asked,       \* the questions of this start, each the content it is about
    shown,       \* the last question is in the job's summary
    open,        \* j.answer: the channel may be sent to
    answer,      \* what the channel holds, or "none"
    decision,    \* what approve received
    expired,     \* the last question's expiry has passed
    job,         \* the state clients are shown
    cancelled,   \* the job's context has ended
    outcome,     \* how the start ended, or "none"
    consents,    \* history: the answers AnswerApproval accepted in this start
    slipped,     \* history: the file was edited after it was last compared with
                 \*   its question
    starts, edits, failures

question == <<asked, shown, open, answer, expired>>
world == <<file, trusted>>
bounds == <<starts, edits, failures>>
vars == <<world, policy, pc, before, question, decision, job, cancelled, outcome, consents, slipped, bounds>>

----------------------------------------------------------------------------
Policies == {"prompt", "always", "never"}
Decisions == {"allow", "deny"}
Finished == {"succeeded", "failed", "cancelled"}

NoQuestion == asked' = <<>> /\ shown' = FALSE /\ open' = FALSE /\ answer' = "none" /\ expired' = FALSE

Init ==
    /\ file \in Contents
    /\ trusted = {}
    /\ policy = "prompt"
    /\ pc = "idle"
    /\ before = file
    /\ asked = <<>> /\ shown = FALSE /\ open = FALSE /\ answer = "none" /\ expired = FALSE
    /\ decision = "none"
    /\ job = "succeeded"
    /\ cancelled = FALSE
    /\ outcome = "none"
    /\ consents = {}
    /\ slipped = FALSE
    /\ starts = 0 /\ edits = 0 /\ failures = 0

Go(next) == pc' = next /\ UNCHANGED outcome
Return(o) == pc' = "returned" /\ outcome' = o

----------------------------------------------------------------------------
(* The start of a runtime, implementation.runtime *)

\* A job starts the agent; direnv status says whether the file is trusted.
Begin(p) ==
    /\ pc = "idle"
    /\ starts < MaxStarts
    /\ starts' = starts + 1
    /\ policy' = p
    /\ pc' = IF file \in trusted THEN "load" ELSE "snapshot"
    /\ NoQuestion
    /\ decision' = "none"
    /\ job' = "running"
    /\ cancelled' = FALSE
    /\ outcome' = "none"
    /\ consents' = {}
    /\ slipped' = FALSE
    /\ UNCHANGED <<world, before, edits, failures>>

\* The first snapshot, and what the policy says of asking.
Snapshot ==
    /\ pc = "snapshot"
    /\ before' = file
    /\ CASE policy = "always" -> Go("compare")
         [] policy = "never" -> Return("declined")
         [] policy = "prompt" -> Go("ask")
    /\ UNCHANGED <<world, policy, question, decision, job, cancelled, consents, slipped, bounds>>

\* The second snapshot: only the content of the first goes on.
Compare ==
    /\ pc = "compare"
    /\ IF file = before THEN Go("allow") ELSE Return("changed")
    /\ UNCHANGED <<world, policy, before, question, decision, job, cancelled, consents, slipped, bounds>>

\* Mutant: direnv is run whatever became of the job.
AllowAnyway ==
    /\ pc = "allow"
    /\ trusted' = trusted \cup {file}
    /\ Go("load")
    /\ UNCHANGED <<file, policy, before, question, decision, job, cancelled, consents, slipped, bounds>>

\* direnv allow trusts what the file holds now; a cancelled context keeps the
\* command from starting.
Allow ==
    /\ pc = "allow"
    /\ IF cancelled THEN Return("cancelled") /\ UNCHANGED trusted
                    ELSE trusted' = trusted \cup {file} /\ Go("load")
    /\ UNCHANGED <<file, policy, before, question, decision, job, cancelled, consents, slipped, bounds>>

\* direnv exec refuses a file that it does not trust.
Load ==
    /\ pc = "load"
    /\ Return(CASE cancelled -> "cancelled"
                [] ~cancelled /\ file \in trusted -> "loaded"
                [] ~cancelled /\ file \notin trusted -> "changed")
    /\ UNCHANGED <<world, policy, before, question, decision, job, cancelled, consents, slipped, bounds>>

----------------------------------------------------------------------------
(* jobRun.approve *)

\* A question about the file as it is now, and a channel for its answer.
Ask ==
    /\ pc = "ask"
    /\ asked' = Append(asked, file)
    /\ open' = TRUE /\ answer' = "none" /\ expired' = FALSE
    /\ Go("publish")
    /\ UNCHANGED <<world, policy, before, shown, decision, job, cancelled, consents, slipped, bounds>>

\* jobRun.change: the summary becomes s, with or without the question; a save
\* that fails shows the job as failed for good and cancels it.
ChangeTo(s, withQuestion) ==
    /\ job \notin Finished
    /\ shown' = withQuestion
    /\ \/ job' = s /\ UNCHANGED <<cancelled, failures>>
       \/ /\ failures < MaxFailures
          /\ failures' = failures + 1
          /\ job' = "failed"
          /\ cancelled' = TRUE

ChangeRefused == job \in Finished /\ UNCHANGED <<job, shown, cancelled, failures>>

Publish ==
    /\ pc = "publish"
    /\ ChangeTo("waiting", TRUE) \/ ChangeRefused
    /\ IF job' = "waiting" THEN Go("wait") ELSE Return("failed")
    /\ UNCHANGED <<world, policy, before, asked, open, answer, expired, decision, consents, slipped, starts, edits>>

\* The select: the answer, the end of the context or the timer, whichever of
\* those that are ready it picks.
TakeAnswer ==
    /\ pc = "wait"
    /\ answer # "none"
    /\ decision' = answer
    /\ answer' = "none"
    /\ Go("resume")
    /\ UNCHANGED <<world, policy, before, asked, shown, open, expired, job, cancelled, consents, slipped, bounds>>

\* Mutant: no timer.
GiveUpWhenCancelled ==
    /\ pc = "wait"
    /\ cancelled /\ Return("cancelled")
    /\ UNCHANGED <<world, policy, before, question, decision, job, cancelled, consents, slipped, bounds>>

GiveUp ==
    /\ pc = "wait"
    /\ \/ cancelled /\ Return("cancelled")
       \/ expired /\ Return("expired")
    /\ UNCHANGED <<world, policy, before, question, decision, job, cancelled, consents, slipped, bounds>>

\* The job runs on; whether this could be saved is not looked at.
Resume ==
    /\ pc = "resume"
    /\ ChangeTo("running", FALSE) \/ ChangeRefused
    /\ IF decision = "deny" THEN Return("declined") ELSE Go("review")
    /\ UNCHANGED <<world, policy, before, asked, open, answer, expired, decision, consents, slipped, starts, edits>>

\* A file that changed since the question was asked needs another.
Review ==
    /\ pc = "review"
    /\ Go(IF file = asked[Len(asked)] THEN "compare" ELSE "ask")
    /\ UNCHANGED <<world, policy, before, question, decision, job, cancelled, consents, slipped, bounds>>

----------------------------------------------------------------------------
(* The rest of the job, and its clients *)

\* The job's outcome is recorded, and its question removed, if it can be saved.
Finish ==
    /\ pc = "returned"
    /\ \E s \in Finished :
           /\ s = "succeeded" <=> outcome \in {"loaded", "declined"}
           /\ s = "cancelled" => cancelled
           /\ ChangeTo(s, FALSE) \/ ChangeRefused
    /\ pc' = "idle"
    /\ UNCHANGED <<world, policy, before, asked, open, answer, expired, decision, outcome, consents, slipped, starts, edits>>

\* Mutant: the channel stays open once it was answered.
AcceptAgain(i, d) ==
    /\ i \in 1..Len(asked)
    /\ shown /\ i = Len(asked) /\ ~expired /\ answer = "none"
    /\ answer' = d
    /\ consents' = consents \cup {<<i, d>>}
    /\ UNCHANGED <<world, policy, pc, before, asked, shown, open, expired, decision, job, cancelled, outcome, slipped, bounds>>

\* AnswerApproval accepts one answer to the question that is shown, and refuses
\* every other one.
Accept(i, d) ==
    /\ i \in 1..Len(asked)
    /\ shown /\ open /\ i = Len(asked) /\ ~expired /\ answer = "none"
    /\ answer' = d
    /\ open' = FALSE
    /\ consents' = consents \cup {<<i, d>>}
    /\ UNCHANGED <<world, policy, pc, before, asked, shown, expired, decision, job, cancelled, outcome, slipped, bounds>>

\* Ten minutes after the question was asked.
Expire ==
    /\ asked # <<>> /\ ~expired
    /\ expired' = TRUE
    /\ UNCHANGED <<world, policy, pc, before, asked, shown, open, answer, decision, job, cancelled, outcome, consents, slipped, bounds>>

Cancel ==
    /\ pc # "idle" /\ ~cancelled
    /\ cancelled' = TRUE
    /\ UNCHANGED <<world, policy, pc, before, question, decision, job, outcome, consents, slipped, bounds>>

Edit ==
    /\ edits < MaxEdits
    /\ edits' = edits + 1
    /\ file' \in Contents \ {file}
    /\ slipped' = (slipped \/ pc \in {"compare", "allow"})
    /\ UNCHANGED <<trusted, policy, pc, before, question, decision, job, cancelled, outcome, consents, starts, failures>>

\* Somebody runs direnv in the checkout.
TrustByHand ==
    /\ file \notin trusted
    /\ trusted' = trusted \cup {file}
    /\ UNCHANGED <<file, policy, pc, before, question, decision, job, cancelled, outcome, consents, slipped, bounds>>

\* newPersistentJobRegistry marks the job and drops its question.
Restart ==
    /\ pc # "idle"
    /\ failures < MaxFailures
    /\ failures' = failures + 1
    /\ pc' = "idle"
    /\ outcome' = "failed"
    /\ job' = "failed"
    /\ cancelled' = TRUE
    /\ NoQuestion
    /\ decision' = "none"
    /\ consents' = {}
    /\ slipped' = FALSE
    /\ UNCHANGED <<world, policy, before, starts, edits>>

Run ==
    \/ Snapshot \/ Compare \/ Allow \/ Load
    \/ Ask \/ Publish \/ TakeAnswer \/ GiveUp \/ Resume \/ Review \/ Finish

Next ==
    \/ \E p \in Policies : Begin(p)
    \/ Run
    \/ \E i \in DOMAIN asked, d \in Decisions : Accept(i, d)
    \/ Expire \/ Cancel \/ Edit \/ TrustByHand \/ Restart

\* The job's goroutine runs, and time passes.
Fairness == WF_vars(Run) /\ WF_vars(Expire)

Spec == Init /\ [][Next]_vars /\ Fairness

----------------------------------------------------------------------------
(* Properties *)

\* Every variable holds a value of its kind.
TypeOK ==
    /\ file \in Contents /\ before \in Contents /\ trusted \subseteq Contents
    /\ policy \in Policies
    /\ pc \in {"idle", "snapshot", "ask", "publish", "wait", "resume", "review",
               "compare", "allow", "load", "returned"}
    /\ asked \in Seq(Contents)
    /\ shown \in BOOLEAN /\ open \in BOOLEAN /\ expired \in BOOLEAN /\ cancelled \in BOOLEAN
    /\ answer \in Decisions \cup {"none"} /\ decision \in Decisions \cup {"none"}
    /\ job \in Finished \cup {"running", "waiting"}
    /\ outcome \in {"none", "loaded", "declined", "changed", "expired", "cancelled", "failed"}
    /\ consents \subseteq (1..Len(asked)) \X Decisions
    /\ starts \in 0..MaxStarts /\ edits \in 0..MaxEdits /\ failures \in 0..MaxFailures

\* The start's last question was about content c and was answered so.
LastAnswer(d, c) == asked # <<>> /\ asked[Len(asked)] = c /\ <<Len(asked), d>> \in consents

\* What a start adds to direnv's trust is the content of its last question,
\* and a client allowed that question: never an answer to an earlier question,
\* to a file that has changed, or to nothing at all.  The operator's setting is
\* the other way.  A start whose job is shown as finished, because its summary
\* could not be saved, adds nothing any more, although it goes on until it
\* notices.  An edit after the last comparison with the question is not seen.
TrustOnlyByConsent ==
    [][\A c \in trusted' \ trusted :
           pc # pc' =>
               /\ job \notin Finished
               /\ policy = "always" \/ slipped \/ LastAnswer("allow", c)]_vars

\* Each question has one accepted answer, whoever sends what how often, and it
\* is the one that decides: an agent starts without its environment only when
\* the last question was denied or the operator's setting says so, and a denied
\* start never loads it.  An accepted answer goes unheard only when the question
\* has expired, or the job was cancelled or could not be saved.
AnswersDecide ==
    /\ \A i \in DOMAIN asked : ~({<<i, "allow">>, <<i, "deny">>} \subseteq consents)
    /\ outcome = "declined" => policy = "never" \/ \E c \in Contents : LastAnswer("deny", c)
    /\ \A c \in Contents :
           /\ LastAnswer("deny", c) =>
                  outcome \in {"none", "declined"} \/ expired \/ cancelled
           /\ LastAnswer("allow", c) /\ outcome \in {"expired", "failed"} => expired \/ cancelled

\* A start ends, answered or not: questions expire.
StartsEnd == pc # "idle" ~> pc = "idle"
=============================================================================
