----------------------------- MODULE AgentProofs -----------------------------
(***************************************************************************)
(* Proofs about a running agent: Approvals, what it is started with, and   *)
(* LiveContent, what it is seen to do.                                     *)
(*                                                                         *)
(* Approvals, for every set of contents and every value of the bounds:     *)
(* which answer decides, and that nothing is trusted without consent.      *)
(* LiveContent, for all texts, calls, prompts, watchers and limits: that a *)
(* stream tells its reader everything, and that a client shows what the    *)
(* stream shows and drops only text that history has.  What an update's    *)
(* events amount to is proved by induction over them.  That every start    *)
(* ends and that watchers catch up are left to TLC.                        *)
(***************************************************************************)
EXTENDS Approvals, LiveContent, SequenceTheorems, WellFoundedInduction, TLAPS

(***************************************************************************)
(*                                Approvals                                *)
(***************************************************************************)
----------------------------------------------------------------------------
(* The inductive invariant *)

\* The answer d was accepted to the start's last question.
Answered(d) == asked # <<>> /\ <<Len(asked), d>> \in consents

\* Only a start that asks goes through approve, and has asked before it waits.
PhaseOfPolicy ==
    /\ policy = "never" => pc \in {"idle", "snapshot", "load", "returned"}
    /\ policy = "always" => pc \notin {"ask", "publish", "wait", "resume", "review"}
    /\ pc \in {"publish", "wait", "resume", "review"} => asked # <<>>

\* A channel that may be sent to has not been; what it holds was accepted, and
\* each question has one accepted answer.
OneAnswerEach ==
    /\ open => ~Answered("allow") /\ ~Answered("deny")
    /\ answer # "none" => ~open /\ Answered(answer)
    /\ \A i \in DOMAIN asked : ~({<<i, "allow">>, <<i, "deny">>} \subseteq consents)

\* After the select approve acts on the answer to its last question, and goes
\* on to trust the file only while that is what the question was about.
ActsOnAnswer ==
    /\ pc = "resume" => ~open /\ decision # "none" /\ Answered(decision)
    /\ pc = "review" => Answered("allow")
    /\ pc \in {"compare", "allow"} /\ policy = "prompt" =>
          Answered("allow") /\ (slipped \/ file = asked[Len(asked)])

\* A job that finished under its start, and a question that is still shown
\* where nobody waits for it, have been cancelled, or the question expired.
LeftoversAreDead ==
    /\ pc # "idle" /\ job \in Finished => cancelled
    /\ shown /\ ~cancelled => \/ pc \in {"wait", "resume"}
                              \/ pc \in {"returned", "idle"} /\ expired

\* A start has an outcome once it returned; a denial that can still be heard
\* is either on its way or is that outcome.
OutcomeFollows ==
    /\ pc \notin {"returned", "idle"} => outcome = "none"
    /\ outcome \in {"expired", "failed"} => expired \/ cancelled
    /\ outcome = "declined" => policy = "never" \/ Answered("deny")
    /\ Answered("deny") /\ ~expired /\ ~cancelled =>
          pc \in {"wait", "resume"} \/ outcome = "declined"

ConsentInv ==
    /\ PhaseOfPolicy
    /\ OneAnswerEach
    /\ ActsOnAnswer
    /\ LeftoversAreDead
    /\ OutcomeFollows

ApprovalInv == TypeOK /\ ConsentInv

----------------------------------------------------------------------------
(* Type correctness *)

\* A summary keeps the job, the question's visibility and the count of failures
\* typed, whether it was saved or not (jobRun.change).
LEMMA ChangeType ==
    ASSUME TypeOK, NEW s \in Finished \cup {"running", "waiting"}, NEW withQuestion \in BOOLEAN,
           ChangeTo(s, withQuestion) \/ ChangeRefused
    PROVE  /\ shown' \in BOOLEAN /\ cancelled' \in BOOLEAN
           /\ job' \in Finished \cup {"running", "waiting"}
           /\ failures' \in 0..MaxFailures
<1>1. failures' \in 0..MaxFailures
  BY BoundsAssumption DEF TypeOK, ChangeTo, ChangeRefused
<1>2. CASE ChangeTo(s, withQuestion)
  BY <1>1, <1>2 DEF TypeOK, ChangeTo, Finished
<1>3. CASE ChangeRefused
  BY <1>1, <1>3 DEF TypeOK, ChangeRefused
<1> QED BY <1>2, <1>3

\* One step per action.
LEMMA TypeOKInductive ==
    ASSUME TypeOK, [Next]_vars
    PROVE  TypeOK'
<1> USE DEF world, question, bounds
<1>1. ASSUME NEW p \in Policies, Begin(p) PROVE TypeOK'
  <2>1. starts' \in 0..MaxStarts
    BY <1>1, BoundsAssumption DEF Begin, TypeOK
  <2>2. asked' = <<>> /\ asked' \in Seq(Contents) /\ consents' = {}
    BY <1>1 DEF Begin, NoQuestion
  <2> QED BY <1>1, <2>1, <2>2 DEF Begin, NoQuestion, TypeOK, Policies
<1>2. CASE Snapshot
  BY <1>2 DEF Snapshot, Go, Return, TypeOK, Policies
<1>3. CASE Compare
  BY <1>3 DEF Compare, Go, Return, TypeOK
<1>4. CASE Allow
  BY <1>4 DEF Allow, Go, Return, TypeOK
<1>5. CASE Load
  BY <1>5 DEF Load, Return, TypeOK
<1>6. CASE Ask
  <2>1. asked' \in Seq(Contents) /\ Len(asked') = Len(asked) + 1
    BY <1>6 DEF Ask, TypeOK
  <2>2. consents' \subseteq (1..Len(asked')) \X Decisions
    BY <1>6, <2>1 DEF Ask, TypeOK
  <2> QED BY <1>6, <2>1, <2>2 DEF Ask, Go, TypeOK
<1>7. CASE Publish
  <2>1. /\ shown' \in BOOLEAN /\ cancelled' \in BOOLEAN
        /\ job' \in Finished \cup {"running", "waiting"} /\ failures' \in 0..MaxFailures
    BY <1>7, ChangeType DEF Publish
  <2> QED BY <1>7, <2>1 DEF Publish, Go, Return, TypeOK
<1>8. CASE TakeAnswer
  BY <1>8 DEF TakeAnswer, Go, TypeOK
<1>9. CASE GiveUp
  BY <1>9 DEF GiveUp, Return, TypeOK
<1>10. CASE Resume
  <2>1. /\ shown' \in BOOLEAN /\ cancelled' \in BOOLEAN
        /\ job' \in Finished \cup {"running", "waiting"} /\ failures' \in 0..MaxFailures
    BY <1>10, ChangeType DEF Resume
  <2> QED BY <1>10, <2>1 DEF Resume, Go, Return, TypeOK
<1>11. CASE Review
  BY <1>11 DEF Review, Go, TypeOK
<1>12. CASE Finish
  <2>1. /\ shown' \in BOOLEAN /\ cancelled' \in BOOLEAN
        /\ job' \in Finished \cup {"running", "waiting"} /\ failures' \in 0..MaxFailures
    BY <1>12, ChangeType DEF Finish
  <2> QED BY <1>12, <2>1 DEF Finish, TypeOK
<1>13. ASSUME NEW i \in DOMAIN asked, NEW d \in Decisions, Accept(i, d) PROVE TypeOK'
  <2>1. consents' \subseteq (1..Len(asked')) \X Decisions
    BY <1>13 DEF Accept, TypeOK
  <2> QED BY <1>13, <2>1 DEF Accept, TypeOK
<1>14. CASE Expire
  BY <1>14 DEF Expire, TypeOK
<1>15. CASE Cancel
  BY <1>15 DEF Cancel, TypeOK
<1>16. CASE Edit
  BY <1>16, BoundsAssumption DEF Edit, TypeOK
<1>17. CASE TrustByHand
  BY <1>17 DEF TrustByHand, TypeOK
<1>18. CASE Restart
  <2>1. failures' \in 0..MaxFailures
    BY <1>18, BoundsAssumption DEF Restart, TypeOK
  <2>2. asked' = <<>> /\ asked' \in Seq(Contents) /\ consents' = {}
    BY <1>18 DEF Restart, NoQuestion
  <2> QED BY <1>18, <2>1, <2>2 DEF Restart, NoQuestion, TypeOK, Finished
<1>19. CASE UNCHANGED vars
  BY <1>19 DEF vars, TypeOK
<1> QED
  BY <1>1, <1>2, <1>3, <1>4, <1>5, <1>6, <1>7, <1>8, <1>9, <1>10, <1>11, <1>12, <1>13, <1>14,
     <1>15, <1>16, <1>17, <1>18, <1>19 DEF Next, Run

----------------------------------------------------------------------------
(* The invariant is inductive *)

\* One step per action.
LEMMA ConsentInvInductive ==
    ASSUME ApprovalInv, [Next]_vars
    PROVE  ConsentInv'
<1> USE DEF ApprovalInv, ConsentInv, PhaseOfPolicy, OneAnswerEach, ActsOnAnswer, LeftoversAreDead,
            OutcomeFollows, Answered, TypeOK, world, question, bounds, Finished, Decisions, Policies
<1>1. ASSUME NEW p \in Policies, Begin(p) PROVE ConsentInv'
  BY <1>1 DEF Begin, NoQuestion, Go
<1>2. CASE Snapshot
  BY <1>2 DEF Snapshot, Go, Return
<1>3. CASE Compare
  BY <1>3 DEF Compare, Go, Return
<1>4. CASE Allow
  BY <1>4 DEF Allow, Go, Return
<1>5. CASE Load
  BY <1>5 DEF Load, Return
<1>6. CASE Ask
  BY <1>6 DEF Ask, Go
<1>7. CASE Publish
  BY <1>7 DEF Publish, ChangeTo, ChangeRefused, Go, Return
<1>8. CASE TakeAnswer
  BY <1>8 DEF TakeAnswer, Go
<1>9. CASE GiveUp
  BY <1>9 DEF GiveUp, Return
<1>10. CASE Resume
  BY <1>10 DEF Resume, ChangeTo, ChangeRefused, Go, Return
<1>11. CASE Review
  BY <1>11 DEF Review, Go
<1>12. CASE Finish
  BY <1>12 DEF Finish, ChangeTo, ChangeRefused
<1>13. ASSUME NEW i \in DOMAIN asked, NEW d \in Decisions, Accept(i, d) PROVE ConsentInv'
  <2>1. PhaseOfPolicy' /\ LeftoversAreDead'
    BY <1>13 DEF Accept
  <2>2. OneAnswerEach'
    BY <1>13 DEF Accept
  <2>3. ActsOnAnswer'
    BY <1>13 DEF Accept
  <2>4. OutcomeFollows'
    BY <1>13 DEF Accept
  <2> QED
    <3> HIDE DEF PhaseOfPolicy, LeftoversAreDead, OneAnswerEach, ActsOnAnswer, OutcomeFollows
    <3> QED BY <2>1, <2>2, <2>3, <2>4
<1>14. CASE Expire
  BY <1>14 DEF Expire
<1>15. CASE Cancel
  BY <1>15 DEF Cancel
<1>16. CASE Edit
  <2>1. PhaseOfPolicy' /\ LeftoversAreDead' /\ OneAnswerEach'
    BY <1>16 DEF Edit
  <2>2. ActsOnAnswer'
    BY <1>16 DEF Edit
  <2>3. OutcomeFollows'
    BY <1>16 DEF Edit
  <2> QED
    <3> HIDE DEF PhaseOfPolicy, LeftoversAreDead, OneAnswerEach, ActsOnAnswer, OutcomeFollows
    <3> QED BY <2>1, <2>2, <2>3
<1>17. CASE TrustByHand
  BY <1>17 DEF TrustByHand
<1>18. CASE Restart
  BY <1>18 DEF Restart, NoQuestion
<1>19. CASE UNCHANGED vars
  BY <1>19 DEF vars
<1> QED
  <2> HIDE DEF ApprovalInv, ConsentInv
  <2> QED
    BY <1>1, <1>2, <1>3, <1>4, <1>5, <1>6, <1>7, <1>8, <1>9, <1>10, <1>11, <1>12, <1>13, <1>14,
       <1>15, <1>16, <1>17, <1>18, <1>19 DEF Next, Run

\* The invariant holds of every reachable state.
THEOREM ConsentInvariant == Spec => []ApprovalInv
<1>1. Init => ApprovalInv
  <2> SUFFICES ASSUME Init PROVE ApprovalInv
    OBVIOUS
  <2>1. TypeOK
    <3>1. asked = <<>> /\ asked \in Seq(Contents) /\ consents \subseteq (1..Len(asked)) \X Decisions
      BY DEF Init
    <3>2. starts \in 0..MaxStarts /\ edits \in 0..MaxEdits /\ failures \in 0..MaxFailures
      BY BoundsAssumption DEF Init
    <3> QED BY <3>1, <3>2 DEF Init, TypeOK, Policies, Finished
  <2>2. ConsentInv
    BY DEF Init, ConsentInv, PhaseOfPolicy, OneAnswerEach, ActsOnAnswer, LeftoversAreDead,
       OutcomeFollows, Answered
  <2> QED BY <2>1, <2>2 DEF ApprovalInv
<1>2. ApprovalInv /\ [Next]_vars => ApprovalInv'
  BY TypeOKInductive, ConsentInvInductive DEF ApprovalInv
<1> QED BY <1>1, <1>2, PTL DEF Spec

----------------------------------------------------------------------------
(* What follows *)

\* Each question has one accepted answer, and it is the one that decides
\* (AnswerApproval, jobRun.approve).
THEOREM AcceptedAnswersDecide == Spec => []AnswersDecide
<1>1. ApprovalInv => AnswersDecide
  <2> SUFFICES ASSUME ApprovalInv PROVE AnswersDecide
    OBVIOUS
  <2> USE DEF ApprovalInv, ConsentInv
  <2>1. asked # <<>> => asked[Len(asked)] \in Contents
    BY DEF TypeOK
  <2>2. \A i \in DOMAIN asked : ~({<<i, "allow">>, <<i, "deny">>} \subseteq consents)
    BY DEF OneAnswerEach
  <2>3. outcome = "declined" => policy = "never" \/ \E c \in Contents : LastAnswer("deny", c)
    BY <2>1 DEF OutcomeFollows, Answered, LastAnswer
  <2>4. ASSUME NEW c \in Contents, LastAnswer("deny", c)
        PROVE  outcome \in {"none", "declined"} \/ expired \/ cancelled
    BY <2>4 DEF OutcomeFollows, Answered, LastAnswer
  <2>5. outcome \in {"expired", "failed"} => expired \/ cancelled
    BY DEF OutcomeFollows
  <2> QED BY <2>2, <2>3, <2>4, <2>5 DEF AnswersDecide
<1> QED BY <1>1, ConsentInvariant, PTL

\* A start adds a content to direnv's trust only while its job is not finished,
\* and only the one a client allowed in answer to the start's last question,
\* unless the setting is "always" or the file was edited after it was compared.
THEOREM NothingTrustedWithoutConsent == Spec => TrustOnlyByConsent
<1>1. ASSUME ApprovalInv, [Next]_vars, NEW c \in trusted' \ trusted, pc # pc'
      PROVE  /\ job \notin Finished
             /\ policy = "always" \/ slipped \/ LastAnswer("allow", c)
  <2>1. Allow
    BY <1>1 DEF Next, Run, vars, world, Begin, Snapshot, Compare, Load, Ask, Publish, TakeAnswer,
       GiveUp, Resume, Review, Finish, Accept, Expire, Cancel, Edit, TrustByHand, Restart
  <2>2. c = file /\ ~cancelled /\ pc = "allow"
    BY <1>1, <2>1 DEF Allow, Return
  <2>3. job \notin Finished
    BY <1>1, <2>2 DEF ApprovalInv, ConsentInv, LeftoversAreDead
  <2>4. policy \in {"prompt", "always"}
    BY <1>1, <2>2 DEF ApprovalInv, ConsentInv, PhaseOfPolicy, TypeOK, Policies
  <2> QED
    BY <1>1, <2>2, <2>3, <2>4 DEF ApprovalInv, ConsentInv, ActsOnAnswer, Answered, LastAnswer
<1>2. ApprovalInv /\ [Next]_vars =>
        [\A c \in trusted' \ trusted :
            pc # pc' =>
               /\ job \notin Finished
               /\ policy = "always" \/ slipped \/ LastAnswer("allow", c)]_vars
  BY <1>1
<1> QED BY <1>2, ConsentInvariant, PTL DEF Spec, TrustOnlyByConsent

(***************************************************************************)
(*                               LiveContent                               *)
(***************************************************************************)
----------------------------------------------------------------------------
(* Folds: the snapshots on the way through events *)

\* Induction: what does not hold of every number fails first at some number.
LEMMA LeastNumber ==
    ASSUME NEW T \in SUBSET Nat, T # {}
    PROVE  \E x \in T : \A y \in T : x <= y
<1> DEFINE R == {ss \in Nat \X Nat : ss[1] < ss[2]}
<1>1. IsWellFoundedOn(R, Nat)
  BY NatLessThanWellFounded DEF OpToRel
<1>2. PICK x \in T : \A y \in T : ~ (<<y, x>> \in R)
  <2> HIDE DEF R
  <2> QED BY <1>1, WFMin
<1>3. \A y \in T : ~(y < x)
  <2> SUFFICES ASSUME NEW y \in T, y < x PROVE FALSE
    OBVIOUS
  <2>1. <<y, x>> \in R
    OBVIOUS
  <2> QED BY <1>2, <2>1
<1> QED BY <1>3

\* The three folds of the model: content events into a snapshot, events into
\* a subscriber, the links other than q into a new list.
FoldStep(kind, q, v, e) ==
    IF kind = "content" THEN Apply(v, e)
    ELSE IF kind = "queue" THEN Queued(v, e)
    ELSE IF e = q THEN v ELSE Append(v, e)

\* f goes through the first n of the events, starting at v.
Goes(kind, q, f, v, events, n) ==
    f = [k \in 0 .. n |-> IF k = 0 THEN v ELSE FoldStep(kind, q, f[k - 1], events[k])]

\* There is a way through any number of events.
LEMMA WayExists ==
    ASSUME NEW kind, NEW q, NEW v, NEW events, NEW n \in Nat
    PROVE  \E f : Goes(kind, q, f, v, events, n)
<1> DEFINE bad == {k \in Nat : ~ \E f : Goes(kind, q, f, v, events, k)}
<1> SUFFICES ASSUME bad # {} PROVE FALSE
  OBVIOUS
<1>1. PICK k \in bad : \A j \in bad : k <= j
  <2> bad \in SUBSET Nat
    OBVIOUS
  <2> QED BY LeastNumber
<1>2. k # 0
  <2>1. Goes(kind, q, [j \in 0 .. 0 |-> v], v, events, 0)
    BY DEF Goes
  <2> QED BY <2>1
<1>3. k - 1 \in Nat /\ k - 1 \notin bad
  BY <1>1, <1>2
<1>4. PICK f : Goes(kind, q, f, v, events, k - 1)
  BY <1>3
<1> DEFINE g == [j \in 0 .. k |-> IF j = k THEN FoldStep(kind, q, f[k - 1], events[k]) ELSE f[j]]
<1>5. \A j \in 0 .. k - 1 : g[j] = f[j]
  BY <1>1
<1>6. \A j \in 0 .. k : g[j] = IF j = 0 THEN v ELSE FoldStep(kind, q, g[j - 1], events[j])
  <2> SUFFICES ASSUME NEW j \in 0 .. k
               PROVE  g[j] = IF j = 0 THEN v ELSE FoldStep(kind, q, g[j - 1], events[j])
    OBVIOUS
  <2>1. CASE j = k
    <3>1. g[k] = FoldStep(kind, q, f[k - 1], events[k]) /\ k - 1 \in 0 .. k - 1
      BY <1>1, <1>2
    <3> QED BY <1>2, <1>5, <2>1, <3>1
  <2>2. CASE j # k
    <3>1. j \in 0 .. k - 1 /\ (j # 0 => j - 1 \in 0 .. k - 1)
      BY <1>1, <2>2
    <3>2. f[j] = IF j = 0 THEN v ELSE FoldStep(kind, q, f[j - 1], events[j])
      BY <1>4, <3>1 DEF Goes
    <3> QED BY <1>5, <3>1, <3>2
  <2> QED BY <2>1, <2>2
<1>7. Goes(kind, q, g, v, events, k)
  <2>1. g = [j \in 0 .. k |-> g[j]]
    OBVIOUS
  <2> HIDE DEF g
  <2> QED BY <1>6, <2>1 DEF Goes
<1> QED BY <1>1, <1>7

\* The snapshots on the way are what the recursion says.
LEMMA AfterGoes ==
    ASSUME NEW v, NEW events, Len(events) \in Nat
    PROVE  /\ After(v, events)[0] = v
           /\ \A k \in 1 .. Len(events) : After(v, events)[k] = Apply(After(v, events)[k - 1], events[k])
<1> DEFINE G(f) == f = [k \in 0 .. Len(events) |-> IF k = 0 THEN v ELSE Apply(f[k - 1], events[k])]
<1>1. After(v, events) = CHOOSE f : G(f)
  BY DEF After
<1>2. PICK f : Goes("content", 0, f, v, events, Len(events))
  BY WayExists
<1>3. G(f)
  BY <1>2, SMT DEF Goes, FoldStep
<1>4. G(After(v, events))
  <2> HIDE DEF G
  <2> QED BY <1>1, <1>3
<1> HIDE DEF After
<1> DEFINE way == After(v, events)
<1>5. \A k \in 0 .. Len(events) : way[k] = IF k = 0 THEN v ELSE Apply(way[k - 1], events[k])
  BY <1>4
<1> HIDE DEF way
<1>6. 0 \in 0 .. Len(events)
  OBVIOUS
<1> QED BY <1>5, <1>6 DEF way

\* So is a subscriber.
LEMMA SentGoes ==
    ASSUME NEW s, NEW events, Len(events) \in Nat
    PROVE  /\ Sent(s, events)[0] = s
           /\ \A k \in 1 .. Len(events) : Sent(s, events)[k] = Queued(Sent(s, events)[k - 1], events[k])
<1> DEFINE G(f) == f = [k \in 0 .. Len(events) |-> IF k = 0 THEN s ELSE Queued(f[k - 1], events[k])]
<1>1. Sent(s, events) = CHOOSE f : G(f)
  BY DEF Sent
<1>2. PICK f : Goes("queue", 0, f, s, events, Len(events))
  BY WayExists
<1>3. G(f)
  BY <1>2, SMT DEF Goes, FoldStep
<1>4. G(Sent(s, events))
  <2> HIDE DEF G
  <2> QED BY <1>1, <1>3
<1> HIDE DEF Sent
<1> DEFINE way == Sent(s, events)
<1>5. \A k \in 0 .. Len(events) : way[k] = IF k = 0 THEN s ELSE Queued(way[k - 1], events[k])
  BY <1>4
<1> HIDE DEF way
<1>6. 0 \in 0 .. Len(events)
  OBVIOUS
<1> QED BY <1>5, <1>6 DEF way

\* So are the links other than q.
LEMMA OthersGoes ==
    ASSUME NEW links, NEW q, Len(links) \in Nat
    PROVE  /\ Others(links, q)[0] = <<>>
           /\ \A k \in 1 .. Len(links) : Others(links, q)[k] = IF links[k] = q THEN Others(links, q)[k - 1] ELSE Append(Others(links, q)[k - 1], links[k])
<1> DEFINE G(f) == f = [k \in 0 .. Len(links) |-> IF k = 0 THEN <<>> ELSE IF links[k] = q THEN f[k - 1] ELSE Append(f[k - 1], links[k])]
<1>1. Others(links, q) = CHOOSE f : G(f)
  BY DEF Others
<1>2. PICK f : Goes("links", q, f, <<>>, links, Len(links))
  BY WayExists
<1>3. G(f)
  <2>1. \A l, e : FoldStep("links", q, l, e) = IF e = q THEN l ELSE Append(l, e)
    BY DEF FoldStep
  <2> HIDE DEF FoldStep
  <2> QED BY <1>2, <2>1 DEF Goes
<1>4. G(Others(links, q))
  <2> HIDE DEF G
  <2> QED BY <1>1, <1>3
<1> HIDE DEF Others
<1> DEFINE way == Others(links, q)
<1>5. \A k \in 0 .. Len(links) : way[k] = IF k = 0 THEN <<>> ELSE IF links[k] = q THEN way[k - 1] ELSE Append(way[k - 1], links[k])
  BY <1>4
<1> HIDE DEF way
<1>6. 0 \in 0 .. Len(links)
  OBVIOUS
<1> QED BY <1>5, <1>6 DEF way

\* The first n events of p are those of q after the first d, which lead to u.
Aligned(u, p, v, q, n, d) ==
    /\ n \in Nat /\ d \in Nat /\ Len(p) \in Nat /\ Len(q) \in Nat
    /\ n <= Len(p) /\ n + d <= Len(q)
    /\ After(v, q)[d] = u
    /\ \A k \in 1 .. n : p[k] = q[k + d]

\* Two aligned sequences go the same way.
LEMMA SameWay ==
    ASSUME NEW u, NEW v, NEW p, NEW q, NEW n, NEW d, Aligned(u, p, v, q, n, d)
    PROVE  \A k \in 0 .. n : After(u, p)[k] = After(v, q)[k + d]
<1> USE DEF Aligned
<1> DEFINE bad == {k \in 0 .. n : After(u, p)[k] # After(v, q)[k + d]}
<1> SUFFICES ASSUME bad # {} PROVE FALSE
  OBVIOUS
<1>1. PICK k \in bad : \A j \in bad : k <= j
  <2> bad \in SUBSET Nat
    OBVIOUS
  <2> QED BY LeastNumber
<1>2. After(u, p)[0] = u /\ \A j \in 1 .. n : After(u, p)[j] = Apply(After(u, p)[j - 1], p[j])
  BY AfterGoes
<1>3. \A j \in 1 .. n : After(v, q)[j + d] = Apply(After(v, q)[(j - 1) + d], q[j + d])
  <2> SUFFICES ASSUME NEW j \in 1 .. n
               PROVE  After(v, q)[j + d] = Apply(After(v, q)[(j - 1) + d], q[j + d])
    OBVIOUS
  <2>1. j + d \in 1 .. Len(q) /\ (j - 1) + d = (j + d) - 1
    OBVIOUS
  <2> QED BY <2>1, AfterGoes
<1>4. k # 0
  <2>1. 0 + d = d
    OBVIOUS
  <2> QED BY <1>1, <1>2, <2>1
<1>5. k \in 1 .. n /\ k - 1 \in 0 .. n /\ k - 1 \notin bad
  BY <1>1, <1>4
<1>6. After(u, p)[k - 1] = After(v, q)[(k - 1) + d]
  BY <1>5
<1>7. After(u, p)[k] = After(v, q)[k + d]
  BY <1>2, <1>3, <1>5, <1>6
<1> QED BY <1>1, <1>7

\* An event at the end is applied last.
LEMMA ApplyAppend ==
    ASSUME NEW S, NEW v, NEW q \in Seq(S), NEW e \in S
    PROVE  /\ \A k \in 0 .. Len(q) : After(v, Append(q, e))[k] = After(v, q)[k]
           /\ ApplyAll(v, Append(q, e)) = Apply(ApplyAll(v, q), e)
<1> DEFINE p == Append(q, e)
<1>1. /\ p \in Seq(S) /\ Len(p) = Len(q) + 1 /\ Len(q) \in Nat
      /\ \A k \in 1 .. Len(q) : p[k] = q[k] /\ p[Len(q) + 1] = e
  BY AppendProperties, LenProperties
<1>2. p[Len(q) + 1] = e
  BY AppendProperties
<1> HIDE DEF p
<1>3. After(v, p)[0] = v
  BY <1>1, AfterGoes
<1>4. \A k \in 0 .. Len(q) : After(v, q)[k] = After(v, p)[k + 0]
  <2>1. \A k \in 1 .. Len(q) : q[k] = p[k + 0]
    BY <1>1
  <2>2. Aligned(v, q, v, p, Len(q), 0)
    BY <1>1, <1>3, <2>1 DEF Aligned
  <2> QED BY <2>2, SameWay
<1>5. \A k \in 0 .. Len(q) : After(v, p)[k] = After(v, q)[k]
  BY <1>1, <1>4
<1>6. After(v, p)[Len(q) + 1] = Apply(After(v, p)[Len(q)], e)
  <2>1. Len(q) + 1 \in 1 .. Len(p) /\ (Len(q) + 1) - 1 = Len(q) /\ Len(p) \in Nat
    BY <1>1
  <2> QED BY <1>2, <2>1, AfterGoes
<1>7. After(v, p)[Len(p)] = Apply(After(v, q)[Len(q)], e)
  BY <1>1, <1>5, <1>6
<1> QED BY <1>5, <1>7 DEF ApplyAll, p

\* Whoever has applied the first event has the others before him.
LEMMA ApplyTail ==
    ASSUME NEW S, NEW v, NEW q \in Seq(S), q # <<>>
    PROVE  /\ \A k \in 0 .. Len(q) - 1 : After(Apply(v, Head(q)), Tail(q))[k] = After(v, q)[k + 1]
           /\ ApplyAll(Apply(v, Head(q)), Tail(q)) = ApplyAll(v, q)
<1> DEFINE t == Tail(q)
           u == Apply(v, Head(q))
<1>1. /\ Len(q) \in Nat \ {0} /\ Len(t) = Len(q) - 1
      /\ \A k \in 1 .. Len(t) : t[k] = q[k + 1]
  BY HeadTailProperties, EmptySeq
<1>2. u = After(v, q)[1]
  <2>1. 1 \in 1 .. Len(q) /\ Head(q) = q[1]
    BY <1>1
  <2>2. After(v, q)[0] = v /\ After(v, q)[1] = Apply(After(v, q)[1 - 1], q[1])
    BY <1>1, <2>1, AfterGoes
  <2> QED BY <2>1, <2>2
<1> HIDE DEF t, u
<1>3. \A k \in 0 .. Len(t) : After(u, t)[k] = After(v, q)[k + 1]
  <2>1. Aligned(u, t, v, q, Len(t), 1)
    BY <1>1, <1>2 DEF Aligned
  <2> QED BY <2>1, SameWay
<1>4. After(u, t)[Len(t)] = After(v, q)[Len(q)]
  <2>1. Len(t) \in 0 .. Len(t) /\ Len(t) + 1 = Len(q)
    BY <1>1
  <2> QED BY <1>3, <2>1
<1> QED BY <1>1, <1>3, <1>4 DEF ApplyAll, t, u

LEMMA ApplyNone ==
    ASSUME NEW v
    PROVE  ApplyAll(v, <<>>) = v
<1>1. Len(<<>>) = 0
  BY EmptySeq
<1> QED BY <1>1, AfterGoes DEF ApplyAll

----------------------------------------------------------------------------
(* Beginnings and ends of sequences *)

LEMMA PrefixMeans ==
    ASSUME NEW S, NEW s \in Seq(S), NEW t \in Seq(S)
    PROVE  IsPrefix(s, t) <=> Len(s) <= Len(t) /\ \A k \in 1 .. Len(s) : s[k] = t[k]
<1>1. Len(s) \in Nat /\ Len(t) \in Nat
  BY LenProperties
<1>2. SUFFICES ASSUME Len(s) <= Len(t)
               PROVE  SubSeq(s, 1, Len(s)) = SubSeq(t, 1, Len(s)) <=> \A k \in 1 .. Len(s) : s[k] = t[k]
  BY DEF IsPrefix
<1> DEFINE a == SubSeq(s, 1, Len(s))
           b == SubSeq(t, 1, Len(s))
<1>3. a \in Seq(S) /\ Len(a) = Len(s) /\ \A k \in 1 .. Len(s) : a[k] = s[k]
  BY <1>1, SubSeqProperties
<1>4. b \in Seq(S) /\ Len(b) = Len(s) /\ \A k \in 1 .. Len(s) : b[k] = t[k]
  BY <1>1, <1>2, SubSeqProperties
<1> HIDE DEF a, b
<1>5. ASSUME \A k \in 1 .. Len(s) : s[k] = t[k] PROVE a = b
  <2>1. \A k \in 1 .. Len(a) : a[k] = b[k]
    BY <1>3, <1>4, <1>5
  <2> QED BY <1>3, <1>4, <2>1, SeqEqual
<1>6. ASSUME a = b PROVE \A k \in 1 .. Len(s) : s[k] = t[k]
  BY <1>3, <1>4, <1>6
<1> QED BY <1>5, <1>6 DEF a, b

LEMMA ReverseMeans ==
    ASSUME NEW S, NEW s \in Seq(S)
    PROVE  /\ Reverse(s) \in Seq(S) /\ Len(Reverse(s)) = Len(s)
           /\ \A k \in 1 .. Len(s) : Reverse(s)[k] = s[(Len(s) - k) + 1]
<1>1. Len(s) \in Nat
  BY LenProperties
<1>2. \A k \in 1 .. Len(s) : (Len(s) - k) + 1 \in 1 .. Len(s) /\ s[(Len(s) - k) + 1] \in S
  BY <1>1, ElementOfSeq
<1> DEFINE r == [k \in 1 .. Len(s) |-> s[(Len(s) - k) + 1]]
<1>3. r \in Seq(S) /\ Len(r) = Len(s)
  BY <1>1, <1>2, IsASeq, LenProperties
<1> QED BY <1>3 DEF Reverse

LEMMA SuffixMeans ==
    ASSUME NEW S, NEW s \in Seq(S), NEW t \in Seq(S)
    PROVE  IsSuffix(s, t) <=>
               Len(s) <= Len(t) /\ \A k \in 1 .. Len(s) : s[k] = t[k + (Len(t) - Len(s))]
<1>1. Len(s) \in Nat /\ Len(t) \in Nat
  BY LenProperties
<1> DEFINE a == Reverse(s)
           b == Reverse(t)
<1>2. /\ a \in Seq(S) /\ Len(a) = Len(s)
      /\ \A k \in 1 .. Len(s) : a[k] = s[(Len(s) - k) + 1]
  BY ReverseMeans
<1>3. /\ b \in Seq(S) /\ Len(b) = Len(t)
      /\ \A k \in 1 .. Len(t) : b[k] = t[(Len(t) - k) + 1]
  BY ReverseMeans
<1> HIDE DEF a, b
<1>4. IsPrefix(a, b) <=> Len(s) <= Len(t) /\ \A k \in 1 .. Len(s) : a[k] = b[k]
  BY <1>2, <1>3, PrefixMeans
<1>5. SUFFICES ASSUME Len(s) <= Len(t)
               PROVE  (\A k \in 1 .. Len(s) : a[k] = b[k])
                        <=> \A k \in 1 .. Len(s) : s[k] = t[k + (Len(t) - Len(s))]
  BY <1>4 DEF IsSuffix, a, b
<1>6. \A k \in 1 .. Len(s) : a[k] = s[(Len(s) - k) + 1] /\ b[k] = t[(Len(t) - k) + 1]
  <2> SUFFICES ASSUME NEW k \in 1 .. Len(s)
               PROVE  a[k] = s[(Len(s) - k) + 1] /\ b[k] = t[(Len(t) - k) + 1]
    OBVIOUS
  <2>1. k \in 1 .. Len(t)
    BY <1>1, <1>5
  <2> QED BY <1>2, <1>3, <2>1
<1>7. ASSUME \A k \in 1 .. Len(s) : a[k] = b[k], NEW k \in 1 .. Len(s)
      PROVE  s[k] = t[k + (Len(t) - Len(s))]
  <2> DEFINE j == (Len(s) - k) + 1
  <2>1. j \in 1 .. Len(s) /\ (Len(s) - j) + 1 = k /\ (Len(t) - j) + 1 = k + (Len(t) - Len(s))
    BY <1>1
  <2> HIDE DEF j
  <2> QED BY <1>6, <1>7, <2>1
<1>8. ASSUME \A k \in 1 .. Len(s) : s[k] = t[k + (Len(t) - Len(s))], NEW k \in 1 .. Len(s)
      PROVE  a[k] = b[k]
  <2> DEFINE j == (Len(s) - k) + 1
  <2>1. j \in 1 .. Len(s) /\ (Len(t) - k) + 1 = j + (Len(t) - Len(s))
    BY <1>1
  <2>2. s[j] = t[j + (Len(t) - Len(s))]
    BY <1>8, <2>1
  <2>3. a[k] = s[j] /\ b[k] = t[(Len(t) - k) + 1]
    BY <1>6
  <2> HIDE DEF j
  <2> QED BY <2>1, <2>2, <2>3
<1> QED BY <1>7, <1>8

\* What stands at the beginning or the end still does behind or before more.
LEMMA ConcatKeeps ==
    ASSUME NEW S, NEW s \in Seq(S), NEW t \in Seq(S), NEW e \in Seq(S)
    PROVE  /\ IsPrefix(s, t) => IsPrefix(s, t \o e)
           /\ IsSuffix(s, t) => IsSuffix(s \o e, t \o e)
<1>1. Len(s) \in Nat /\ Len(t) \in Nat /\ Len(e) \in Nat
  BY LenProperties
<1> DEFINE a == s \o e
           b == t \o e
<1>2. /\ a \in Seq(S) /\ Len(a) = Len(s) + Len(e)
      /\ \A k \in 1 .. Len(s) + Len(e) : a[k] = IF k <= Len(s) THEN s[k] ELSE e[k - Len(s)]
  BY ConcatProperties
<1>3. /\ b \in Seq(S) /\ Len(b) = Len(t) + Len(e)
      /\ \A k \in 1 .. Len(t) + Len(e) : b[k] = IF k <= Len(t) THEN t[k] ELSE e[k - Len(t)]
  BY ConcatProperties
<1> HIDE DEF a, b
<1>4. ASSUME IsPrefix(s, t) PROVE IsPrefix(s, b)
  <2>1. Len(s) <= Len(t) /\ \A k \in 1 .. Len(s) : s[k] = t[k]
    BY <1>4, PrefixMeans
  <2>2. Len(s) <= Len(b) /\ \A k \in 1 .. Len(s) : s[k] = b[k]
    BY <1>1, <1>3, <2>1
  <2> QED BY <1>3, <2>2, PrefixMeans
<1>5. ASSUME IsSuffix(s, t) PROVE IsSuffix(a, b)
  <2>1. Len(s) <= Len(t) /\ \A k \in 1 .. Len(s) : s[k] = t[k + (Len(t) - Len(s))]
    BY <1>5, SuffixMeans
  <2>2. Len(a) <= Len(b) /\ Len(b) - Len(a) = Len(t) - Len(s)
    BY <1>1, <1>2, <1>3, <2>1
  <2>3. ASSUME NEW k \in 1 .. Len(a) PROVE a[k] = b[k + (Len(b) - Len(a))]
    <3> DEFINE j == k + (Len(t) - Len(s))
    <3>1. j \in 1 .. Len(t) + Len(e) /\ (j <= Len(t) <=> k <= Len(s)) /\ j - Len(t) = k - Len(s)
      BY <1>1, <1>2, <2>1
    <3>2. k \in 1 .. Len(s) + Len(e)
      BY <1>2
    <3>3. k <= Len(s) => s[k] = t[j]
      BY <1>1, <2>1, <3>2
    <3>4. a[k] = b[j]
      <4> HIDE DEF j
      <4> QED BY <1>2, <1>3, <3>1, <3>2, <3>3
    <3> QED BY <2>2, <3>4
  <2> QED BY <1>2, <1>3, <2>2, <2>3, SuffixMeans
<1> QED BY <1>4, <1>5 DEF a, b

\* The first n of s begin s, and are s when it has no more.
LEMMA FirstMeans ==
    ASSUME NEW S, NEW s \in Seq(S), NEW n \in Nat
    PROVE  /\ First(s, n) \in Seq(S) /\ IsPrefix(First(s, n), s)
           /\ Len(First(s, n)) <= n
           /\ Len(s) <= n => First(s, n) = s
<1>1. Len(s) \in Nat
  BY LenProperties
<1> DEFINE m == IF Len(s) < n THEN Len(s) ELSE n
           a == SubSeq(s, 1, m)
<1>2. m \in Nat /\ m <= Len(s) /\ m <= n /\ (Len(s) <= n => m = Len(s))
  BY <1>1
<1> HIDE DEF m
<1>3. \A k \in 1 .. m : s[k] \in S
  BY <1>1, <1>2, ElementOfSeq
<1>4. a \in Seq(S) /\ Len(a) = m /\ \A k \in 1 .. m : a[k] = s[k]
  <2>1. 1 \in Int /\ m \in Int
    BY <1>2
  <2> QED BY <1>2, <1>3, <2>1, SubSeqProperties
<1>5. Len(s) <= n => a = s
  BY <1>2, SubSeqFull
<1> HIDE DEF a
<1>6. IsPrefix(a, s)
  BY <1>2, <1>4, PrefixMeans
<1>7. First(s, n) = a
  BY DEF First, a, m
<1> QED BY <1>2, <1>4, <1>5, <1>6, <1>7

\* The last n of s end s, and hold nothing else.
LEMMA LastMeans ==
    ASSUME NEW S, NEW s \in Seq(S), NEW n \in Nat
    PROVE  /\ Last_n(s, n) \in Seq(S) /\ IsSuffix(Last_n(s, n), s)
           /\ Len(Last_n(s, n)) <= n
           /\ Range(Last_n(s, n)) \subseteq Range(s)
<1>1. Len(s) \in Nat
  BY LenProperties
<1> DEFINE d == IF Len(s) <= n THEN 0 ELSE Len(s) - n
           a == Last_n(s, n)
<1>2. /\ d \in Nat /\ d <= Len(s) /\ Len(s) - d <= n
      /\ a \in Seq(S) /\ Len(a) = Len(s) - d
      /\ \A k \in 1 .. Len(s) - d : a[k] = s[k + d]
  <2>1. CASE Len(s) <= n
    <3>1. a = s /\ d = 0
      BY <2>1 DEF Last_n
    <3> HIDE DEF a, d
    <3> QED BY <1>1, <2>1, <3>1
  <2>2. CASE ~(Len(s) <= n)
    <3>1. d = Len(s) - n /\ d \in Nat /\ d <= Len(s) /\ Len(s) - d = n
      BY <1>1, <2>2
    <3> HIDE DEF d
    <3> DEFINE i == d + 1
    <3>2. i \in Int /\ Len(s) \in Int /\ Len(s) - i + 1 = n
      BY <1>1, <3>1
    <3>3. \A k \in i .. Len(s) : s[k] \in S
      BY <1>1, <3>1, ElementOfSeq
    <3>4. a = SubSeq(s, i, Len(s))
      BY <2>2, <3>1 DEF Last_n
    <3> HIDE DEF a, i
    <3>5. /\ a \in Seq(S) /\ Len(a) = IF i <= Len(s) THEN Len(s) - i + 1 ELSE 0
          /\ \A k \in 1 .. Len(s) - i + 1 : a[k] = s[i + k - 1]
      BY <3>2, <3>3, <3>4, SubSeqProperties
    <3>6. Len(a) = n
      BY <1>1, <3>1, <3>2, <3>5 DEF i
    <3>7. \A k \in 1 .. n : i + k - 1 = k + d
      BY <3>1 DEF i
    <3>8. \A k \in 1 .. n : a[k] = s[k + d]
      BY <3>2, <3>5, <3>7
    <3>9. Len(s) - d = n /\ Len(a) = Len(s) - d /\ a \in Seq(S)
      BY <3>1, <3>5, <3>6
    <3> QED BY <3>1, <3>8, <3>9
  <2> QED BY <2>1, <2>2
<1> HIDE DEF a, d
<1>3. IsSuffix(a, s)
  <2>1. Len(a) <= Len(s) /\ Len(s) - Len(a) = d
    BY <1>1, <1>2
  <2> QED BY <1>2, <2>1, SuffixMeans
<1>4. Range(a) \subseteq Range(s)
  <2>1. DOMAIN a = 1 .. Len(a) /\ DOMAIN s = 1 .. Len(s)
    BY <1>2, LenProperties
  <2>2. \A k \in 1 .. Len(a) : k + d \in 1 .. Len(s) /\ a[k] = s[k + d]
    BY <1>1, <1>2
  <2> QED BY <2>1, <2>2 DEF Range
<1> QED BY <1>1, <1>2, <1>3, <1>4 DEF a

LEMMA SuffixIsTransitive ==
    ASSUME NEW S, NEW s \in Seq(S), NEW t \in Seq(S), NEW u \in Seq(S),
           IsSuffix(s, t), IsSuffix(t, u)
    PROVE  IsSuffix(s, u)
<1>1. Len(s) \in Nat /\ Len(t) \in Nat /\ Len(u) \in Nat
  BY LenProperties
<1>2. Len(s) <= Len(t) /\ \A k \in 1 .. Len(s) : s[k] = t[k + (Len(t) - Len(s))]
  BY SuffixMeans
<1>3. Len(t) <= Len(u) /\ \A k \in 1 .. Len(t) : t[k] = u[k + (Len(u) - Len(t))]
  BY SuffixMeans
<1>4. ASSUME NEW k \in 1 .. Len(s) PROVE s[k] = u[k + (Len(u) - Len(s))]
  <2> DEFINE j == k + (Len(t) - Len(s))
  <2>1. j \in 1 .. Len(t) /\ j + (Len(u) - Len(t)) = k + (Len(u) - Len(s))
    BY <1>1, <1>2
  <2>2. s[k] = t[j]
    BY <1>2
  <2> HIDE DEF j
  <2> QED BY <1>3, <2>1, <2>2
<1> QED BY <1>1, <1>2, <1>3, <1>4, SuffixMeans

----------------------------------------------------------------------------
(* Snapshots, events and what the client shows *)

\* upsertTool changes the call it is given, or adds it and may forget others.
LEMMA UpsertTyped ==
    ASSUME NEW tools \in Seq(Calls), Len(tools) <= MaxTools, NEW t \in Calls
    PROVE  /\ UpsertTool(tools, t) \in Seq(Calls) /\ Len(UpsertTool(tools, t)) <= MaxTools
           /\ Range(UpsertTool(tools, t)) \subseteq {u \in Range(tools) : u.id # t.id} \union {t}
<1>1. Len(tools) \in Nat /\ DOMAIN tools = 1 .. Len(tools) /\ \A k \in DOMAIN tools : tools[k] \in Calls
  BY LenProperties, ElementOfSeq
<1>2. CASE \E k \in DOMAIN tools : tools[k].id = t.id
  <2> DEFINE new == [k \in 1 .. Len(tools) |-> IF tools[k].id = t.id THEN t ELSE tools[k]]
  <2>1. UpsertTool(tools, t) = new
    BY <1>1, <1>2 DEF UpsertTool
  <2>2. \A k \in 1 .. Len(tools) : (IF tools[k].id = t.id THEN t ELSE tools[k]) \in Calls
    BY <1>1
  <2>3. new \in Seq(Calls)
    BY <1>1, <2>2, IsASeq
  <2>4. DOMAIN new = 1 .. Len(new) /\ DOMAIN new = 1 .. Len(tools) /\ Len(new) \in Nat
    <3>1. DOMAIN new = 1 .. Len(tools)
      OBVIOUS
    <3> HIDE DEF new
    <3> QED BY <2>3, <3>1, LenProperties
  <2>5. Len(new) = Len(tools)
    BY <1>1, <2>4
  <2>6. Range(new) \subseteq {u \in Range(tools) : u.id # t.id} \union {t}
    BY <1>1 DEF Range
  <2> HIDE DEF new
  <2> QED BY <2>1, <2>3, <2>5, <2>6
<1>3. CASE ~ \E k \in DOMAIN tools : tools[k].id = t.id
  <2> DEFINE new == Append(tools, t)
  <2>1. UpsertTool(tools, t) = Last_n(new, MaxTools)
    BY <1>3 DEF UpsertTool
  <2>2. /\ new \in Seq(Calls) /\ Len(new) = Len(tools) + 1
        /\ \A k \in 1 .. Len(tools) : new[k] = tools[k]
        /\ new[Len(tools) + 1] = t
    BY AppendProperties
  <2> HIDE DEF new
  <2>3. DOMAIN new = 1 .. Len(tools) + 1
    BY <2>2, LenProperties
  <2>4. Range(new) \subseteq {u \in Range(tools) : u.id # t.id} \union {t}
    <3> SUFFICES ASSUME NEW k \in 1 .. Len(tools) + 1
                 PROVE  new[k] \in {u \in Range(tools) : u.id # t.id} \union {t}
      BY <2>3 DEF Range
    <3>1. CASE k = Len(tools) + 1
      BY <2>2, <3>1
    <3>2. CASE k # Len(tools) + 1
      <4>1. k \in DOMAIN tools /\ new[k] = tools[k]
        BY <1>1, <2>2, <3>2
      <4> QED BY <1>3, <4>1 DEF Range
    <3> QED BY <3>1, <3>2
  <2>5. MaxTools \in Nat
    BY LimitsAssumption
  <2>6. /\ Last_n(new, MaxTools) \in Seq(Calls) /\ Len(Last_n(new, MaxTools)) <= MaxTools
        /\ Range(Last_n(new, MaxTools)) \subseteq Range(new)
    BY <2>2, <2>5, LastMeans
  <2> QED BY <2>1, <2>4, <2>6
<1> QED BY <1>2, <1>3

\* Induction over links: those other than q are links.
LEMMA OthersAreLinks ==
    ASSUME NEW links \in Seq(Requests), NEW q
    PROVE  /\ Others(links, q)[Len(links)] \in Seq(Requests)
           /\ Range(Others(links, q)[Len(links)]) \subseteq Range(links)
<1> DEFINE next == Others(links, q)
           Fine(l) == l \in Seq(Requests) /\ \A k \in 1 .. Len(l) : l[k] \in Range(links)
           bad == {n \in 0 .. Len(links) : ~Fine(next[n])}
<1>1. Len(links) \in Nat /\ DOMAIN links = 1 .. Len(links) /\ \A k \in DOMAIN links : links[k] \in Requests
  BY LenProperties, ElementOfSeq
<1>2. /\ next[0] = <<>>
      /\ \A k \in 1 .. Len(links) :
            next[k] = IF links[k] = q THEN next[k - 1] ELSE Append(next[k - 1], links[k])
  BY <1>1, OthersGoes
<1> HIDE DEF next
<1>3. ASSUME NEW l, Fine(l), NEW k \in DOMAIN links PROVE Fine(Append(l, links[k]))
  <2>1. Len(l) \in Nat /\ links[k] \in Requests
    BY <1>1, <1>3, LenProperties
  <2>2. /\ Append(l, links[k]) \in Seq(Requests) /\ Len(Append(l, links[k])) = Len(l) + 1
        /\ \A j \in 1 .. Len(l) : Append(l, links[k])[j] = l[j]
        /\ Append(l, links[k])[Len(l) + 1] = links[k]
    BY <1>3, <2>1, AppendProperties
  <2>3. links[k] \in Range(links)
    BY DEF Range
  <2>4. ASSUME NEW j \in 1 .. Len(l) + 1 PROVE Append(l, links[k])[j] \in Range(links)
    <3>1. j = Len(l) + 1 \/ j \in 1 .. Len(l)
      BY <2>1
    <3> QED BY <1>3, <2>2, <2>3, <3>1
  <2> QED BY <2>2, <2>4
<1>4. Fine(<<>>)
  BY EmptySeq
<1>5. \A n \in 0 .. Len(links) : Fine(next[n])
  <2> HIDE DEF Fine
  <2> SUFFICES ASSUME bad # {} PROVE FALSE
    OBVIOUS
  <2>1. PICK n \in bad : \A m \in bad : n <= m
    <3> bad \in SUBSET Nat
      BY <1>1
    <3> QED BY LeastNumber
  <2>2. n # 0
    BY <1>2, <1>4, <2>1
  <2>3. n \in 1 .. Len(links) /\ n - 1 \in 0 .. Len(links) /\ n - 1 \notin bad
    BY <1>1, <2>1, <2>2
  <2>4. Fine(next[n - 1])
    BY <2>3
  <2>5. Fine(next[n])
    BY <1>1, <1>2, <1>3, <2>3, <2>4
  <2> QED BY <2>1, <2>5
<1>6. Fine(next[Len(links)])
  <2>1. Len(links) \in 0 .. Len(links)
    BY <1>1
  <2> QED BY <1>5, <2>1
<1> DEFINE l == next[Len(links)]
<1>7. l \in Seq(Requests) /\ \A k \in 1 .. Len(l) : l[k] \in Range(links)
  BY <1>6
<1> HIDE DEF l
<1>8. DOMAIN l = 1 .. Len(l)
  BY <1>7, LenProperties
<1>9. Range(l) \subseteq Range(links)
  BY <1>7, <1>8 DEF Range
<1> QED BY <1>7, <1>9 DEF l, next

LEMMA LinkTyped ==
    ASSUME NEW links \in Seq(Requests), NEW q \in Requests
    PROVE  /\ LinkPrompt(links, q) \in Seq(Requests) /\ Len(LinkPrompt(links, q)) <= MaxPrompts
           /\ Range(LinkPrompt(links, q)) \subseteq Range(links) \union {q}
<1> DEFINE others == Others(links, q)[Len(links)]
           new == Append(others, q)
<1>1. others \in Seq(Requests) /\ Range(others) \subseteq Range(links)
  BY OthersAreLinks
<1>2. LinkPrompt(links, q) = Last_n(new, MaxPrompts)
  BY DEF LinkPrompt
<1> HIDE DEF others
<1>3. /\ new \in Seq(Requests) /\ Len(new) = Len(others) + 1
      /\ \A k \in 1 .. Len(others) : new[k] = others[k]
      /\ new[Len(others) + 1] = q
  BY <1>1, AppendProperties
<1> HIDE DEF new
<1>4. DOMAIN new = 1 .. Len(others) + 1 /\ DOMAIN others = 1 .. Len(others) /\ Len(others) \in Nat
  BY <1>1, <1>3, LenProperties
<1>5. Range(new) \subseteq Range(links) \union {q}
  <2> SUFFICES ASSUME NEW k \in 1 .. Len(others) + 1 PROVE new[k] \in Range(links) \union {q}
    BY <1>4 DEF Range
  <2>1. k = Len(others) + 1 \/ k \in 1 .. Len(others)
    BY <1>4
  <2>2. k \in 1 .. Len(others) => others[k] \in Range(others)
    BY <1>4 DEF Range
  <2> QED BY <1>1, <1>3, <2>1, <2>2
<1>6. MaxPrompts \in Nat
  BY LimitsAssumption
<1>7. /\ Last_n(new, MaxPrompts) \in Seq(Requests) /\ Len(Last_n(new, MaxPrompts)) <= MaxPrompts
      /\ Range(Last_n(new, MaxPrompts)) \subseteq Range(new)
  BY <1>3, <1>6, LastMeans
<1> QED BY <1>2, <1>5, <1>7

\* Two snapshots show the same content.
SameContent(a, b) ==
    /\ a.text = b.text /\ a.cut = b.cut /\ a.saved = b.saved /\ a.thought = b.thought
    /\ a.tools = b.tools /\ a.prompts = b.prompts

LEMMA EmptyTyped ==
    /\ Empty \in Snapshots
    /\ Empty.text = <<>> /\ Empty.cut = FALSE /\ Empty.saved = FALSE /\ Empty.thought = <<>>
    /\ Empty.tools = <<>> /\ Empty.prompts = <<>>
<1>1. /\ <<>> \in Seq(Words) /\ <<>> \in Seq(Calls) /\ <<>> \in Seq(Requests) /\ Len(<<>>) = 0
  BY EmptySeq
<1>2. 0 <= MaxText /\ 0 <= MaxThought /\ 0 <= MaxTools /\ 0 <= MaxPrompts /\ "" \in Activities
  <2>1. 0 <= MaxText /\ 0 <= MaxThought /\ 0 <= MaxTools /\ 0 <= MaxPrompts
    BY LimitsAssumption
  <2>2. "" \in Activities
    BY NamesAssumption
  <2> QED BY <2>1, <2>2
<1> QED BY <1>1, <1>2 DEF Empty, Snapshots

\* What the fields of a snapshot are.
LEMMA SnapshotFields ==
    ASSUME NEW v \in Snapshots
    PROVE  /\ v.seq \in Nat /\ v.msg \in Nat /\ v.text \in Seq(Words) /\ v.cut \in BOOLEAN /\ v.saved \in BOOLEAN
           /\ v.thought \in Seq(Words) /\ v.tool \in Calls \union {NoTool} /\ v.tools \in Seq(Calls)
           /\ v.prompts \in Seq(Requests) /\ v.activity \in Activities
           /\ Len(v.text) <= MaxText /\ Len(v.thought) <= MaxThought
           /\ Len(v.tools) <= MaxTools /\ Len(v.prompts) <= MaxPrompts
  BY DEF Snapshots

LEMMA EventFields ==
    ASSUME NEW e \in ContentEvents
    PROVE  /\ e.seq \in Nat /\ e.type \in EventTypes /\ e.msg \in Nat /\ e.text \in Seq(Words) /\ e.cut \in BOOLEAN
           /\ e.call \in Calls \union {NoTool} /\ e.request \in Requests \union {NoTool} /\ e.activity \in Activities
           /\ (e.type = "tool" => e.call \in Calls) /\ (e.type = "prompt.saved" => e.request \in Requests)
  BY DEF ContentEvents

LEMMA DoingTyped ==
    ASSUME NEW v \in Snapshots, NEW a \in Activities
    PROVE  Doing(v, a) \in Snapshots /\ SameContent(Doing(v, a), v)
<1>1. [v EXCEPT !.activity = a] \in Snapshots /\ SameContent([v EXCEPT !.activity = a], v)
  BY DEF Snapshots, SameContent
<1>2. SameContent(v, v)
  BY DEF SameContent
<1> QED BY <1>1, <1>2 DEF Doing

LEMMA WithTextTyped ==
    ASSUME NEW v \in Snapshots, NEW text \in Seq(Words), NEW cut \in BOOLEAN
    PROVE  /\ WithText(v, text, cut) \in Snapshots
           /\ WithText(v, text, cut).text = First(text, MaxText)
           /\ WithText(v, text, cut).cut = (cut \/ Len(text) > MaxText)
           /\ WithText(v, text, cut).saved = FALSE
           /\ WithText(v, text, cut).thought = v.thought
           /\ WithText(v, text, cut).tools = v.tools
           /\ WithText(v, text, cut).prompts = v.prompts
<1> DEFINE t == First(text, MaxText)
           c == cut \/ Len(text) > MaxText
<1>1. MaxText \in Nat
  BY LimitsAssumption
<1>2. t \in Seq(Words) /\ Len(t) <= MaxText
  BY <1>1, FirstMeans
<1>3. c \in BOOLEAN
  OBVIOUS
<1>4. WithText(v, text, cut) = [v EXCEPT !.text = t, !.cut = c, !.saved = FALSE]
  BY DEF WithText
<1> HIDE DEF t, c
<1> DEFINE a == [v EXCEPT !.text = t, !.cut = c, !.saved = FALSE]
<1>5. /\ a \in Snapshots
      /\ a.text = t /\ a.cut = c /\ a.saved = FALSE
      /\ a.thought = v.thought /\ a.tools = v.tools /\ a.prompts = v.prompts
  BY <1>2, <1>3 DEF Snapshots
<1> HIDE DEF a
<1> QED BY <1>4, <1>5 DEF a, t, c

\* ApplyContent, type by type.
LEMMA ApplyMeans ==
    ASSUME NEW v \in Snapshots, NEW e \in ContentEvents
    PROVE  LET a == Apply(v, e) IN
           /\ a \in Snapshots
           /\ e.type = "message.started" =>
                /\ a.text = <<>> /\ a.cut = FALSE /\ a.saved = FALSE /\ a.thought = <<>> /\ a.tools = <<>>
                /\ a.prompts = v.prompts
           /\ e.type = "message.delta" /\ v.cut => SameContent(a, v)
           /\ e.type = "message.delta" /\ ~v.cut =>
                /\ a.text = First(v.text \o e.text, MaxText) /\ a.cut = (Len(v.text \o e.text) > MaxText)
                /\ a.saved = FALSE /\ a.thought = v.thought /\ a.tools = v.tools /\ a.prompts = v.prompts
           /\ e.type = "message.replaced" =>
                /\ a.text = First(e.text, MaxText) /\ a.cut = (e.cut \/ Len(e.text) > MaxText)
                /\ a.saved = FALSE /\ a.thought = v.thought /\ a.tools = v.tools /\ a.prompts = v.prompts
           /\ e.type = "message.saved" => SameContent(a, [v EXCEPT !.saved = TRUE])
           /\ e.type = "tool" => SameContent(a, [v EXCEPT !.tools = UpsertTool(v.tools, e.call)])
           /\ e.type = "tool.cleared" => SameContent(a, [v EXCEPT !.tools = <<>>])
           /\ e.type = "thought.delta" => SameContent(a, [v EXCEPT !.thought = Last_n(v.thought \o e.text, MaxThought)])
           /\ e.type = "prompt.saved" => SameContent(a, [v EXCEPT !.prompts = LinkPrompt(v.prompts, e.request)])
           /\ e.type \in {"message.completed", "activity"} => SameContent(a, v)
<1> DEFINE b == [v EXCEPT !.seq = e.seq]
<1>1. b \in Snapshots /\ SameContent(b, v)
  BY EventFields DEF Snapshots, SameContent
<1>2. b.activity = v.activity /\ b.prompts = v.prompts
  BY DEF Snapshots
<1>3. Apply(v, e) =
      CASE e.type = "message.started" ->
              Doing([Empty EXCEPT !.seq = e.seq, !.msg = e.msg, !.prompts = b.prompts, !.activity = b.activity], e.activity)
        [] e.type = "message.delta" ->
              Doing(IF b.cut THEN b ELSE WithText(b, b.text \o e.text, FALSE), e.activity)
        [] e.type = "message.replaced" -> WithText(b, e.text, e.cut)
        [] e.type = "message.saved" -> [b EXCEPT !.saved = TRUE]
        [] e.type = "tool" -> Doing([b EXCEPT !.tool = e.call, !.tools = UpsertTool(b.tools, e.call)], e.activity)
        [] e.type = "tool.cleared" -> [b EXCEPT !.tool = NoTool, !.tools = <<>>]
        [] e.type = "thought.delta" -> [b EXCEPT !.thought = Last_n(b.thought \o e.text, MaxThought)]
        [] e.type = "prompt.saved" -> [b EXCEPT !.prompts = LinkPrompt(b.prompts, e.request)]
        [] e.type = "activity" -> [b EXCEPT !.activity = e.activity]
        [] OTHER -> Doing(b, e.activity)
  BY <1>1 DEF Apply, Snapshots
<1> HIDE DEF b
<1>4. /\ b.text = v.text /\ b.cut = v.cut /\ b.saved = v.saved /\ b.thought = v.thought
      /\ b.tools = v.tools /\ b.prompts = v.prompts
  BY <1>1 DEF SameContent
<1> USE EventFields, SnapshotFields
<1>5. CASE e.type = "message.started"
  <2> DEFINE s == [Empty EXCEPT !.seq = e.seq, !.msg = e.msg, !.prompts = b.prompts, !.activity = b.activity]
  <2>1. s \in Snapshots
    BY <1>1, EmptyTyped DEF Snapshots
  <2>2. /\ s.text = <<>> /\ s.cut = FALSE /\ s.saved = FALSE /\ s.thought = <<>> /\ s.tools = <<>>
        /\ s.prompts = b.prompts
    BY DEF Empty
  <2>3. Apply(v, e) = Doing(s, e.activity)
    BY <1>3, <1>5
  <2> HIDE DEF s
  <2>4. Doing(s, e.activity) \in Snapshots /\ SameContent(Doing(s, e.activity), s)
    BY <2>1, DoingTyped
  <2> QED BY <1>4, <1>5, <2>2, <2>3, <2>4 DEF SameContent
<1>6. CASE e.type = "message.delta" /\ v.cut
  <2>1. Apply(v, e) = Doing(b, e.activity)
    BY <1>3, <1>4, <1>6
  <2>2. Doing(b, e.activity) \in Snapshots /\ SameContent(Doing(b, e.activity), b)
    BY <1>1, DoingTyped
  <2> QED BY <1>1, <1>6, <2>1, <2>2 DEF SameContent
<1>7. CASE e.type = "message.delta" /\ ~v.cut
  <2> DEFINE t == b.text \o e.text
             s == WithText(b, t, FALSE)
  <2>1. Apply(v, e) = Doing(s, e.activity)
    BY <1>3, <1>4, <1>7
  <2>2. t \in Seq(Words) /\ t = v.text \o e.text
    BY <1>1, <1>4, ConcatProperties
  <2> HIDE DEF t
  <2>3. /\ s \in Snapshots
        /\ s.text = First(t, MaxText) /\ s.cut = (Len(t) > MaxText) /\ s.saved = FALSE
        /\ s.thought = b.thought /\ s.tools = b.tools /\ s.prompts = b.prompts
    <3>1. PICK no \in BOOLEAN : no = FALSE
      OBVIOUS
    <3>2. s = WithText(b, t, no)
      BY <3>1
    <3> HIDE DEF s
    <3>3. /\ WithText(b, t, no) \in Snapshots
          /\ WithText(b, t, no).text = First(t, MaxText)
      BY <1>1, <2>2, <3>1, WithTextTyped
    <3>4. WithText(b, t, no).cut = (no \/ Len(t) > MaxText)
      BY <1>1, <2>2, <3>1, WithTextTyped
    <3>5. /\ WithText(b, t, no).saved = FALSE
          /\ WithText(b, t, no).thought = b.thought
          /\ WithText(b, t, no).tools = b.tools
          /\ WithText(b, t, no).prompts = b.prompts
      BY <1>1, <2>2, <3>1, WithTextTyped
    <3> QED BY <3>1, <3>2, <3>3, <3>4, <3>5
  <2> HIDE DEF s
  <2>4. Doing(s, e.activity) \in Snapshots /\ SameContent(Doing(s, e.activity), s)
    BY <2>3, DoingTyped
  <2> QED BY <1>4, <1>7, <2>1, <2>2, <2>3, <2>4 DEF SameContent
<1>8. CASE e.type = "message.replaced"
  <2> DEFINE s == WithText(b, e.text, e.cut)
  <2>1. /\ s \in Snapshots
        /\ s.text = First(e.text, MaxText) /\ s.cut = (e.cut \/ Len(e.text) > MaxText) /\ s.saved = FALSE
        /\ s.thought = b.thought /\ s.tools = b.tools /\ s.prompts = b.prompts
    <3>1. e.text \in Seq(Words) /\ e.cut \in BOOLEAN
      OBVIOUS
    <3> QED BY ONLY <1>1, <3>1, WithTextTyped
  <2>2. Apply(v, e) = s
    BY <1>3, <1>8
  <2> HIDE DEF s
  <2> QED BY <1>4, <1>8, <2>1, <2>2
<1>9. CASE e.type = "message.saved"
  <2>1. Apply(v, e) = [b EXCEPT !.saved = TRUE]
    BY <1>3, <1>9
  <2>2. [b EXCEPT !.saved = TRUE] \in Snapshots /\ SameContent([b EXCEPT !.saved = TRUE], [v EXCEPT !.saved = TRUE])
    BY <1>1, <1>4 DEF Snapshots, SameContent
  <2> QED BY <1>9, <2>1, <2>2
<1>10. CASE e.type = "tool"
  <2> DEFINE tools == UpsertTool(b.tools, e.call)
             s == [b EXCEPT !.tool = e.call, !.tools = tools]
  <2>1. tools \in Seq(Calls) /\ Len(tools) <= MaxTools /\ tools = UpsertTool(v.tools, e.call)
    BY <1>1, <1>4, <1>10, UpsertTyped
  <2>2. Apply(v, e) = Doing(s, e.activity)
    BY <1>3, <1>10
  <2> HIDE DEF tools
  <2>3. s \in Snapshots /\ SameContent(s, [v EXCEPT !.tools = tools])
    BY <1>1, <1>4, <2>1 DEF Snapshots, SameContent
  <2> HIDE DEF s
  <2>4. Doing(s, e.activity) \in Snapshots /\ SameContent(Doing(s, e.activity), s)
    BY <2>3, DoingTyped
  <2>5. SameContent(Doing(s, e.activity), [v EXCEPT !.tools = tools])
    BY <2>3, <2>4 DEF SameContent
  <2> QED BY <1>10, <2>1, <2>2, <2>4, <2>5
<1>11. CASE e.type = "tool.cleared"
  <2> DEFINE s == [b EXCEPT !.tool = NoTool, !.tools = <<>>]
  <2>1. Apply(v, e) = s
    BY <1>3, <1>11
  <2>2. <<>> \in Seq(Calls) /\ Len(<<>>) <= MaxTools
    BY EmptySeq, LimitsAssumption
  <2>3. s \in Snapshots /\ SameContent(s, [v EXCEPT !.tools = <<>>])
    BY <1>1, <1>4, <2>2 DEF Snapshots, SameContent
  <2> QED BY <1>11, <2>1, <2>3
<1>12. CASE e.type = "thought.delta"
  <2> DEFINE t == b.thought \o e.text
             l == Last_n(t, MaxThought)
             s == [b EXCEPT !.thought = l]
  <2>1. Apply(v, e) = s
    BY <1>3, <1>12
  <2>2. t \in Seq(Words)
    BY <1>1, ConcatProperties
  <2>3. MaxThought \in Nat
    BY LimitsAssumption
  <2>4. l = Last_n(v.thought \o e.text, MaxThought)
    BY <1>4
  <2> HIDE DEF t
  <2>5. l \in Seq(Words) /\ Len(l) <= MaxThought
    BY <2>2, <2>3, LastMeans
  <2> HIDE DEF l
  <2>6. s \in Snapshots /\ SameContent(s, [v EXCEPT !.thought = l])
    BY <1>1, <1>4, <2>5 DEF Snapshots, SameContent
  <2> QED BY <1>12, <2>1, <2>4, <2>6
<1>13. CASE e.type = "prompt.saved"
  <2> DEFINE l == LinkPrompt(b.prompts, e.request)
             s == [b EXCEPT !.prompts = l]
  <2>1. Apply(v, e) = s
    BY <1>3, <1>13
  <2>2. l \in Seq(Requests) /\ Len(l) <= MaxPrompts /\ l = LinkPrompt(v.prompts, e.request)
    BY <1>1, <1>4, <1>13, LinkTyped
  <2> HIDE DEF l
  <2>3. s \in Snapshots /\ SameContent(s, [v EXCEPT !.prompts = l])
    BY <1>1, <1>4, <2>2 DEF Snapshots, SameContent
  <2> QED BY <1>13, <2>1, <2>2, <2>3
<1>14. CASE e.type = "activity"
  <2>1. Apply(v, e) = [b EXCEPT !.activity = e.activity]
    BY <1>3, <1>14
  <2>2. [b EXCEPT !.activity = e.activity] \in Snapshots /\ SameContent([b EXCEPT !.activity = e.activity], v)
    BY <1>1, <1>4 DEF Snapshots, SameContent
  <2> QED BY <1>14, <2>1, <2>2
<1>15. CASE e.type = "message.completed"
  <2>1. Apply(v, e) = Doing(b, e.activity)
    BY <1>3, <1>15
  <2>2. Doing(b, e.activity) \in Snapshots /\ SameContent(Doing(b, e.activity), b)
    BY <1>1, DoingTyped
  <2> QED BY <1>1, <1>15, <2>1, <2>2 DEF SameContent
<1>16. e.type \in EventTypes
  OBVIOUS
<1> QED BY <1>5, <1>6, <1>7, <1>8, <1>9, <1>10, <1>11, <1>12, <1>13, <1>14, <1>15, <1>16 DEF EventTypes

\* sendContentEvent, type by type.
LEMMA ForwardMeans ==
    ASSUME NEW c \in Clients, NEW e \in ContentEvents
    PROVE  LET d == Forward(c, e) IN
           /\ d \in Clients
           /\ e.type = "message.started" =>
                d.text = <<>> /\ d.saved = FALSE /\ d.thought = <<>> /\ d.tools = {} /\ d.prompts = c.prompts
           /\ e.type = "message.delta" => d.text = c.text \o e.text /\ d.saved = FALSE
           /\ e.type = "message.replaced" => d.text = e.text /\ d.saved = FALSE
           /\ e.type = "message.saved" => d.saved = TRUE
           /\ e.type = "tool" => d.tools = {t \in c.tools : t.id # e.call.id} \union {e.call}
           /\ e.type = "thought.delta" => d.thought = c.thought \o e.text
           /\ e.type = "prompt.saved" => d.prompts = c.prompts \union {e.request}
           /\ e.type \in {"tool", "tool.cleared", "thought.delta", "prompt.saved", "message.completed", "activity"} =>
                d.text = c.text /\ d.saved = c.saved
           /\ e.type \notin {"message.started", "thought.delta"} => d.thought = c.thought
           /\ e.type \notin {"message.started", "tool"} => d.tools = c.tools
           /\ e.type \notin {"message.started", "prompt.saved"} => d.prompts = c.prompts
<1> USE EventFields
<1>1. /\ c.text \in Seq(Words) /\ c.thought \in Seq(Words) /\ c.saved \in BOOLEAN
      /\ c.tools \in SUBSET Calls /\ c.prompts \in SUBSET Requests
  BY DEF Clients
<1>2. c.text \o e.text \in Seq(Words) /\ c.thought \o e.text \in Seq(Words) /\ <<>> \in Seq(Words)
  BY <1>1, ConcatProperties, EmptySeq
<1>3. CASE e.type = "message.started"
  BY <1>1, <1>2, <1>3 DEF Forward, Restarted, Blank, Clients
<1>4. CASE e.type = "message.delta"
  <2> DEFINE t == c.text \o e.text
  <2>1. Forward(c, e) = [c EXCEPT !.text = t, !.saved = FALSE]
    BY <1>4 DEF Forward, Clients
  <2>2. t \in Seq(Words)
    BY <1>2
  <2> HIDE DEF t
  <2>3. Forward(c, e) \in Clients /\ Forward(c, e).text = t
    BY <1>1, <2>1, <2>2 DEF Clients
  <2>4. Forward(c, e).saved = FALSE /\ Forward(c, e).thought = c.thought
        /\ Forward(c, e).tools = c.tools /\ Forward(c, e).prompts = c.prompts
    BY <1>1, <2>1, <2>2 DEF Clients
  <2> QED BY <1>4, <2>3, <2>4 DEF t
<1>5. CASE e.type = "message.replaced"
  BY <1>1, <1>5 DEF Forward, Clients
<1>6. CASE e.type = "message.saved"
  BY <1>1, <1>6 DEF Forward, Clients
<1>7. CASE e.type = "tool"
  <2> DEFINE tools == {t \in c.tools : t.id # e.call.id} \union {e.call}
  <2>1. Forward(c, e) = [c EXCEPT !.tools = tools]
    BY <1>7 DEF Forward, Clients
  <2>2. tools \in SUBSET Calls
    BY <1>1, <1>7
  <2> HIDE DEF tools
  <2>3. Forward(c, e) \in Clients /\ Forward(c, e).tools = tools
        /\ Forward(c, e).text = c.text /\ Forward(c, e).saved = c.saved
        /\ Forward(c, e).thought = c.thought /\ Forward(c, e).prompts = c.prompts
    BY <1>1, <2>1, <2>2 DEF Clients
  <2> QED BY <1>7, <2>3 DEF tools
<1>8. CASE e.type = "thought.delta"
  <2> DEFINE t == c.thought \o e.text
  <2>1. Forward(c, e) = [c EXCEPT !.thought = t]
    BY <1>8 DEF Forward, Clients
  <2>2. t \in Seq(Words)
    BY <1>2
  <2> HIDE DEF t
  <2>3. Forward(c, e) \in Clients /\ Forward(c, e).thought = t
        /\ Forward(c, e).text = c.text /\ Forward(c, e).saved = c.saved
        /\ Forward(c, e).tools = c.tools /\ Forward(c, e).prompts = c.prompts
    BY <1>1, <2>1, <2>2 DEF Clients
  <2> QED BY <1>8, <2>3 DEF t
<1>9. CASE e.type = "prompt.saved"
  <2> DEFINE prompts == c.prompts \union {e.request}
  <2>1. Forward(c, e) = [c EXCEPT !.prompts = prompts]
    BY <1>9 DEF Forward, Clients
  <2>2. prompts \in SUBSET Requests
    BY <1>1, <1>9
  <2> HIDE DEF prompts
  <2>3. Forward(c, e) \in Clients /\ Forward(c, e).prompts = prompts
        /\ Forward(c, e).text = c.text /\ Forward(c, e).saved = c.saved
        /\ Forward(c, e).thought = c.thought /\ Forward(c, e).tools = c.tools
    BY <1>1, <2>1, <2>2 DEF Clients
  <2> QED BY <1>9, <2>3 DEF prompts
<1>10. CASE e.type \in {"tool.cleared", "message.completed", "activity"}
  BY <1>10 DEF Forward
<1> QED BY <1>3, <1>4, <1>5, <1>6, <1>7, <1>8, <1>9, <1>10 DEF EventTypes

\* A client told of an event goes on to show what the stream shows, if no
\* text is added to one that was cut.
LEMMA ForwardShows ==
    ASSUME NEW c \in Clients, NEW v \in Snapshots, NEW e \in ContentEvents,
           Shows(c, v), e.type = "message.delta" => ~v.cut
    PROVE  Shows(Forward(c, e), Apply(v, e))
<1> DEFINE a == Apply(v, e)
           d == Forward(c, e)
<1> USE SnapshotFields, EventFields
<1>1. /\ c.text \in Seq(Words) /\ c.thought \in Seq(Words) /\ c.saved \in BOOLEAN
  BY DEF Clients
<1>2. MaxText \in Nat /\ MaxThought \in Nat
  BY LimitsAssumption
<1>3. /\ IF v.cut THEN IsPrefix(v.text, c.text) ELSE v.text = c.text
      /\ v.saved = c.saved /\ IsSuffix(v.thought, c.thought)
      /\ Range(v.tools) \subseteq c.tools /\ Range(v.prompts) \subseteq c.prompts
  BY DEF Shows
<1>4. Range(<<>>) = {}
  BY DEF Range
<1>5. CASE e.type = "message.started"
  <2>1. a.text = <<>> /\ a.cut = FALSE /\ a.saved = FALSE /\ a.thought = <<>> /\ a.tools = <<>> /\ a.prompts = v.prompts
    BY <1>5, ApplyMeans
  <2>2. d.text = <<>> /\ d.saved = FALSE /\ d.thought = <<>> /\ d.tools = {} /\ d.prompts = c.prompts
    BY <1>5, ForwardMeans
  <2> HIDE DEF a, d
  <2>3. IsSuffix(<<>>, <<>>)
    <3>1. PICK z \in Seq(Words) : z = <<>> /\ Len(z) = 0
      BY EmptySeq
    <3>2. Len(z) <= Len(z) /\ \A k \in 1 .. Len(z) : z[k] = z[k + (Len(z) - Len(z))]
      BY <3>1
    <3>3. IsSuffix(z, z)
      BY ONLY <3>1, <3>2, SuffixMeans
    <3> QED BY <3>1, <3>3
  <2>4. Shows(d, a)
    BY <1>3, <1>4, <2>1, <2>2, <2>3 DEF Shows
  <2> QED BY <2>4 DEF a, d
<1>6. CASE e.type = "message.delta"
  <2> DEFINE t == v.text \o e.text
  <2>1. ~v.cut /\ v.text = c.text
    BY <1>3, <1>6
  <2>2. /\ a.text = First(t, MaxText) /\ a.cut = (Len(t) > MaxText) /\ a.saved = FALSE
        /\ a.thought = v.thought /\ a.tools = v.tools /\ a.prompts = v.prompts
    BY <1>6, <2>1, ApplyMeans
  <2>3. d.text = t /\ d.saved = FALSE /\ d.thought = c.thought /\ d.tools = c.tools /\ d.prompts = c.prompts
    <3>1. d.text = c.text \o e.text
      BY <1>6, ForwardMeans
    <3>2. d.saved = FALSE /\ d.thought = c.thought /\ d.tools = c.tools /\ d.prompts = c.prompts
      BY <1>6, ForwardMeans
    <3> QED BY <2>1, <3>1, <3>2
  <2>4. t \in Seq(Words)
    BY ConcatProperties
  <2> HIDE DEF a, d, t
  <2>5. IsPrefix(First(t, MaxText), t) /\ (Len(t) <= MaxText => First(t, MaxText) = t)
    BY <1>2, <2>4, FirstMeans
  <2>6. IF a.cut THEN IsPrefix(a.text, d.text) ELSE a.text = d.text
    <3>1. Len(t) \in Nat
      BY <2>4, LenProperties
    <3>2. ~a.cut => ~(Len(t) > MaxText)
      BY ONLY <2>2, Zenon
    <3>3. ~a.cut => Len(t) <= MaxText
      BY <1>2, <3>1, <3>2
    <3> QED BY <2>2, <2>3, <2>5, <3>3
  <2>7. Shows(d, a)
    BY <1>3, <2>2, <2>3, <2>6 DEF Shows
  <2> QED BY <2>7 DEF a, d
<1>7. CASE e.type = "message.replaced"
  <2>1. /\ a.text = First(e.text, MaxText) /\ a.cut = (e.cut \/ Len(e.text) > MaxText) /\ a.saved = FALSE
        /\ a.thought = v.thought /\ a.tools = v.tools /\ a.prompts = v.prompts
    BY <1>7, ApplyMeans
  <2>2. d.text = e.text /\ d.saved = FALSE /\ d.thought = c.thought /\ d.tools = c.tools /\ d.prompts = c.prompts
    BY <1>7, ForwardMeans
  <2> HIDE DEF a, d
  <2>3. IsPrefix(First(e.text, MaxText), e.text) /\ (Len(e.text) <= MaxText => First(e.text, MaxText) = e.text)
    BY <1>2, FirstMeans
  <2>4. IF a.cut THEN IsPrefix(a.text, d.text) ELSE a.text = d.text
    <3>1. Len(e.text) \in Nat
      BY LenProperties
    <3>2. ~a.cut => ~(Len(e.text) > MaxText)
      BY ONLY <2>1, Zenon
    <3>3. ~a.cut => Len(e.text) <= MaxText
      BY <1>2, <3>1, <3>2
    <3> QED BY <2>1, <2>2, <2>3, <3>3
  <2>5. Shows(d, a)
    BY <1>3, <2>1, <2>2, <2>4 DEF Shows
  <2> QED BY <2>5 DEF a, d
<1>8. CASE e.type = "message.saved"
  <2>1. /\ a.text = v.text /\ a.cut = v.cut /\ a.saved = TRUE
        /\ a.thought = v.thought /\ a.tools = v.tools /\ a.prompts = v.prompts
    <3>1. SameContent(a, [v EXCEPT !.saved = TRUE])
      BY <1>8, ApplyMeans
    <3> HIDE DEF a
    <3> QED BY <3>1 DEF SameContent, Snapshots
  <2>2. d.saved = TRUE /\ d.thought = c.thought /\ d.tools = c.tools /\ d.prompts = c.prompts
    BY <1>8, ForwardMeans
  <2>3. d.text = c.text
    BY <1>8 DEF Forward, Clients
  <2> HIDE DEF a, d
  <2>4. Shows(d, a)
    BY <1>3, <2>1, <2>2, <2>3 DEF Shows
  <2> QED BY <2>4 DEF a, d
<1>9. CASE e.type = "tool"
  <2> DEFINE tools == UpsertTool(v.tools, e.call)
  <2>1. Range(tools) \subseteq {u \in Range(v.tools) : u.id # e.call.id} \union {e.call}
    BY <1>9, UpsertTyped
  <2> HIDE DEF tools
  <2>2. /\ a.text = v.text /\ a.cut = v.cut /\ a.saved = v.saved
        /\ a.thought = v.thought /\ a.tools = tools /\ a.prompts = v.prompts
    <3>1. SameContent(a, [v EXCEPT !.tools = tools])
      BY <1>9, ApplyMeans DEF tools
    <3> HIDE DEF a
    <3> QED BY <3>1 DEF SameContent, Snapshots
  <2>3. /\ d.text = c.text /\ d.saved = c.saved /\ d.thought = c.thought /\ d.prompts = c.prompts
        /\ d.tools = {t \in c.tools : t.id # e.call.id} \union {e.call}
    BY <1>9, ForwardMeans
  <2> HIDE DEF a, d
  <2>4. Range(a.tools) \subseteq d.tools
    BY <1>3, <2>1, <2>2, <2>3
  <2>5. Shows(d, a)
    BY <1>3, <2>2, <2>3, <2>4 DEF Shows
  <2> QED BY <2>5 DEF a, d
<1>10. CASE e.type = "tool.cleared"
  <2>1. /\ a.text = v.text /\ a.cut = v.cut /\ a.saved = v.saved
        /\ a.thought = v.thought /\ a.tools = <<>> /\ a.prompts = v.prompts
    <3>1. SameContent(a, [v EXCEPT !.tools = <<>>])
      BY <1>10, ApplyMeans
    <3> HIDE DEF a
    <3> QED BY <3>1 DEF SameContent, Snapshots
  <2>2. /\ d.text = c.text /\ d.saved = c.saved /\ d.thought = c.thought /\ d.prompts = c.prompts /\ d.tools = c.tools
    BY <1>10, ForwardMeans
  <2> HIDE DEF a, d
  <2>3. Shows(d, a)
    BY <1>3, <1>4, <2>1, <2>2 DEF Shows
  <2> QED BY <2>3 DEF a, d
<1>11. CASE e.type = "thought.delta"
  <2> DEFINE t == v.thought \o e.text
             l == Last_n(t, MaxThought)
             u == c.thought \o e.text
  <2>1. t \in Seq(Words) /\ u \in Seq(Words) /\ IsSuffix(t, u)
    BY <1>1, <1>3, ConcatKeeps, ConcatProperties
  <2>2. l \in Seq(Words) /\ IsSuffix(l, t)
    <3> HIDE DEF t
    <3> QED BY <1>2, <2>1, LastMeans
  <2>3. IsSuffix(l, u)
    <3> HIDE DEF t, l, u
    <3> QED BY <2>1, <2>2, SuffixIsTransitive
  <2>4. /\ a.text = v.text /\ a.cut = v.cut /\ a.saved = v.saved
        /\ a.thought = l /\ a.tools = v.tools /\ a.prompts = v.prompts
    <3>1. SameContent(a, [v EXCEPT !.thought = l])
      BY <1>11, ApplyMeans
    <3> HIDE DEF a, l
    <3> QED BY <3>1 DEF SameContent, Snapshots
  <2>5. /\ d.text = c.text /\ d.saved = c.saved /\ d.thought = u /\ d.prompts = c.prompts /\ d.tools = c.tools
    BY <1>11, ForwardMeans
  <2> HIDE DEF a, d, t, l, u
  <2>6. Shows(d, a)
    BY <1>3, <2>3, <2>4, <2>5 DEF Shows
  <2> QED BY <2>6 DEF a, d
<1>12. CASE e.type = "prompt.saved"
  <2> DEFINE l == LinkPrompt(v.prompts, e.request)
  <2>1. Range(l) \subseteq Range(v.prompts) \union {e.request}
    BY <1>12, LinkTyped
  <2> HIDE DEF l
  <2>2. /\ a.text = v.text /\ a.cut = v.cut /\ a.saved = v.saved
        /\ a.thought = v.thought /\ a.tools = v.tools /\ a.prompts = l
    <3>1. SameContent(a, [v EXCEPT !.prompts = l])
      BY <1>12, ApplyMeans DEF l
    <3> HIDE DEF a
    <3> QED BY <3>1 DEF SameContent, Snapshots
  <2>3. /\ d.text = c.text /\ d.saved = c.saved /\ d.thought = c.thought /\ d.tools = c.tools
        /\ d.prompts = c.prompts \union {e.request}
    BY <1>12, ForwardMeans
  <2> HIDE DEF a, d
  <2>4. Range(a.prompts) \subseteq d.prompts
    BY <1>3, <2>1, <2>2, <2>3
  <2>5. Shows(d, a)
    BY <1>3, <2>2, <2>3, <2>4 DEF Shows
  <2> QED BY <2>5 DEF a, d
<1>13. CASE e.type \in {"message.completed", "activity"}
  <2>1. SameContent(a, v)
    BY <1>13, ApplyMeans
  <2>2. /\ d.text = c.text /\ d.saved = c.saved /\ d.thought = c.thought /\ d.prompts = c.prompts /\ d.tools = c.tools
    BY <1>13, ForwardMeans
  <2> HIDE DEF a, d
  <2>3. Shows(d, a)
    BY <1>3, <2>1, <2>2 DEF Shows, SameContent
  <2> QED BY <2>3 DEF a, d
<1> QED BY <1>5, <1>6, <1>7, <1>8, <1>9, <1>10, <1>11, <1>12, <1>13 DEF EventTypes

----------------------------------------------------------------------------
(* publish: an update's events, for the server and for its subscribers *)

\* No event of a queue adds text to one that was cut, for one who starts at v.
Guarded(v, events) ==
    \A k \in 1 .. Len(events) : events[k].type = "message.delta" => ~After(v, events)[k - 1].cut

\* Subscriber s, whose reader has seen v, will bring it to u unless its stream ends.
Fits(s, v, u) ==
    /\ s \in Subscribers
    /\ Guarded(v, s.queue)
    /\ s.open => ApplyAll(v, s.queue) = u

\* Induction over events: every snapshot on the way is one.
LEMMA AfterTyped ==
    ASSUME NEW v \in Snapshots, NEW events \in Seq(ContentEvents)
    PROVE  \A k \in 0 .. Len(events) : After(v, events)[k] \in Snapshots
<1> DEFINE bad == {k \in 0 .. Len(events) : After(v, events)[k] \notin Snapshots}
<1> SUFFICES ASSUME bad # {} PROVE FALSE
  OBVIOUS
<1>1. Len(events) \in Nat /\ \A k \in 1 .. Len(events) : events[k] \in ContentEvents
  BY LenProperties, ElementOfSeq
<1>2. PICK k \in bad : \A j \in bad : k <= j
  <2> bad \in SUBSET Nat
    BY <1>1
  <2> QED BY LeastNumber
<1>3. k # 0
  BY <1>1, <1>2, AfterGoes
<1>4. k \in 1 .. Len(events) /\ k - 1 \in 0 .. Len(events) /\ k - 1 \notin bad
  BY <1>1, <1>2, <1>3
<1>5. After(v, events)[k] = Apply(After(v, events)[k - 1], events[k])
  BY <1>1, <1>4, AfterGoes
<1>6. After(v, events)[k - 1] \in Snapshots
  BY <1>4
<1> QED BY <1>1, <1>2, <1>4, <1>5, <1>6, ApplyMeans

\* One more event of the server: its subscriber still fits.
LEMMA QueuedFits ==
    ASSUME NEW s, NEW v, NEW u, Fits(s, v, u), NEW e \in ContentEvents, e.type = "message.delta" => ~u.cut
    PROVE  Fits(Queued(s, e), v, Apply(u, e))
<1>1. s \in Subscribers /\ Guarded(v, s.queue) /\ (s.open => ApplyAll(v, s.queue) = u)
  BY DEF Fits
<1>2. s.open \in BOOLEAN /\ s.queue \in Seq(ContentEvents) /\ Len(s.queue) \in Nat /\ Len(s.queue) <= MaxQueue
  BY <1>1, LenProperties DEF Subscribers
<1>3. CASE ~s.open
  BY <1>1, <1>3 DEF Fits, Queued
<1>4. CASE s.open /\ ~(Len(s.queue) < MaxQueue)
  <2> DEFINE t == [s EXCEPT !.open = FALSE]
  <2>1. t \in Subscribers /\ t.open = FALSE /\ t.queue = s.queue
    BY <1>1 DEF Subscribers
  <2>2. Queued(s, e) = t
    BY <1>4 DEF Queued
  <2> HIDE DEF t
  <2> QED BY <1>1, <2>1, <2>2 DEF Fits
<1>5. CASE s.open /\ Len(s.queue) < MaxQueue
  <2> DEFINE q == s.queue
             p == Append(s.queue, e)
             t == [s EXCEPT !.queue = p]
  <2>1. Queued(s, e) = t
    BY <1>1, <1>5 DEF Queued, Subscribers
  <2>2. /\ p \in Seq(ContentEvents) /\ Len(p) = Len(q) + 1
        /\ \A k \in 1 .. Len(q) : p[k] = q[k]
    BY <1>2, AppendProperties
  <2>3. p[Len(q) + 1] = e
    BY <1>2, AppendProperties
  <2>4. /\ \A k \in 0 .. Len(q) : After(v, p)[k] = After(v, q)[k]
        /\ ApplyAll(v, p) = Apply(ApplyAll(v, q), e)
    BY <1>2, ApplyAppend
  <2> HIDE DEF p
  <2>5. Len(p) <= MaxQueue
    BY <1>2, <1>5, <2>2, LimitsAssumption
  <2>6. t \in Subscribers /\ t.queue = p /\ t.open = s.open
    BY <1>1, <2>2, <2>5 DEF Subscribers
  <2>7. ASSUME NEW k \in 1 .. Len(p), p[k].type = "message.delta" PROVE ~After(v, p)[k - 1].cut
    <3>1. CASE k = Len(q) + 1
      <4>1. k - 1 = Len(q) /\ k - 1 \in 0 .. Len(q)
        BY <1>2, <3>1
      <4>2. After(v, p)[k - 1] = u
        BY <1>1, <1>5, <2>4, <4>1 DEF ApplyAll
      <4>3. p[k] = e
        BY <2>3, <3>1
      <4> QED BY <2>7, <4>2, <4>3
    <3>2. CASE k # Len(q) + 1
      <4>1. k \in 1 .. Len(q) /\ k - 1 \in 0 .. Len(q)
        BY <1>2, <2>2, <3>2
      <4>2. p[k] = q[k] /\ After(v, p)[k - 1] = After(v, q)[k - 1]
        BY <2>2, <2>4, <4>1
      <4> QED BY <1>1, <2>7, <4>1, <4>2 DEF Guarded
    <3> QED BY <3>1, <3>2
  <2>8. Guarded(v, p)
    BY <2>7 DEF Guarded
  <2>9. ApplyAll(v, p) = Apply(u, e)
    BY <1>1, <1>5, <2>4
  <2> HIDE DEF t, q
  <2> QED BY <2>1, <2>6, <2>8, <2>9 DEF Fits
<1> QED BY <1>3, <1>4, <1>5

LEMMA QueuedTyped ==
    ASSUME NEW s \in Subscribers, NEW e \in ContentEvents
    PROVE  Queued(s, e) \in Subscribers /\ (Queued(s, e).open => s.open)
<1>1. s.open \in BOOLEAN /\ s.queue \in Seq(ContentEvents) /\ Len(s.queue) \in Nat /\ Len(s.queue) <= MaxQueue
  BY LenProperties DEF Subscribers
<1>2. CASE ~s.open
  BY <1>2 DEF Queued
<1>3. CASE s.open /\ ~(Len(s.queue) < MaxQueue)
  BY <1>3 DEF Queued, Subscribers
<1>4. CASE s.open /\ Len(s.queue) < MaxQueue
  <2> DEFINE p == Append(s.queue, e)
  <2>1. Queued(s, e) = [s EXCEPT !.queue = p]
    BY <1>4 DEF Queued, Subscribers
  <2>2. p \in Seq(ContentEvents) /\ Len(p) = Len(s.queue) + 1
    BY <1>1, AppendProperties
  <2> HIDE DEF p
  <2>3. Len(p) <= MaxQueue
    BY <1>1, <1>4, <2>2, LimitsAssumption
  <2>4. [s EXCEPT !.queue = p] \in Subscribers /\ [s EXCEPT !.queue = p].open = s.open
    BY <2>2, <2>3 DEF Subscribers
  <2> QED BY <1>4, <2>1, <2>4
<1> QED BY <1>2, <1>3, <1>4

\* Induction over the events of an update.
LEMMA SentTyped ==
    ASSUME NEW s \in Subscribers, NEW events \in Seq(ContentEvents)
    PROVE  /\ Sent(s, events)[Len(events)] \in Subscribers
           /\ Sent(s, events)[Len(events)].open => s.open
<1> DEFINE sent == Sent(s, events)
           Fine(t) == t \in Subscribers /\ (t.open => s.open)
           bad == {k \in 0 .. Len(events) : ~Fine(sent[k])}
<1>1. Len(events) \in Nat /\ \A k \in 1 .. Len(events) : events[k] \in ContentEvents
  BY LenProperties, ElementOfSeq
<1>2. sent[0] = s /\ \A k \in 1 .. Len(events) : sent[k] = Queued(sent[k - 1], events[k])
  BY <1>1, SentGoes
<1> HIDE DEF sent
<1>3. ASSUME NEW t, Fine(t), NEW e \in ContentEvents PROVE Fine(Queued(t, e))
  BY <1>3, QueuedTyped
<1>4. \A k \in 0 .. Len(events) : Fine(sent[k])
  <2> SUFFICES ASSUME bad # {} PROVE FALSE
    OBVIOUS
  <2>1. PICK k \in bad : \A j \in bad : k <= j
    <3> bad \in SUBSET Nat
      BY <1>1
    <3> QED BY LeastNumber
  <2>2. k # 0
    BY <1>2, <2>1
  <2>3. k \in 1 .. Len(events) /\ k - 1 \in 0 .. Len(events) /\ k - 1 \notin bad
    BY <1>1, <2>1, <2>2
  <2> HIDE DEF Fine
  <2>4. Fine(sent[k - 1])
    BY <2>3
  <2>5. Fine(sent[k])
    BY <1>1, <1>2, <1>3, <2>3, <2>4
  <2> QED BY <2>1, <2>5
<1>5. Len(events) \in 0 .. Len(events)
  BY <1>1
<1>6. Fine(sent[Len(events)])
  BY <1>4, <1>5
<1> QED BY <1>6 DEF sent

LEMMA SentFits ==
    ASSUME NEW s, NEW v, NEW u, Fits(s, v, u), NEW events \in Seq(ContentEvents), Guarded(u, events)
    PROVE  Fits(Sent(s, events)[Len(events)], v, ApplyAll(u, events))
<1> DEFINE sent == Sent(s, events)
           way == After(u, events)
           bad == {k \in 0 .. Len(events) : ~Fits(sent[k], v, way[k])}
<1>1. Len(events) \in Nat /\ \A k \in 1 .. Len(events) : events[k] \in ContentEvents
  BY LenProperties, ElementOfSeq
<1>2. sent[0] = s /\ \A k \in 1 .. Len(events) : sent[k] = Queued(sent[k - 1], events[k])
  BY <1>1, SentGoes
<1>3. way[0] = u /\ \A k \in 1 .. Len(events) : way[k] = Apply(way[k - 1], events[k])
  BY <1>1, AfterGoes
<1>4. \A k \in 1 .. Len(events) : events[k].type = "message.delta" => ~way[k - 1].cut
  BY DEF Guarded
<1>5. ApplyAll(u, events) = way[Len(events)]
  BY DEF ApplyAll
<1> HIDE DEF sent, way
<1>6. \A k \in 0 .. Len(events) : Fits(sent[k], v, way[k])
  <2> SUFFICES ASSUME bad # {} PROVE FALSE
    OBVIOUS
  <2>1. PICK k \in bad : \A j \in bad : k <= j
    <3> bad \in SUBSET Nat
      BY <1>1
    <3> QED BY LeastNumber
  <2>2. k # 0
    BY <1>2, <1>3, <2>1
  <2>3. k \in 1 .. Len(events) /\ k - 1 \in 0 .. Len(events) /\ k - 1 \notin bad
    BY <1>1, <2>1, <2>2
  <2>4. Fits(sent[k - 1], v, way[k - 1])
    BY <2>3
  <2>5. Fits(Queued(sent[k - 1], events[k]), v, Apply(way[k - 1], events[k]))
    BY <1>1, <1>4, <2>3, <2>4, QueuedFits
  <2> QED BY <1>2, <1>3, <2>1, <2>3, <2>5
<1>7. Len(events) \in 0 .. Len(events)
  BY <1>1
<1>8. Fits(sent[Len(events)], v, way[Len(events)])
  BY <1>6, <1>7
<1> QED BY <1>5, <1>8 DEF sent

\* Events that do not say so make no text a saved one.
LEMMA SavedStays ==
    ASSUME NEW v \in Snapshots, NEW events \in Seq(ContentEvents),
           \A k \in 1 .. Len(events) : events[k].type # "message.saved"
    PROVE  ApplyAll(v, events).saved => v.saved /\ ApplyAll(v, events).text = v.text
<1> DEFINE way == After(v, events)
           Fine(a) == a.saved => v.saved /\ a.text = v.text
           bad == {k \in 0 .. Len(events) : ~Fine(way[k])}
<1>1. Len(events) \in Nat /\ \A k \in 1 .. Len(events) : events[k] \in ContentEvents
  BY LenProperties, ElementOfSeq
<1>2. way[0] = v /\ \A k \in 1 .. Len(events) : way[k] = Apply(way[k - 1], events[k])
  BY <1>1, AfterGoes
<1>3. \A k \in 0 .. Len(events) : way[k] \in Snapshots
  BY AfterTyped
<1>4. ApplyAll(v, events) = way[Len(events)]
  BY DEF ApplyAll
<1> HIDE DEF way
<1>5. ASSUME NEW a \in Snapshots, Fine(a), NEW e \in ContentEvents, e.type # "message.saved"
      PROVE  Fine(Apply(a, e))
  <2> DEFINE b == Apply(a, e)
  <2>1. CASE e.type \in {"message.started", "message.replaced"} \/ (e.type = "message.delta" /\ ~a.cut)
    <3>1. b.saved = FALSE
      BY <2>1, ApplyMeans
    <3> QED BY <3>1
  <2>2. CASE ~(e.type \in {"message.started", "message.replaced"} \/ (e.type = "message.delta" /\ ~a.cut))
    <3>1. e.type \in {"message.delta", "message.completed", "tool", "tool.cleared", "thought.delta", "prompt.saved", "activity"}
          /\ (e.type = "message.delta" => a.cut)
      BY <1>5, <2>2, EventFields DEF EventTypes
    <3> DEFINE c(x) == x.saved = a.saved /\ x.text = a.text
    <3>2. ASSUME e.type \in {"message.delta", "message.completed", "activity"} PROVE c(b)
      <4>1. SameContent(b, a)
        BY <3>1, <3>2, ApplyMeans
      <4> QED BY <4>1 DEF SameContent
    <3>3. ASSUME e.type \in {"tool", "tool.cleared"} PROVE c(b)
      <4>1. PICK l : SameContent(b, [a EXCEPT !.tools = l])
        BY <3>3, ApplyMeans
      <4> HIDE DEF b
      <4> QED BY <4>1 DEF SameContent, Snapshots
    <3>4. ASSUME e.type = "thought.delta" PROVE c(b)
      <4>1. PICK l : SameContent(b, [a EXCEPT !.thought = l])
        BY <3>4, ApplyMeans
      <4> HIDE DEF b
      <4> QED BY <4>1 DEF SameContent, Snapshots
    <3>5. ASSUME e.type = "prompt.saved" PROVE c(b)
      <4>1. PICK l : SameContent(b, [a EXCEPT !.prompts = l])
        BY <3>5, ApplyMeans
      <4> HIDE DEF b
      <4> QED BY <4>1 DEF SameContent, Snapshots
    <3>6. c(b)
      BY <3>1, <3>2, <3>3, <3>4, <3>5
    <3> QED BY <1>5, <3>6
  <2> QED BY <2>1, <2>2
<1>6. \A k \in 0 .. Len(events) : Fine(way[k])
  <2> SUFFICES ASSUME bad # {} PROVE FALSE
    OBVIOUS
  <2>1. PICK k \in bad : \A j \in bad : k <= j
    <3> bad \in SUBSET Nat
      BY <1>1
    <3> QED BY LeastNumber
  <2>2. k # 0
    BY <1>2, <2>1
  <2>3. k \in 1 .. Len(events) /\ k - 1 \in 0 .. Len(events) /\ k - 1 \notin bad
    BY <1>1, <2>1, <2>2
  <2> HIDE DEF Fine
  <2>4. Fine(way[k - 1])
    BY <2>3
  <2>5. Fine(Apply(way[k - 1], events[k]))
    BY <1>1, <1>3, <1>5, <2>3, <2>4
  <2> QED BY <1>2, <2>1, <2>3, <2>5
<1>7. Len(events) \in 0 .. Len(events)
  BY <1>1
<1> QED BY <1>4, <1>6, <1>7

LEMMA ConcatTwo ==
    ASSUME NEW S, NEW s \in Seq(S), NEW t \in Seq(S)
    PROVE  /\ s \o t \in Seq(S) /\ Len(s \o t) = Len(s) + Len(t)
           /\ \A k \in 1 .. Len(s \o t) :
                 \/ k \in 1 .. Len(s) /\ (s \o t)[k] = s[k]
                 \/ k - Len(s) \in 1 .. Len(t) /\ (s \o t)[k] = t[k - Len(s)]
<1> DEFINE u == s \o t
<1>1. Len(s) \in Nat /\ Len(t) \in Nat
  BY LenProperties
<1>2. /\ u \in Seq(S) /\ Len(u) = Len(s) + Len(t)
      /\ \A k \in 1 .. Len(s) + Len(t) : u[k] = IF k <= Len(s) THEN s[k] ELSE t[k - Len(s)]
  BY ConcatProperties
<1> HIDE DEF u
<1>3. \A k \in 1 .. Len(u) :
         \/ k \in 1 .. Len(s) /\ u[k] = s[k]
         \/ k - Len(s) \in 1 .. Len(t) /\ u[k] = t[k - Len(s)]
  BY <1>1, <1>2
<1> QED BY <1>2, <1>3 DEF u

LEMMA OneEvent ==
    ASSUME NEW S, NEW e \in S
    PROVE  <<e>> \in Seq(S) /\ Len(<<e>>) = 1 /\ <<e>>[1] = e
  OBVIOUS

\* What an update may publish: text is added only to a text that is not cut,
\* before anything but a change of the activity.
Ready(events) ==
    \A k \in 1 .. Len(events) : events[k].type = "message.delta" =>
        ~value.cut /\ (k = 1 \/ (k = 2 /\ events[1].type = "activity"))

LEMMA NumberedTyped ==
    ASSUME NEW events \in Seq(ContentEvents), value.seq \in Nat
    PROVE  /\ Numbered(events) \in Seq(ContentEvents) /\ Len(Numbered(events)) = Len(events)
           /\ \A k \in 1 .. Len(events) : Numbered(events)[k].type = events[k].type
<1>1. Len(events) \in Nat /\ DOMAIN events = 1 .. Len(events) /\ \A k \in 1 .. Len(events) : events[k] \in ContentEvents
  BY LenProperties, ElementOfSeq
<1> DEFINE n == [k \in 1 .. Len(events) |-> [events[k] EXCEPT !.seq = value.seq + k]]
<1>2. Numbered(events) = n
  BY <1>1 DEF Numbered
<1>3. \A k \in 1 .. Len(events) :
         [events[k] EXCEPT !.seq = value.seq + k] \in ContentEvents
         /\ [events[k] EXCEPT !.seq = value.seq + k].type = events[k].type
  <2> SUFFICES ASSUME NEW k \in 1 .. Len(events)
               PROVE  [events[k] EXCEPT !.seq = value.seq + k] \in ContentEvents
                      /\ [events[k] EXCEPT !.seq = value.seq + k].type = events[k].type
    OBVIOUS
  <2> DEFINE e == events[k]
             m == value.seq + k
  <2>1. e \in ContentEvents /\ m \in Nat
    BY <1>1
  <2> HIDE DEF e, m
  <2>2. [e EXCEPT !.seq = m] \in ContentEvents /\ [e EXCEPT !.seq = m].type = e.type
    BY <2>1 DEF ContentEvents
  <2> QED BY <2>2 DEF e, m
<1>4. n \in Seq(ContentEvents)
  BY <1>1, <1>3, IsASeq
<1>5. DOMAIN n = 1 .. Len(events) /\ \A k \in 1 .. Len(events) : n[k].type = events[k].type
  BY <1>3
<1> HIDE DEF n
<1>6. Len(n) = Len(events)
  BY <1>1, <1>4, <1>5, LenProperties
<1> QED BY <1>2, <1>4, <1>5, <1>6

LEMMA ReadyGuards ==
    ASSUME value \in Snapshots, NEW events \in Seq(ContentEvents), Ready(events)
    PROVE  Guarded(value, Numbered(events))
<1> DEFINE n == Numbered(events)
           way == After(value, n)
<1>1. /\ n \in Seq(ContentEvents) /\ Len(n) = Len(events) /\ Len(n) \in Nat
      /\ \A k \in 1 .. Len(n) : n[k].type = events[k].type /\ n[k] \in ContentEvents
  BY NumberedTyped, SnapshotFields, LenProperties, ElementOfSeq
<1> HIDE DEF n
<1>2. way[0] = value /\ \A k \in 1 .. Len(n) : way[k] = Apply(way[k - 1], n[k])
  BY <1>1, AfterGoes
<1> HIDE DEF way
<1>3. ASSUME NEW k \in 1 .. Len(n), n[k].type = "message.delta" PROVE ~way[k - 1].cut
  <2>1. ~value.cut /\ (k = 1 \/ (k = 2 /\ n[1].type = "activity"))
    <3>1. k \in 1 .. Len(events) /\ events[k].type = "message.delta"
      BY <1>1, <1>3
    <3>2. ~value.cut /\ (k = 1 \/ (k = 2 /\ events[1].type = "activity"))
      BY <3>1 DEF Ready
    <3>3. 1 \in 1 .. Len(n)
      BY <1>1
    <3> QED BY <1>1, <3>2, <3>3
  <2>2. CASE k = 1
    BY <1>2, <2>1, <2>2
  <2>3. CASE k = 2 /\ n[1].type = "activity"
    <3>1. 1 \in 1 .. Len(n) /\ 1 - 1 = 0 /\ k - 1 = 1
      BY <1>1, <2>3
    <3>2. way[1] = Apply(value, n[1])
      BY <1>2, <3>1
    <3>3. SameContent(Apply(value, n[1]), value)
      BY <1>1, <2>3, <3>1, ApplyMeans
    <3> QED BY <2>1, <3>1, <3>2, <3>3 DEF SameContent
  <2> QED BY <2>1, <2>2, <2>3
<1> QED BY <1>3 DEF Guarded, n, way

\* The events of an update other than MarkSaved.
LEMMA EventTyped ==
    ASSUME NEW type \in EventTypes \ {"tool", "prompt.saved"}
    PROVE  Event(type) \in ContentEvents /\ Event(type).type = type
<1>1. <<>> \in Seq(Words) /\ "" \in Activities
  BY EmptySeq, NamesAssumption
<1> QED BY <1>1 DEF Event, ContentEvents

LEMMA OneReady ==
    ASSUME NEW e \in ContentEvents, e.type = "message.delta" => ~value.cut
    PROVE  <<e>> \in Seq(ContentEvents) /\ Ready(<<e>>) /\ \A k \in 1 .. Len(<<e>>) : <<e>>[k] = e
<1>1. <<e>> \in Seq(ContentEvents) /\ Len(<<e>>) = 1 /\ <<e>>[1] = e
  BY OneEvent
<1> QED BY <1>1 DEF Ready

\* publishSnapshot's events are typed and in order: activity, text, tool.
LEMMA SnapshotReady ==
    ASSUME value \in Snapshots, NEW r \in Reports
    PROVE  LET events == SnapshotEvents(r.text, r.cut, r.activity, r.call) IN
           /\ events \in Seq(ContentEvents) /\ Ready(events)
           /\ \A k \in 1 .. Len(events) : events[k].type # "message.saved"
<1> DEFINE bounded == First(r.text, MaxText)
           cut == r.cut \/ Len(r.text) > MaxText
           activity == [Event("activity") EXCEPT !.activity = r.activity]
           delta == [Event("message.delta") EXCEPT !.text = SubSeq(bounded, Len(value.text) + 1, Len(bounded))]
           replaced == [Event("message.replaced") EXCEPT !.text = bounded, !.cut = cut]
           tool == [Event("tool") EXCEPT !.call = r.call]
           activities == IF r.activity = value.activity THEN <<>> ELSE <<activity>>
           texts == IF bounded = value.text /\ cut = value.cut THEN <<>>
                    ELSE IF Extends(bounded, cut) THEN <<delta>> ELSE <<replaced>>
           tools == IF r.call = value.tool THEN <<>>
                    ELSE IF r.call = NoTool THEN <<Event("tool.cleared")>> ELSE <<tool>>
<1>1. /\ r.text \in Seq(Words) /\ r.cut \in BOOLEAN /\ r.activity \in Activities
      /\ r.call \in Calls \union {NoTool}
  BY ReportsAssumption DEF Calls
<1>2. bounded \in Seq(Words)
  BY <1>1, LimitsAssumption, FirstMeans
<1>3. Len(bounded) \in Nat /\ Len(value.text) \in Nat
  BY <1>2, SnapshotFields, LenProperties
<1>4. activity \in ContentEvents /\ activity.type = "activity"
  <2>1. Event("activity") \in ContentEvents /\ Event("activity").type = "activity"
    BY EventTyped DEF EventTypes
  <2> QED BY <1>1, <2>1 DEF ContentEvents
<1>5. delta \in ContentEvents /\ delta.type = "message.delta"
  <2>1. Event("message.delta") \in ContentEvents /\ Event("message.delta").type = "message.delta"
    BY EventTyped DEF EventTypes
  <2> DEFINE t == SubSeq(bounded, Len(value.text) + 1, Len(bounded))
  <2>2. t \in Seq(Words)
    <3> HIDE DEF bounded
    <3>1. \A k \in Len(value.text) + 1 .. Len(bounded) : bounded[k] \in Words
      BY <1>2, <1>3, ElementOfSeq
    <3>2. Len(value.text) + 1 \in Int /\ Len(bounded) \in Int
      BY <1>3
    <3> QED BY <3>1, <3>2, SubSeqProperties
  <2> HIDE DEF t
  <2>3. [Event("message.delta") EXCEPT !.text = t] \in ContentEvents
        /\ [Event("message.delta") EXCEPT !.text = t].type = "message.delta"
    BY <2>1, <2>2 DEF ContentEvents
  <2> QED BY <2>3 DEF t
<1>6. replaced \in ContentEvents /\ replaced.type = "message.replaced"
  <2>1. Event("message.replaced") \in ContentEvents /\ Event("message.replaced").type = "message.replaced"
    BY EventTyped DEF EventTypes
  <2>2. cut \in BOOLEAN
    BY <1>1
  <2> HIDE DEF bounded, cut
  <2> QED BY <1>2, <2>1, <2>2 DEF ContentEvents
<1>7. r.call # NoTool => tool \in ContentEvents /\ tool.type = "tool"
  <2>1. <<>> \in Seq(Words) /\ "" \in Activities /\ "tool" \in EventTypes
    BY EmptySeq, NamesAssumption DEF EventTypes
  <2> QED BY <1>1, <2>1 DEF Event, ContentEvents
<1>8. Event("tool.cleared") \in ContentEvents /\ Event("tool.cleared").type = "tool.cleared"
  BY EventTyped DEF EventTypes
<1> HIDE DEF activity, delta, replaced, tool
<1>9. <<>> \in Seq(ContentEvents) /\ Len(<<>>) = 0
  BY EmptySeq
<1>10. /\ activities \in Seq(ContentEvents) /\ Len(activities) \in {0, 1}
       /\ \A k \in 1 .. Len(activities) : activities[k].type = "activity"
  BY <1>4, <1>9, OneEvent
<1>11. /\ texts \in Seq(ContentEvents) /\ Len(texts) \in {0, 1}
       /\ \A k \in 1 .. Len(texts) :
             texts[k].type \in {"message.delta", "message.replaced"} /\ (texts[k].type = "message.delta" => ~value.cut)
  <2>1. Extends(bounded, cut) => ~value.cut
    BY DEF Extends
  <2>2. CASE texts = <<>>
    BY <1>9, <2>2
  <2>3. CASE texts = <<delta>> /\ ~value.cut
    BY <1>5, <2>3, OneEvent
  <2>4. CASE texts = <<replaced>>
    BY <1>6, <2>4, OneEvent
  <2>5. texts = <<>> \/ (texts = <<delta>> /\ ~value.cut) \/ texts = <<replaced>>
    <3> HIDE DEF bounded, cut
    <3> QED BY <2>1
  <2> QED BY <2>2, <2>3, <2>4, <2>5
<1>12. /\ tools \in Seq(ContentEvents)
       /\ \A k \in 1 .. Len(tools) : tools[k].type \in {"tool", "tool.cleared"}
  <2>1. CASE r.call = value.tool
    BY <1>9, <2>1
  <2>2. CASE r.call # value.tool /\ r.call = NoTool
    BY <1>8, <2>2, OneEvent
  <2>3. CASE r.call # value.tool /\ r.call # NoTool
    BY <1>7, <2>3, OneEvent
  <2> QED BY <2>1, <2>2, <2>3
<1>13. SnapshotEvents(r.text, r.cut, r.activity, r.call) = activities \o texts \o tools
  BY DEF SnapshotEvents, activity, delta, replaced, tool
<1> HIDE DEF activities, texts, tools
<1> DEFINE first == activities \o texts
           all == first \o tools
<1>14. /\ first \in Seq(ContentEvents) /\ Len(first) = Len(activities) + Len(texts)
       /\ \A k \in 1 .. Len(first) :
             \/ k \in 1 .. Len(activities) /\ first[k] = activities[k]
             \/ k - Len(activities) \in 1 .. Len(texts) /\ first[k] = texts[k - Len(activities)]
  BY <1>10, <1>11, ConcatTwo
<1>15. \A k \in 1 .. Len(first) : first[k].type \in {"activity", "message.delta", "message.replaced"}
  BY <1>10, <1>11, <1>14
<1>16. \A k \in 1 .. Len(first) : first[k].type = "message.delta" =>
          ~value.cut /\ (k = 1 \/ (k = 2 /\ first[1].type = "activity"))
  <2> SUFFICES ASSUME NEW k \in 1 .. Len(first), first[k].type = "message.delta"
               PROVE  ~value.cut /\ (k = 1 \/ (k = 2 /\ first[1].type = "activity"))
    OBVIOUS
  <2>1. ~(k \in 1 .. Len(activities) /\ first[k] = activities[k])
    BY <1>10
  <2>2. k - Len(activities) \in 1 .. Len(texts) /\ first[k] = texts[k - Len(activities)]
    BY <1>14, <2>1
  <2>3. ~value.cut
    BY <1>11, <2>2
  <2>4. CASE Len(activities) = 0
    BY <1>11, <2>2, <2>3, <2>4
  <2>5. CASE Len(activities) = 1
    <3>1. k = 2
      BY <1>11, <2>2, <2>5
    <3>2. 1 \in 1 .. Len(activities) /\ 1 \in 1 .. Len(first)
      BY <1>11, <1>14, <2>5
    <3>3. ~(1 - Len(activities) \in 1 .. Len(texts))
      BY <1>11, <2>5
    <3>4. first[1] = activities[1]
      BY <1>14, <3>2, <3>3
    <3> QED BY <1>10, <2>3, <3>1, <3>2, <3>4
  <2> QED BY <1>10, <2>4, <2>5
<1> HIDE DEF first
<1>17. /\ all \in Seq(ContentEvents)
       /\ \A k \in 1 .. Len(all) :
             \/ k \in 1 .. Len(first) /\ all[k] = first[k]
             \/ k - Len(first) \in 1 .. Len(tools) /\ all[k] = tools[k - Len(first)]
  BY <1>12, <1>14, ConcatTwo
<1> HIDE DEF all
<1>18. Ready(all)
  <2> SUFFICES ASSUME NEW k \in 1 .. Len(all), all[k].type = "message.delta"
               PROVE  ~value.cut /\ (k = 1 \/ (k = 2 /\ all[1].type = "activity"))
    BY DEF Ready
  <2>1. k \in 1 .. Len(first) /\ all[k] = first[k]
    BY <1>12, <1>17
  <2>2. ~value.cut /\ (k = 1 \/ (k = 2 /\ first[1].type = "activity"))
    BY <1>16, <2>1
  <2>3. Len(first) \in Nat /\ Len(all) \in Nat
    BY <1>14, <1>17, LenProperties
  <2>4. k = 2 => 1 \in 1 .. Len(all) /\ ~(1 - Len(first) \in 1 .. Len(tools))
    <3> SUFFICES ASSUME k = 2 PROVE 1 \in 1 .. Len(all) /\ ~(1 - Len(first) \in 1 .. Len(tools))
      OBVIOUS
    <3>1. Len(tools) \in Nat
      BY <1>12, LenProperties
    <3> QED BY <2>1, <2>3, <3>1
  <2>5. k = 2 => all[1] = first[1]
    BY <1>17, <2>4
  <2> QED BY <2>2, <2>5
<1>19. \A k \in 1 .. Len(all) : all[k].type # "message.saved"
  BY <1>12, <1>15, <1>17
<1>20. SnapshotEvents(r.text, r.cut, r.activity, r.call) = all
  BY <1>13 DEF all, first
<1> QED BY <1>17, <1>18, <1>19, <1>20

\* Every update publishes ready events; only MarkSaved calls a text saved, and
\* then it is the beginning of what history holds.
LEMMA UpdatePublishes ==
    ASSUME value \in Snapshots, stored \in Seq(Words), Update
    PROVE  \E events \in Seq(ContentEvents) :
              /\ Ready(events) /\ PublishEvents(events)
              /\ stored' \in Seq(Words)
              /\ \/ stored' = stored /\ \A k \in 1 .. Len(events) : events[k].type # "message.saved"
                 \/ events = <<Event("message.saved")>> /\ IsPrefix(value.text, stored')
<1> DEFINE Goal == \E events \in Seq(ContentEvents) :
              /\ Ready(events) /\ PublishEvents(events)
              /\ stored' \in Seq(Words)
              /\ \/ stored' = stored /\ \A k \in 1 .. Len(events) : events[k].type # "message.saved"
                 \/ events = <<Event("message.saved")>> /\ IsPrefix(value.text, stored')
<1>1. ASSUME NEW e \in ContentEvents, e.type \notin {"message.delta", "message.saved"} \/ (e.type = "message.delta" /\ ~value.cut),
             PublishEvents(<<e>>), UNCHANGED stored
      PROVE  Goal
  <2>1. <<e>> \in Seq(ContentEvents) /\ Ready(<<e>>) /\ \A k \in 1 .. Len(<<e>>) : <<e>>[k] = e
    BY <1>1, OneReady
  <2> DEFINE one == <<e>>
  <2>2. one \in Seq(ContentEvents) /\ Ready(one) /\ PublishEvents(one)
    BY <1>1, <2>1
  <2>3. stored' = stored /\ \A k \in 1 .. Len(one) : one[k].type # "message.saved"
    BY <1>1, <2>1
  <2> HIDE DEF one
  <2> QED BY <2>2, <2>3
<1>2. ASSUME NEW a \in Activities, StartMessage(a) PROVE Goal
  <2> DEFINE e == [Event("message.started") EXCEPT !.msg = value.seq + 1, !.activity = a]
  <2>1. Event("message.started") \in ContentEvents /\ Event("message.started").type = "message.started"
    BY EventTyped DEF EventTypes
  <2>2. value.seq + 1 \in Nat
    BY SnapshotFields
  <2>3. e \in ContentEvents /\ e.type = "message.started"
    BY <2>1, <2>2 DEF ContentEvents
  <2>4. PublishEvents(<<e>>) /\ UNCHANGED stored
    BY <1>2 DEF StartMessage
  <2> HIDE DEF e, Goal
  <2> QED BY <1>1, <2>3, <2>4
<1>3. ASSUME NEW a \in Activities, MessageCompleted(a) PROVE Goal
  <2> DEFINE e == [Event("message.completed") EXCEPT !.activity = a]
  <2>1. Event("message.completed") \in ContentEvents /\ Event("message.completed").type = "message.completed"
    BY EventTyped DEF EventTypes
  <2>2. e \in ContentEvents /\ e.type = "message.completed"
    BY <2>1 DEF ContentEvents
  <2>3. PublishEvents(<<e>>) /\ UNCHANGED stored
    BY <1>3 DEF MessageCompleted
  <2> HIDE DEF e, Goal
  <2> QED BY <1>1, <2>2, <2>3
<1>4. ASSUME NEW a \in Activities, SetActivity(a) PROVE Goal
  <2> DEFINE e == [Event("activity") EXCEPT !.activity = a]
  <2>1. Event("activity") \in ContentEvents /\ Event("activity").type = "activity"
    BY EventTyped DEF EventTypes
  <2>2. e \in ContentEvents /\ e.type = "activity"
    BY <2>1 DEF ContentEvents
  <2>3. PublishEvents(<<e>>) /\ UNCHANGED stored
    BY <1>4 DEF SetActivity
  <2> HIDE DEF e, Goal
  <2> QED BY <1>1, <2>2, <2>3
<1>5. ASSUME NEW word \in Words, MessageDelta(word) PROVE Goal
  <2> DEFINE t == <<word>>
             e == [Event("message.delta") EXCEPT !.text = t, !.activity = "work"]
  <2>1. Event("message.delta") \in ContentEvents /\ Event("message.delta").type = "message.delta"
    BY EventTyped DEF EventTypes
  <2>2. t \in Seq(Words) /\ "work" \in Activities
    BY OneEvent, NamesAssumption
  <2>3. PublishEvents(<<e>>) /\ UNCHANGED stored /\ ~value.cut
    BY <1>5 DEF MessageDelta
  <2> HIDE DEF t, Goal
  <2>4. e \in ContentEvents /\ e.type = "message.delta"
    BY <2>1, <2>2 DEF ContentEvents
  <2> HIDE DEF e
  <2> QED BY <1>1, <2>3, <2>4
<1>6. ASSUME NEW word \in Words, Thought(word) PROVE Goal
  <2> DEFINE t == <<word>>
             e == [Event("thought.delta") EXCEPT !.text = t]
  <2>1. Event("thought.delta") \in ContentEvents /\ Event("thought.delta").type = "thought.delta"
    BY EventTyped DEF EventTypes
  <2>2. t \in Seq(Words)
    BY OneEvent
  <2>3. PublishEvents(<<e>>) /\ UNCHANGED stored
    BY <1>6 DEF Thought
  <2> HIDE DEF t, Goal
  <2>4. e \in ContentEvents /\ e.type = "thought.delta"
    BY <2>1, <2>2 DEF ContentEvents
  <2> HIDE DEF e
  <2> QED BY <1>1, <2>3, <2>4
<1>7. ASSUME NEW id \in Tools, NEW status \in {"running", "completed"}, UpdateTool(id, status) PROVE Goal
  <2> DEFINE e == [Event("tool") EXCEPT !.call = Call(id, status), !.activity = "work"]
  <2>1. <<>> \in Seq(Words) /\ "work" \in Activities
    BY EmptySeq, NamesAssumption
  <2>2. Call(id, status) \in Calls
    BY DEF Call, Calls
  <2>3. e \in ContentEvents /\ e.type = "tool"
    BY <2>1, <2>2 DEF Event, EventTypes, ContentEvents
  <2>4. PublishEvents(<<e>>) /\ UNCHANGED stored
    BY <1>7 DEF UpdateTool
  <2> HIDE DEF e, Goal
  <2> QED BY <1>1, <2>3, <2>4
<1>8. ASSUME NEW q \in Requests, PromptSaved(q) PROVE Goal
  <2> DEFINE e == [Event("prompt.saved") EXCEPT !.request = q]
  <2>1. <<>> \in Seq(Words) /\ "" \in Activities
    BY EmptySeq, NamesAssumption
  <2>2. e \in ContentEvents /\ e.type = "prompt.saved"
    BY <2>1 DEF Event, EventTypes, ContentEvents
  <2>3. PublishEvents(<<e>>) /\ UNCHANGED stored
    BY <1>8 DEF PromptSaved
  <2> HIDE DEF e, Goal
  <2> QED BY <1>1, <2>2, <2>3
<1>9. ASSUME NEW text \in Texts, MarkSaved(text) PROVE Goal
  <2> DEFINE e == Event("message.saved")
  <2>1. e \in ContentEvents /\ e.type = "message.saved"
    BY EventTyped DEF EventTypes
  <2>2. First(text, MaxText) = value.text /\ PublishEvents(<<e>>) /\ stored' = text
    BY <1>9 DEF MarkSaved
  <2>3. text \in Seq(Words)
    <3>1. PICK n \in 0 .. MaxText + 1 : text \in [1 .. n -> Words]
      BY DEF Texts
    <3>2. n \in Nat
      BY LimitsAssumption
    <3> QED BY <3>1, <3>2, SeqDef
  <2>4. IsPrefix(value.text, stored') /\ stored' \in Seq(Words)
    BY <2>2, <2>3, LimitsAssumption, FirstMeans
  <2>5. <<e>> \in Seq(ContentEvents) /\ Ready(<<e>>)
    BY <2>1, OneReady
  <2> QED BY <2>2, <2>4, <2>5
<1>10. ASSUME NEW r \in Reports, PublishSnapshot(r.text, r.cut, r.activity, r.call) PROVE Goal
  <2> DEFINE events == SnapshotEvents(r.text, r.cut, r.activity, r.call)
  <2>1. PublishEvents(events) /\ UNCHANGED stored
    BY <1>10 DEF PublishSnapshot
  <2>2. /\ events \in Seq(ContentEvents) /\ Ready(events)
        /\ \A k \in 1 .. Len(events) : events[k].type # "message.saved"
    BY SnapshotReady
  <2> HIDE DEF events
  <2> QED BY <2>1, <2>2
<1> HIDE DEF Goal
<1>11. Goal
  BY <1>2, <1>3, <1>4, <1>5, <1>6, <1>7, <1>8, <1>9, <1>10 DEF Update
<1> QED BY <1>11 DEF Goal

----------------------------------------------------------------------------
(* The invariant *)

\* The reader of a stream will be brought to the server's snapshot unless the
\* stream ends, and its client shows what it has read so far.  Only a serving
\* runtime has open streams.
LiveStreams ==
    /\ ~runtime.serving => \A w \in Watchers : ~sub[w].open
    /\ \A w \in Watchers : watch[w].pc = "stream" =>
          Fits(sub[w], watch[w].snapshot, value) /\ Shows(client[w], watch[w].snapshot)

ContentInv == ContentTypeOK /\ LiveStreams /\ SavedTextIsHistory

LEMMA UpdateKeeps ==
    ASSUME ContentInv, Update
    PROVE  ContentInv'
<1> USE DEF ContentInv
<1>1. /\ value \in Snapshots /\ stored \in Seq(Words) /\ sub \in [Watchers -> Subscribers]
  BY DEF ContentTypeOK
<1>2. PICK events \in Seq(ContentEvents) :
        /\ Ready(events) /\ PublishEvents(events)
        /\ stored' \in Seq(Words)
        /\ \/ stored' = stored /\ \A k \in 1 .. Len(events) : events[k].type # "message.saved"
           \/ events = <<Event("message.saved")>> /\ IsPrefix(value.text, stored')
  BY <1>1, UpdatePublishes
<1> DEFINE n == Numbered(events)
<1>3. /\ n \in Seq(ContentEvents) /\ Len(n) = Len(events) /\ Len(n) \in Nat
      /\ \A k \in 1 .. Len(n) : n[k].type = events[k].type
  BY <1>1, NumberedTyped, SnapshotFields, LenProperties
<1>4. Guarded(value, n)
  BY <1>1, <1>2, ReadyGuards
<1>5. /\ runtime.serving /\ UNCHANGED <<runtime, watch, client>>
      /\ value' = ApplyAll(value, n)
      /\ sub' = [w \in Watchers |-> Sent(sub[w], n)[Len(n)]]
  BY <1>2, <1>3 DEF PublishEvents
<1> HIDE DEF n
<1>6. value' \in Snapshots
  <2>1. Len(n) \in 0 .. Len(n)
    BY <1>3
  <2> QED BY <1>1, <1>3, <1>5, <2>1, AfterTyped DEF ApplyAll
<1>7. sub' \in [Watchers -> Subscribers]
  BY <1>1, <1>3, <1>5, SentTyped
<1>8. ContentTypeOK'
  BY <1>2, <1>5, <1>6, <1>7 DEF ContentTypeOK
<1>9. ASSUME NEW w \in Watchers, watch'[w].pc = "stream"
      PROVE  Fits(sub'[w], watch'[w].snapshot, value') /\ Shows(client'[w], watch'[w].snapshot)
  <2>1. Fits(sub[w], watch[w].snapshot, value) /\ Shows(client[w], watch[w].snapshot)
    BY <1>5, <1>9 DEF LiveStreams
  <2>2. sub'[w] = Sent(sub[w], n)[Len(n)]
    BY <1>5
  <2>3. Fits(Sent(sub[w], n)[Len(n)], watch[w].snapshot, ApplyAll(value, n))
    BY <1>3, <1>4, <2>1, SentFits
  <2> QED BY <1>5, <2>1, <2>2, <2>3
<1>10. LiveStreams'
  BY <1>5, <1>9 DEF LiveStreams
<1>11. SavedTextIsHistory'
  <2>1. CASE stored' = stored /\ \A k \in 1 .. Len(events) : events[k].type # "message.saved"
    <3>1. value'.saved => value.saved /\ value'.text = value.text
      BY <1>1, <1>3, <1>5, <2>1, SavedStays
    <3> QED BY <2>1, <3>1 DEF SavedTextIsHistory
  <2>2. CASE events = <<Event("message.saved")>> /\ IsPrefix(value.text, stored')
    <3>1. Event("message.saved") \in ContentEvents /\ Event("message.saved").type = "message.saved"
      BY EventTyped DEF EventTypes
    <3>2. Len(events) = 1 /\ events[1].type = "message.saved"
      BY <2>2, <3>1, OneEvent
    <3>3. Len(n) = 1 /\ n[1].type = "message.saved" /\ n[1] \in ContentEvents
      <4>1. Len(n) = 1 /\ 1 \in 1 .. Len(n)
        BY <1>3, <3>2
      <4> QED BY <1>3, <3>2, <4>1, ElementOfSeq
    <3>4. After(value, n)[0] = value /\ After(value, n)[1] = Apply(After(value, n)[1 - 1], n[1])
      BY <1>3, <3>3, AfterGoes
    <3>5. value' = Apply(value, n[1])
      BY <1>5, <3>3, <3>4 DEF ApplyAll
    <3>6. SameContent(Apply(value, n[1]), [value EXCEPT !.saved = TRUE])
      BY <1>1, <3>3, ApplyMeans
    <3>7. value'.text = value.text
      BY <1>1, <3>5, <3>6 DEF SameContent, Snapshots
    <3> QED BY <2>2, <3>7 DEF SavedTextIsHistory
  <2> QED BY <1>2, <2>1, <2>2
<1> QED BY <1>8, <1>10, <1>11

\* What a step of w leaves alone.
LEMMA OtherStreams ==
    ASSUME LiveStreams, NEW w \in Watchers,
           UNCHANGED <<runtime, value>>,
           \A x \in Watchers \ {w} : sub'[x] = sub[x] /\ watch'[x] = watch[x] /\ client'[x] = client[x],
           sub'[w].open => runtime.serving,
           watch'[w].pc = "stream" => Fits(sub'[w], watch'[w].snapshot, value) /\ Shows(client'[w], watch'[w].snapshot)
    PROVE  LiveStreams'
<1>1. ~runtime'.serving => \A x \in Watchers : ~sub'[x].open
  BY DEF LiveStreams
<1>2. ASSUME NEW x \in Watchers, watch'[x].pc = "stream"
      PROVE  Fits(sub'[x], watch'[x].snapshot, value') /\ Shows(client'[x], watch'[x].snapshot)
  <2>1. CASE x = w
    BY <1>2, <2>1
  <2>2. CASE x # w
    BY <1>2, <2>2 DEF LiveStreams
  <2> QED BY <2>1, <2>2
<1> QED BY <1>1, <1>2 DEF LiveStreams

Watches == [pc : {"away", "status", "subscribe", "stream"}, runtime : Nat, snapshot : Snapshots]

LEMMA BlankTyped == Blank \in Clients /\ Closed \in Subscribers /\ Away \in Watches
<1>1. <<>> \in Seq(Words) /\ <<>> \in Seq(ContentEvents) /\ Len(<<>>) = 0
  BY EmptySeq
<1>2. 0 <= MaxQueue
  BY LimitsAssumption
<1>3. Blank \in Clients
  BY <1>1 DEF Blank, Clients
<1>4. Closed \in Subscribers
  BY <1>1, <1>2 DEF Closed, Subscribers
<1>5. Away \in Watches
  BY EmptyTyped DEF Away, Watches
<1> QED BY <1>3, <1>4, <1>5

\* A subscriber whose reader has just been told the server's snapshot.
LEMMA FreshFits ==
    ASSUME NEW v
    PROVE  Fits([open |-> TRUE, queue |-> <<>>], v, v)
<1>1. <<>> \in Seq(ContentEvents) /\ Len(<<>>) = 0
  BY EmptySeq
<1>2. [open |-> TRUE, queue |-> <<>>] \in Subscribers
  BY <1>1, LimitsAssumption DEF Subscribers
<1>3. Guarded(v, <<>>)
  BY <1>1 DEF Guarded
<1>4. ApplyAll(v, <<>>) = v
  BY ApplyNone
<1> QED BY <1>2, <1>3, <1>4 DEF Fits

LEMMA ShownShows ==
    ASSUME NEW v \in Snapshots
    PROVE  Shown(v) \in Clients /\ Shows(Shown(v), v)
<1> USE SnapshotFields
<1>1. Range(v.tools) \in SUBSET Calls /\ Range(v.prompts) \in SUBSET Requests
  <2>1. /\ DOMAIN v.tools = 1 .. Len(v.tools) /\ \A k \in 1 .. Len(v.tools) : v.tools[k] \in Calls
        /\ DOMAIN v.prompts = 1 .. Len(v.prompts) /\ \A k \in 1 .. Len(v.prompts) : v.prompts[k] \in Requests
    BY LenProperties, ElementOfSeq
  <2> QED BY <2>1 DEF Range
<1>2. IsPrefix(v.text, v.text)
  <2>1. Len(v.text) \in Nat
    BY LenProperties
  <2>2. Len(v.text) <= Len(v.text)
    BY <2>1
  <2> QED BY <2>2, PrefixMeans
<1>3. IsSuffix(v.thought, v.thought)
  <2> DEFINE t == v.thought
  <2>1. t \in Seq(Words) /\ Len(t) \in Nat
    BY LenProperties
  <2> HIDE DEF t
  <2>2. Len(t) <= Len(t) /\ \A k \in 1 .. Len(t) : t[k] = t[k + (Len(t) - Len(t))]
    BY <2>1
  <2>3. IsSuffix(t, t)
    BY ONLY <2>1, <2>2, SuffixMeans
  <2> QED BY <2>3 DEF t
<1>4. Shown(v) \in Clients
  BY <1>1 DEF Shown, Clients
<1>5. /\ Shown(v).text = v.text /\ Shown(v).saved = v.saved /\ Shown(v).thought = v.thought
      /\ Shown(v).tools = Range(v.tools) /\ Shown(v).prompts = Range(v.prompts)
  BY DEF Shown
<1> QED BY <1>2, <1>3, <1>4, <1>5 DEF Shows

\* The next event of a stream, for the subscriber's queue.
LEMMA ReceivedFits ==
    ASSUME NEW s, NEW v, NEW u, Fits(s, v, u), s.queue # <<>>
    PROVE  /\ Head(s.queue) \in ContentEvents
           /\ Head(s.queue).type = "message.delta" => ~v.cut
           /\ [s EXCEPT !.queue = Tail(@)] \in Subscribers
           /\ [s EXCEPT !.queue = Tail(@)].open = s.open
           /\ Fits([s EXCEPT !.queue = Tail(@)], Apply(v, Head(s.queue)), u)
<1> DEFINE q == s.queue
           p == Tail(q)
           e == Head(q)
           t == [s EXCEPT !.queue = p]
<1>1. s \in Subscribers /\ Guarded(v, q) /\ (s.open => ApplyAll(v, q) = u)
  BY DEF Fits
<1>2. q \in Seq(ContentEvents) /\ Len(q) \in Nat /\ Len(q) <= MaxQueue /\ q # <<>>
  BY <1>1, LenProperties DEF Subscribers
<1>3. /\ e \in ContentEvents /\ p \in Seq(ContentEvents) /\ Len(p) = Len(q) - 1
      /\ \A k \in 1 .. Len(p) : p[k] = q[k + 1]
  BY <1>2, HeadTailProperties
<1>4. Len(q) # 0 /\ 1 \in 1 .. Len(q) /\ e = q[1]
  BY <1>2, EmptySeq
<1>5. /\ \A k \in 0 .. Len(q) - 1 : After(Apply(v, e), p)[k] = After(v, q)[k + 1]
      /\ ApplyAll(Apply(v, e), p) = ApplyAll(v, q)
  BY <1>2, ApplyTail
<1>6. After(v, q)[0] = v
  BY <1>2, AfterGoes
<1>7. [s EXCEPT !.queue = Tail(@)] = t
  BY <1>1 DEF Subscribers
<1> HIDE DEF p, e
<1>8. Len(p) <= MaxQueue
  BY <1>2, <1>3, LimitsAssumption
<1>9. t \in Subscribers /\ t.open = s.open /\ t.queue = p
  BY <1>1, <1>3, <1>8 DEF Subscribers
<1>10. e.type = "message.delta" => ~v.cut
  <2>1. q[1].type = "message.delta" => ~After(v, q)[1 - 1].cut
    BY <1>1, <1>4 DEF Guarded
  <2> QED BY <1>4, <1>6, <2>1
<1> HIDE DEF t, q
<1>11. Guarded(Apply(v, e), p)
  <2> SUFFICES ASSUME NEW k \in 1 .. Len(p), p[k].type = "message.delta"
               PROVE  ~After(Apply(v, e), p)[k - 1].cut
    BY DEF Guarded
  <2>1. k + 1 \in 1 .. Len(q) /\ (k + 1) - 1 = k /\ k - 1 \in 0 .. Len(q) - 1 /\ (k - 1) + 1 = k
    BY <1>2, <1>3
  <2>2. p[k] = q[k + 1] /\ After(Apply(v, e), p)[k - 1] = After(v, q)[k]
    BY <1>3, <1>5, <2>1
  <2>3. ~After(v, q)[(k + 1) - 1].cut
    BY <1>1, <2>1, <2>2 DEF Guarded
  <2> QED BY <2>1, <2>2, <2>3
<1>12. Fits(t, Apply(v, e), u)
  BY <1>1, <1>5, <1>9, <1>11 DEF Fits
<1> QED BY <1>3, <1>7, <1>9, <1>10, <1>12 DEF e, q

LEMMA WatchKeeps ==
    ASSUME ContentInv, NEW w \in Watchers, Watch(w) \/ Continue(w) \/ Leave(w)
    PROVE  ContentInv'
<1> USE DEF ContentInv
<1>1. /\ runtime \in [id : Nat, serving : BOOLEAN] /\ value \in Snapshots /\ stored \in Seq(Words)
      /\ sub \in [Watchers -> Subscribers] /\ watch \in [Watchers -> Watches] /\ client \in [Watchers -> Clients]
  BY DEF ContentTypeOK, Watches
<1>2. runtime.id \in Nat /\ watch[w] \in Watches /\ sub[w] \in Subscribers /\ client[w] \in Clients
  BY <1>1
<1>3. sub[w].open => runtime.serving
  BY DEF LiveStreams
<1>4. watch[w].pc = "stream" => Fits(sub[w], watch[w].snapshot, value) /\ Shows(client[w], watch[w].snapshot)
  BY DEF LiveStreams
\* What a step has to say of w.
<1> DEFINE Right(s, x, c) ==
        /\ s \in Subscribers /\ x \in Watches /\ c \in Clients
        /\ s.open => runtime.serving
        /\ x.pc = "stream" => Fits(s, x.snapshot, value) /\ Shows(c, x.snapshot)
<1>5. ASSUME NEW s, NEW x, NEW c, Right(s, x, c), UNCHANGED <<runtime, value, stored>>,
             sub' = [sub EXCEPT ![w] = s], watch' = [watch EXCEPT ![w] = x], client' = [client EXCEPT ![w] = c]
      PROVE  ContentInv'
  <2>1. sub' \in [Watchers -> Subscribers] /\ watch' \in [Watchers -> Watches] /\ client' \in [Watchers -> Clients]
    BY <1>1, <1>5
  <2>2. ContentTypeOK'
    BY <1>1, <1>5, <2>1 DEF ContentTypeOK, Watches
  <2>3. /\ sub'[w] = s /\ watch'[w] = x /\ client'[w] = c
        /\ \A y \in Watchers \ {w} : sub'[y] = sub[y] /\ watch'[y] = watch[y] /\ client'[y] = client[y]
    BY <1>1, <1>5
  <2>4. LiveStreams'
    BY <1>5, <2>3, OtherStreams
  <2>5. SavedTextIsHistory'
    BY <1>5 DEF SavedTextIsHistory
  <2> QED BY <2>2, <2>4, <2>5
<1>6. sub = [sub EXCEPT ![w] = sub[w]] /\ watch = [watch EXCEPT ![w] = watch[w]] /\ client = [client EXCEPT ![w] = client[w]]
  BY <1>1
<1>7. /\ Away.pc = "away" /\ [Away EXCEPT !.pc = "status"] \in Watches /\ [Away EXCEPT !.pc = "status"].pc = "status"
      /\ Closed.open = FALSE
  BY EmptyTyped DEF Away, Closed, Watches
<1>8. ASSUME Ended(w), UNCHANGED <<runtime, value, stored>>, NEW s \in Subscribers, s.open => runtime.serving,
             sub' = [sub EXCEPT ![w] = s]
      PROVE  ContentInv'
  <2>1. CASE runtime.serving /\ runtime.id = watch[w].runtime
    <3>1. watch' = [watch EXCEPT ![w] = Away] /\ client' = [client EXCEPT ![w] = Blank]
      BY <1>8, <2>1 DEF Ended
    <3>2. Right(s, Away, Blank)
      BY <1>7, <1>8, BlankTyped
    <3> HIDE DEF Right
    <3> QED BY <1>5, <1>8, <3>1, <3>2
  <2>2. CASE ~(runtime.serving /\ runtime.id = watch[w].runtime)
    <3>1. watch' = [watch EXCEPT ![w] = [Away EXCEPT !.pc = "status"]] /\ client' = client
      BY <1>8, <2>2 DEF Ended
    <3>2. Right(s, [Away EXCEPT !.pc = "status"], client[w])
      BY <1>2, <1>7, <1>8
    <3> HIDE DEF Right
    <3> QED BY <1>5, <1>6, <1>8, <3>1, <3>2
  <2> QED BY <2>1, <2>2
<1>9. CASE Watch(w)
  <2>1. Right(sub[w], [Away EXCEPT !.pc = "status"], client[w])
    BY <1>2, <1>3, <1>7
  <2>2. /\ UNCHANGED <<runtime, value, stored, sub, client>>
        /\ watch' = [watch EXCEPT ![w] = [Away EXCEPT !.pc = "status"]]
    BY <1>9 DEF Watch
  <2> HIDE DEF Right
  <2> QED BY <1>5, <1>6, <2>1, <2>2
<1>10. CASE ReadStatus(w)
  <2>1. CASE runtime.serving
    <3> DEFINE x == [watch[w] EXCEPT !.pc = "subscribe", !.runtime = runtime.id]
    <3>1. watch' = [watch EXCEPT ![w] = x] /\ UNCHANGED <<runtime, value, stored, sub, client>>
      BY <1>10, <2>1 DEF ReadStatus
    <3>2. x \in Watches /\ x.pc = "subscribe"
      BY <1>2 DEF Watches
    <3> HIDE DEF x
    <3>3. Right(sub[w], x, client[w])
      BY <1>2, <1>3, <3>2
    <3> HIDE DEF Right
    <3> QED BY <1>5, <1>6, <3>1, <3>3
  <2>2. CASE ~runtime.serving
    <3>1. watch[w].pc = "status" /\ client' = [client EXCEPT ![w] = Blank] /\ UNCHANGED <<runtime, value, stored, sub, watch>>
      BY <1>10, <2>2 DEF ReadStatus
    <3>2. Right(sub[w], watch[w], Blank)
      BY <1>2, <1>3, <3>1, BlankTyped
    <3> HIDE DEF Right
    <3> QED BY <1>5, <1>6, <3>1, <3>2
  <2> QED BY <2>1, <2>2
<1>11. CASE Subscribe(w)
  <2>1. CASE runtime.serving
    <3> DEFINE x == [watch[w] EXCEPT !.pc = "stream", !.snapshot = value]
               s == [open |-> TRUE, queue |-> <<>>]
    <3>1. /\ sub' = [sub EXCEPT ![w] = s] /\ watch' = [watch EXCEPT ![w] = x]
          /\ client' = [client EXCEPT ![w] = Shown(value)] /\ UNCHANGED <<runtime, value, stored>>
      BY <1>11, <2>1 DEF Subscribe
    <3>2. x \in Watches /\ x.snapshot = value
      BY <1>1, <1>2 DEF Watches
    <3>3. Fits(s, value, value) /\ s \in Subscribers
      BY FreshFits DEF Fits
    <3>4. Shown(value) \in Clients /\ Shows(Shown(value), value)
      BY <1>1, ShownShows
    <3> HIDE DEF x, s
    <3>5. Right(s, x, Shown(value))
      BY <2>1, <3>2, <3>3, <3>4
    <3> HIDE DEF Right
    <3> QED BY <1>5, <3>1, <3>5
  <2>2. CASE ~runtime.serving
    <3>1. Ended(w) /\ UNCHANGED <<runtime, value, stored, sub>>
      BY <1>11, <2>2 DEF Subscribe
    <3> QED BY <1>2, <1>3, <1>6, <1>8, <3>1
  <2> QED BY <2>1, <2>2
<1>12. CASE Receive(w)
  <2> DEFINE e == Head(sub[w].queue)
             v == watch[w].snapshot
  <2>1. watch[w].pc = "stream" /\ sub[w].queue # <<>> /\ UNCHANGED <<runtime, value, stored>>
    BY <1>12 DEF Receive
  <2>2. CASE e.seq = v.seq + 1
    <3> DEFINE s == [sub[w] EXCEPT !.queue = Tail(@)]
               x == [watch[w] EXCEPT !.snapshot = Apply(v, e)]
               c == Forward(client[w], e)
    <3>1. sub' = [sub EXCEPT ![w] = s] /\ watch' = [watch EXCEPT ![w] = x] /\ client' = [client EXCEPT ![w] = c]
      BY <1>1, <1>12, <2>2 DEF Receive
    <3>2. Fits(sub[w], v, value) /\ Shows(client[w], v) /\ v \in Snapshots
      BY <1>2, <1>4, <2>1 DEF Watches
    <3>3. /\ e \in ContentEvents /\ (e.type = "message.delta" => ~v.cut)
          /\ s \in Subscribers /\ s.open = sub[w].open /\ Fits(s, Apply(v, e), value)
      BY <2>1, <3>2, ReceivedFits
    <3>4. Apply(v, e) \in Snapshots
      BY <3>2, <3>3, ApplyMeans
    <3>5. c \in Clients /\ Shows(c, Apply(v, e))
      BY <1>2, <3>2, <3>3, ForwardMeans, ForwardShows
    <3> DEFINE a == Apply(v, e)
    <3> HIDE DEF a, e
    <3>6. x \in Watches /\ x.snapshot = Apply(v, e)
      BY <1>2, <3>4 DEF Watches
    <3> HIDE DEF x, s, c, v
    <3>7. Right(s, x, c)
      BY <1>3, <3>3, <3>5, <3>6
    <3> HIDE DEF Right
    <3> QED BY <1>5, <2>1, <3>1, <3>7
  <2>3. CASE e.seq # v.seq + 1
    <3>1. Ended(w) /\ sub' = [sub EXCEPT ![w] = Closed]
      BY <1>12, <2>3 DEF Receive
    <3> QED BY <1>7, <1>8, <2>1, <3>1, BlankTyped
  <2> QED BY <2>2, <2>3
<1>13. CASE EndOfStream(w)
  <2>1. Ended(w) /\ UNCHANGED <<runtime, value, stored, sub>>
    BY <1>13 DEF EndOfStream
  <2> QED BY <1>2, <1>3, <1>6, <1>8, <2>1
<1>14. CASE Leave(w)
  <2>1. /\ sub' = [sub EXCEPT ![w] = Closed] /\ watch' = [watch EXCEPT ![w] = Away]
        /\ client' = [client EXCEPT ![w] = Blank] /\ UNCHANGED <<runtime, value, stored>>
    BY <1>14 DEF Leave
  <2>2. Right(Closed, Away, Blank)
    BY <1>7, BlankTyped
  <2> HIDE DEF Right
  <2> QED BY <1>5, <2>1, <2>2
<1> QED BY <1>9, <1>10, <1>11, <1>12, <1>13, <1>14 DEF Continue

LEMMA StopKeeps ==
    ASSUME ContentInv, StopRuntime \/ StartRuntime
    PROVE  ContentInv'
<1> USE DEF ContentInv
<1>1. /\ runtime \in [id : Nat, serving : BOOLEAN] /\ value \in Snapshots /\ stored \in Seq(Words)
      /\ sub \in [Watchers -> Subscribers]
  BY DEF ContentTypeOK
<1>2. CASE StopRuntime
  <2>1. /\ runtime' = [runtime EXCEPT !.serving = FALSE]
        /\ sub' = [w \in Watchers |-> [sub[w] EXCEPT !.open = FALSE]]
        /\ UNCHANGED <<value, stored, watch, client>>
    BY <1>2 DEF StopRuntime
  <2>2. \A w \in Watchers : /\ [sub[w] EXCEPT !.open = FALSE] \in Subscribers
                            /\ [sub[w] EXCEPT !.open = FALSE].open = FALSE
                            /\ [sub[w] EXCEPT !.open = FALSE].queue = sub[w].queue
    BY <1>1 DEF Subscribers
  <2>3. \A w \in Watchers : sub'[w] \in Subscribers /\ sub'[w].open = FALSE /\ sub'[w].queue = sub[w].queue
    BY <2>1, <2>2
  <2>4. sub' \in [Watchers -> Subscribers] /\ runtime' \in [id : Nat, serving : BOOLEAN]
    BY <1>1, <2>1, <2>2
  <2>5. ContentTypeOK'
    BY <2>1, <2>4 DEF ContentTypeOK
  <2>6. LiveStreams'
    <3>1. ASSUME NEW w \in Watchers, watch'[w].pc = "stream"
          PROVE  Fits(sub'[w], watch'[w].snapshot, value') /\ Shows(client'[w], watch'[w].snapshot)
      <4>1. Fits(sub[w], watch[w].snapshot, value) /\ Shows(client[w], watch[w].snapshot)
        BY <2>1, <3>1 DEF LiveStreams
      <4> QED BY <2>1, <2>3, <4>1 DEF Fits
    <3> QED BY <2>3, <3>1 DEF LiveStreams
  <2> QED BY <2>1, <2>5, <2>6 DEF SavedTextIsHistory
<1>3. CASE StartRuntime
  <2>1. /\ ~runtime.serving /\ runtime' = [id |-> runtime.id + 1, serving |-> TRUE]
        /\ value' = Empty /\ stored' = <<>>
        /\ UNCHANGED <<sub, watch, client>>
    BY <1>3 DEF StartRuntime
  <2>2. runtime' \in [id : Nat, serving : BOOLEAN] /\ runtime'.serving = TRUE
    BY <1>1, <2>1
  <2>3. ContentTypeOK'
    BY <2>1, <2>2, EmptyTyped, EmptySeq DEF ContentTypeOK
  <2>4. LiveStreams'
    <3>1. ASSUME NEW w \in Watchers, watch'[w].pc = "stream"
          PROVE  Fits(sub'[w], watch'[w].snapshot, value') /\ Shows(client'[w], watch'[w].snapshot)
      <4>1. Fits(sub[w], watch[w].snapshot, value) /\ Shows(client[w], watch[w].snapshot) /\ ~sub[w].open
        BY <2>1, <3>1 DEF LiveStreams
      <4> QED BY <2>1, <4>1 DEF Fits
    <3> QED BY <2>2, <3>1 DEF LiveStreams
  <2>5. SavedTextIsHistory'
    BY <2>1, EmptyTyped DEF SavedTextIsHistory
  <2> QED BY <2>3, <2>4, <2>5
<1> QED BY <1>2, <1>3

LEMMA ContentInitInv == ContentInit => ContentInv
<1> SUFFICES ASSUME ContentInit PROVE ContentInv
  OBVIOUS
<1> USE DEF ContentInit
<1>1. ContentTypeOK
  <2>1. runtime \in [id : Nat, serving : BOOLEAN] /\ stored \in Seq(Words) /\ value \in Snapshots
    BY EmptySeq, EmptyTyped
  <2>2. /\ sub \in [Watchers -> Subscribers] /\ watch \in [Watchers -> Watches] /\ client \in [Watchers -> Clients]
    BY BlankTyped
  <2> QED BY <2>1, <2>2 DEF ContentTypeOK, Watches
<1>2. LiveStreams
  BY DEF LiveStreams, Away, Closed
<1>3. SavedTextIsHistory
  BY EmptyTyped DEF SavedTextIsHistory
<1> QED BY <1>1, <1>2, <1>3 DEF ContentInv

LEMMA ContentNextInv == ContentInv /\ [ContentNext]_contentVars => ContentInv'
<1> SUFFICES ASSUME ContentInv, [ContentNext]_contentVars PROVE ContentInv'
  OBVIOUS
<1>1. CASE Update
  BY <1>1, UpdateKeeps
<1>2. CASE StopRuntime \/ StartRuntime
  BY <1>2, StopKeeps
<1>3. CASE \E w \in Watchers : Watch(w) \/ Continue(w) \/ Leave(w)
  BY <1>3, WatchKeeps
<1>4. CASE UNCHANGED contentVars
  BY <1>4 DEF contentVars, ContentInv, ContentTypeOK, LiveStreams, SavedTextIsHistory
<1> QED BY <1>1, <1>2, <1>3, <1>4 DEF ContentNext

\* Readers' queues lead to the server's snapshot, clients show what was read,
\* and a text called saved begins an entry in history.
THEOREM ContentIsInvariant == ContentSpec => []ContentInv
<1> QED BY ContentInitInv, ContentNextInv, PTL DEF ContentSpec

\* The server's snapshot, the subscribers' queues, what the watchers have read
\* and what the clients show are what their types say, every limit kept.
THEOREM ContentTypesCorrect == ContentSpec => []ContentTypeOK
<1>1. ContentInv => ContentTypeOK
  BY DEF ContentInv
<1> QED BY <1>1, ContentIsInvariant, PTL

\* Between its first snapshot and the end of its stream a reader misses nothing.
THEOREM StreamsTellAll == ContentSpec => []StreamsAreComplete
<1>1. ContentInv => StreamsAreComplete
  BY DEF ContentInv, LiveStreams, Fits, StreamsAreComplete
<1> QED BY <1>1, ContentIsInvariant, PTL

\* What a client shows is the stream's content or the beginning of an entry in history.
THEOREM ClientsShowTheTurn == ContentSpec => []ClientSeesTheTurn
<1>1. ContentInv => ClientSeesTheTurn
  BY DEF ContentInv, LiveStreams, ClientSeesTheTurn, ClientFollowsStream
<1> QED BY <1>1, ContentIsInvariant, PTL
==============================================================================
