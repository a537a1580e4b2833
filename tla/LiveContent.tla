---------------------------- MODULE LiveContent ----------------------------
(***************************************************************************)
(* The live content of an agent's runtime: the driver's content server,    *)
(* its numbered events and its subscribers (agentdriver/protocol/          *)
(* content.go), and the daemon's watch that follows the item's runtimes    *)
(* and forwards each event to an API client (daemonapi/agents.go,          *)
(* WatchLiveContent).                                                      *)
(*                                                                         *)
(* A text is a sequence of words.  Updates of the server happen under its  *)
(* lock and are atomic.  A subscriber's queue stands for its channel and   *)
(* the socket; its two limits, in events and in bytes, are one.            *)
(***************************************************************************)
EXTENDS Integers, Sequences, SequencesExt

CONSTANTS
    Watchers,
    Words,
    Tools,        \* IDs of tool calls
    Requests,     \* IDs of prompts a sender waits for
    Activities,   \* what the agent may be said to do; "" is among them
    Reports,      \* the whole snapshots a transcript or a stream may report
    MaxText,      \* the limit of a text (MaxContentTextBytes)
    MaxThought,   \* of the reasoning
    MaxTools,     \* of the tool calls of a message (maxContentTools)
    MaxPrompts,   \* of the prompt links (maxPromptLinks)
    MaxQueue,     \* of a subscriber's queue (contentSubscriberBuffer)
    MaxEvents,    \* bound: MaxEvents[r] events of runtime r
    MaxRuntimes,  \* bound: runtimes
    NoTool

ASSUME LimitsAssumption ==
    /\ MaxText \in Nat \ {0} /\ MaxThought \in Nat \ {0}
    /\ MaxTools \in Nat \ {0} /\ MaxPrompts \in Nat \ {0} /\ MaxQueue \in Nat \ {0}
ASSUME NamesAssumption == {"", "work"} \subseteq Activities /\ NoTool \notin Tools
ASSUME ReportsAssumption ==
    \A r \in Reports :
        /\ r.text \in Seq(Words) /\ r.cut \in BOOLEAN /\ r.activity \in Activities
        /\ r.call \in [id : Tools, status : {"running", "completed"}] \union {NoTool}

VARIABLES
    runtime,  \* the number of the current runtime and whether it serves
    value,    \* the server's snapshot (ContentServer.value)
    stored,   \* history: the text that the entries in value.saved hold
    sub,      \* sub[w]: the server's subscriber for w's stream: its queue, whether it is open
    watch,    \* watch[w]: where WatchLiveContent stands, of which runtime, its last snapshot
    client    \* client[w]: what the API client shows

contentVars == <<runtime, value, stored, sub, watch, client>>

----------------------------------------------------------------------------
(* Snapshots and events: ApplyContent and its helpers. *)

Empty == [seq |-> 0, msg |-> 0, text |-> <<>>, cut |-> FALSE, saved |-> FALSE, thought |-> <<>>,
          tool |-> NoTool, tools |-> <<>>, prompts |-> <<>>, activity |-> ""]

Call(id, status) == [id |-> id, status |-> status]

First(s, n) == SubSeq(s, 1, IF Len(s) < n THEN Len(s) ELSE n)
Last_n(s, n) == IF Len(s) <= n THEN s ELSE SubSeq(s, Len(s) - n + 1, Len(s))

\* upsertTool: a known call is replaced in place, a new one added at the end.
UpsertTool(tools, t) ==
    IF \E k \in DOMAIN tools : tools[k].id = t.id
       THEN [k \in DOMAIN tools |-> IF tools[k].id = t.id THEN t ELSE tools[k]]
       ELSE Last_n(Append(tools, t), MaxTools)

\* linkPrompt: a later link of the same request replaces the earlier one.
Others(links, q) ==
    LET next[n \in 0 .. Len(links)] ==
            IF n = 0 THEN <<>> ELSE IF links[n] = q THEN next[n - 1] ELSE Append(next[n - 1], links[n])
    IN  next

LinkPrompt(links, q) == Last_n(Append(Others(links, q)[Len(links)], q), MaxPrompts)

\* Mutant: a delta keeps the link to history.
WithTextLinked(v, text, cut) ==
    [v EXCEPT !.text = First(text, MaxText), !.cut = cut \/ Len(text) > MaxText]

\* A new text is not known to be in history.
WithText(v, text, cut) ==
    [v EXCEPT !.text = First(text, MaxText), !.cut = cut \/ Len(text) > MaxText, !.saved = FALSE]

\* The activity an event carries; an empty one changes nothing.
Doing(v, activity) == IF activity = "" THEN v ELSE [v EXCEPT !.activity = activity]

Apply(v0, e) ==
    LET v == [v0 EXCEPT !.seq = e.seq] IN
    CASE e.type = "message.started" ->
            Doing([Empty EXCEPT !.seq = e.seq, !.msg = e.msg, !.prompts = v.prompts, !.activity = v.activity], e.activity)
      [] e.type = "message.delta" ->
            Doing(IF v.cut THEN v ELSE WithText(v, v.text \o e.text, FALSE), e.activity)
      [] e.type = "message.replaced" -> WithText(v, e.text, e.cut)
      [] e.type = "message.saved" -> [v EXCEPT !.saved = TRUE]
      [] e.type = "tool" -> Doing([v EXCEPT !.tool = e.call, !.tools = UpsertTool(@, e.call)], e.activity)
      [] e.type = "tool.cleared" -> [v EXCEPT !.tool = NoTool, !.tools = <<>>]
      [] e.type = "thought.delta" -> [v EXCEPT !.thought = Last_n(@ \o e.text, MaxThought)]
      [] e.type = "prompt.saved" -> [v EXCEPT !.prompts = LinkPrompt(@, e.request)]
      [] e.type = "activity" -> [v EXCEPT !.activity = e.activity]
      [] OTHER -> Doing(v, e.activity)   \* message.completed, turn.settled

\* The snapshots on the way through events, after none of them first.
After(v, events) ==
    LET after[n \in 0 .. Len(events)] == IF n = 0 THEN v ELSE Apply(after[n - 1], events[n])
    IN  after

ApplyAll(v, events) == After(v, events)[Len(events)]

----------------------------------------------------------------------------
Closed == [open |-> FALSE, queue |-> <<>>]
Away == [pc |-> "away", runtime |-> 0, snapshot |-> Empty]
Blank == [text |-> <<>>, thought |-> <<>>, saved |-> FALSE, tools |-> {}, prompts |-> {}]

ContentInit ==
    /\ runtime = [id |-> 1, serving |-> TRUE]
    /\ value = Empty
    /\ stored = <<>>
    /\ sub = [w \in Watchers |-> Closed]
    /\ watch = [w \in Watchers |-> Away]
    /\ client = [w \in Watchers |-> Blank]

\* Mutant: a subscriber whose queue is full misses the event.
QueuedLossy(s, e) ==
    IF s.open /\ Len(s.queue) < MaxQueue THEN [s EXCEPT !.queue = Append(@, e)] ELSE s

\* publish: an event goes to every subscriber; one whose queue is full is
\* dropped, and will find its stream ended after what is queued.
Queued(s, e) ==
    IF ~s.open THEN s
    ELSE IF Len(s.queue) < MaxQueue THEN [s EXCEPT !.queue = Append(@, e)]
    ELSE [s EXCEPT !.open = FALSE]

\* A subscriber on the way through events.
Sent(s, events) ==
    LET sent[n \in 0 .. Len(events)] == IF n = 0 THEN s ELSE Queued(sent[n - 1], events[n])
    IN  sent

\* The events of one update get the next numbers.
Numbered(events) == [k \in DOMAIN events |-> [events[k] EXCEPT !.seq = value.seq + k]]

\* publish, for the events of one update.
PublishEvents(events) ==
    /\ runtime.serving
    /\ value.seq + Len(events) <= MaxEvents[runtime.id]
    /\ value' = ApplyAll(value, Numbered(events))
    /\ sub' = [w \in Watchers |-> Sent(sub[w], Numbered(events))[Len(events)]]
    /\ UNCHANGED <<runtime, watch, client>>

Event(type) == [seq |-> 0, type |-> type, msg |-> 0, text |-> <<>>, cut |-> FALSE, call |-> NoTool,
                request |-> NoTool, activity |-> ""]

----------------------------------------------------------------------------
(* Updates by the driver. *)

StartMessage(activity) ==
    /\ PublishEvents(<<[Event("message.started") EXCEPT !.msg = value.seq + 1, !.activity = activity]>>)
    /\ UNCHANGED stored

MessageDelta(word) ==
    /\ ~value.cut
    /\ PublishEvents(<<[Event("message.delta") EXCEPT !.text = <<word>>, !.activity = "work"]>>)
    /\ UNCHANGED stored

\* Also the end of a turn: neither touches more than the activity.
MessageCompleted(activity) ==
    /\ PublishEvents(<<[Event("message.completed") EXCEPT !.activity = activity]>>)
    /\ UNCHANGED stored

UpdateTool(id, status) ==
    /\ PublishEvents(<<[Event("tool") EXCEPT !.call = Call(id, status), !.activity = "work"]>>)
    /\ UNCHANGED stored

\* SetActivity and SetBranch publish changes only.
SetActivity(activity) ==
    /\ activity # value.activity
    /\ PublishEvents(<<[Event("activity") EXCEPT !.activity = activity]>>)
    /\ UNCHANGED stored

PromptSaved(q) ==
    /\ ~Contains(value.prompts, q)
    /\ PublishEvents(<<[Event("prompt.saved") EXCEPT !.request = q]>>)
    /\ UNCHANGED stored

Thought(word) ==
    /\ PublishEvents(<<[Event("thought.delta") EXCEPT !.text = <<word>>]>>)
    /\ UNCHANGED stored

\* MarkSaved: only while the live text is the saved text, as far as it is
\* shown, and the entries are news.  The report may come late, about an
\* earlier message.
MarkSaved(text) ==
    /\ First(text, MaxText) = value.text
    /\ value.text # <<>> /\ ~(value.saved /\ stored = text)
    /\ PublishEvents(<<Event("message.saved")>>)
    /\ stored' = text

\* publishSnapshot: whether a new whole text is sent as a delta.
Extends(text, cut) == ~cut /\ ~value.cut /\ IsPrefix(value.text, text)

\* The events that turn the current snapshot into the one a transcript or a
\* stream reports.
SnapshotEvents(text, upstreamCut, activity, call) ==
    LET shown == First(text, MaxText)
        cut == upstreamCut \/ Len(text) > MaxText
        activities == IF activity = value.activity THEN <<>>
                      ELSE <<[Event("activity") EXCEPT !.activity = activity]>>
        texts == IF shown = value.text /\ cut = value.cut THEN <<>>
                 ELSE IF Extends(shown, cut)
                 THEN <<[Event("message.delta") EXCEPT !.text = SubSeq(shown, Len(value.text) + 1, Len(shown))]>>
                 ELSE <<[Event("message.replaced") EXCEPT !.text = shown, !.cut = cut]>>
        tools == IF call = value.tool THEN <<>>
                 ELSE IF call = NoTool THEN <<Event("tool.cleared")>>
                 ELSE <<[Event("tool") EXCEPT !.call = call]>>
    IN activities \o texts \o tools

PublishSnapshot(text, upstreamCut, activity, call) ==
    LET events == SnapshotEvents(text, upstreamCut, activity, call) IN
    /\ events # <<>>
    /\ PublishEvents(events)
    /\ UNCHANGED stored

----------------------------------------------------------------------------
(* Runtimes come and go. *)

\* The server closes: every stream ends after what is queued.
StopRuntime ==
    /\ runtime.serving
    /\ runtime' = [runtime EXCEPT !.serving = FALSE]
    /\ sub' = [w \in Watchers |-> [sub[w] EXCEPT !.open = FALSE]]
    /\ UNCHANGED <<value, stored, watch, client>>

StartRuntime ==
    /\ ~runtime.serving /\ runtime.id < MaxRuntimes
    /\ runtime' = [id |-> runtime.id + 1, serving |-> TRUE]
    /\ value' = Empty
    /\ stored' = <<>>
    /\ UNCHANGED <<sub, watch, client>>

----------------------------------------------------------------------------
(* WatchLiveContent and SubscribeContent. *)

\* What a client holds after a snapshot.
Shown(v) == [text |-> v.text, thought |-> v.thought, saved |-> v.saved, tools |-> Range(v.tools),
             prompts |-> Range(v.prompts)]

Watch(w) ==
    /\ watch[w].pc = "away"
    /\ watch' = [watch EXCEPT ![w] = [Away EXCEPT !.pc = "status"]]
    /\ UNCHANGED <<runtime, value, stored, sub, client>>

\* Without a running agent the client is sent an empty snapshot, every second.
ReadStatus(w) ==
    /\ watch[w].pc = "status"
    /\ IF runtime.serving
          THEN watch' = [watch EXCEPT ![w].pc = "subscribe", ![w].runtime = runtime.id] /\ UNCHANGED client
          ELSE client' = [client EXCEPT ![w] = Blank] /\ UNCHANGED watch
    /\ UNCHANGED <<runtime, value, stored, sub>>

\* When a stream ends (or never begins), the watch goes on only with another
\* runtime, or to say that there is none; otherwise the call ends.
Ended(w) ==
    IF runtime.serving /\ runtime.id = watch[w].runtime
       THEN /\ watch' = [watch EXCEPT ![w] = Away]
            /\ client' = [client EXCEPT ![w] = Blank]
       ELSE /\ watch' = [watch EXCEPT ![w] = [Away EXCEPT !.pc = "status"]]
            /\ UNCHANGED client

\* Subscribing reads the owner once more; the stream begins with a snapshot.
Subscribe(w) ==
    /\ watch[w].pc = "subscribe"
    /\ IF runtime.serving
          THEN /\ sub' = [sub EXCEPT ![w] = [open |-> TRUE, queue |-> <<>>]]
               /\ watch' = [watch EXCEPT ![w].pc = "stream", ![w].snapshot = value]
               /\ client' = [client EXCEPT ![w] = Shown(value)]
          ELSE Ended(w) /\ UNCHANGED sub
    /\ UNCHANGED <<runtime, value, stored>>

Restarted(c) == [Blank EXCEPT !.prompts = c.prompts]

\* sendContentEvent: what the API says of an event, read as agents.proto
\* reads.  A cleared tool carries no call and is not sent; the text of a
\* delta is sent whole, also where it passes the limit.
Forward(c, e) ==
    CASE e.type = "message.started" -> Restarted(c)
      [] e.type = "message.delta" -> [c EXCEPT !.text = @ \o e.text, !.saved = FALSE]
      [] e.type = "message.replaced" -> [c EXCEPT !.text = e.text, !.saved = FALSE]
      [] e.type = "message.saved" -> [c EXCEPT !.saved = TRUE]
      [] e.type = "tool" -> [c EXCEPT !.tools = {t \in @ : t.id # e.call.id} \union {e.call}]
      [] e.type = "thought.delta" -> [c EXCEPT !.thought = @ \o e.text]
      [] e.type = "prompt.saved" -> [c EXCEPT !.prompts = @ \union {e.request}]
      [] OTHER -> c

\* An event out of sequence ends the stream.
Receive(w) ==
    /\ watch[w].pc = "stream" /\ sub[w].queue # <<>>
    /\ LET e == Head(sub[w].queue) IN
       IF e.seq = watch[w].snapshot.seq + 1
          THEN /\ watch' = [watch EXCEPT ![w].snapshot = Apply(@, e)]
               /\ client' = [client EXCEPT ![w] = Forward(@, e)]
               /\ sub' = [sub EXCEPT ![w].queue = Tail(@)]
          ELSE Ended(w) /\ sub' = [sub EXCEPT ![w] = Closed]
    /\ UNCHANGED <<runtime, value, stored>>

\* Mutant: the end of a stream goes unnoticed.
EndOfStreamOnce(w) ==
    /\ watch[w].pc = "stream" /\ sub[w].queue = <<>> /\ ~sub[w].open /\ runtime.serving
    /\ Ended(w)
    /\ UNCHANGED <<runtime, value, stored, sub>>

\* The queue is empty and its channel closed.
EndOfStream(w) ==
    /\ watch[w].pc = "stream" /\ sub[w].queue = <<>> /\ ~sub[w].open
    /\ Ended(w)
    /\ UNCHANGED <<runtime, value, stored, sub>>

\* The client goes; the server forgets its subscriber.
Leave(w) ==
    /\ watch[w].pc # "away"
    /\ watch' = [watch EXCEPT ![w] = Away]
    /\ sub' = [sub EXCEPT ![w] = Closed]
    /\ client' = [client EXCEPT ![w] = Blank]
    /\ UNCHANGED <<runtime, value, stored>>

----------------------------------------------------------------------------
RunningCalls == {Call(id, "running") : id \in Tools}

Texts == UNION {[1 .. n -> Words] : n \in 0 .. MaxText + 1}

Update ==
    \/ \E a \in Activities : StartMessage(a) \/ MessageCompleted(a) \/ SetActivity(a)
    \/ \E word \in Words : MessageDelta(word) \/ Thought(word)
    \/ \E id \in Tools, status \in {"running", "completed"} : UpdateTool(id, status)
    \/ \E q \in Requests : PromptSaved(q)
    \/ \E text \in Texts : MarkSaved(text)
    \/ \E r \in Reports : PublishSnapshot(r.text, r.cut, r.activity, r.call)

Continue(w) == ReadStatus(w) \/ Subscribe(w) \/ Receive(w) \/ EndOfStream(w)

ContentNext ==
    \/ Update
    \/ StopRuntime
    \/ StartRuntime
    \/ \E w \in Watchers : Watch(w) \/ Continue(w) \/ Leave(w)

\* The daemon's loops and sockets make progress; updates, restarts and
\* clients come as they like.
ContentFairness == \A w \in Watchers : WF_contentVars(Continue(w))

ContentSpec == ContentInit /\ [][ContentNext]_contentVars /\ ContentFairness

----------------------------------------------------------------------------
(* Properties. *)

Calls == [id : Tools, status : {"running", "completed"}]

Snapshots ==
    {v \in [seq : Nat, msg : Nat, text : Seq(Words), cut : BOOLEAN, saved : BOOLEAN, thought : Seq(Words),
            tool : Calls \union {NoTool}, tools : Seq(Calls), prompts : Seq(Requests), activity : Activities] :
        /\ Len(v.text) <= MaxText /\ Len(v.thought) <= MaxThought
        /\ Len(v.tools) <= MaxTools /\ Len(v.prompts) <= MaxPrompts}

EventTypes ==
    {"message.started", "message.delta", "message.replaced", "message.saved", "message.completed", "tool",
     "tool.cleared", "thought.delta", "prompt.saved", "activity"}

ContentEvents ==
    {e \in [seq : Nat, type : EventTypes, msg : Nat, text : Seq(Words), cut : BOOLEAN,
             call : Calls \union {NoTool}, request : Requests \union {NoTool}, activity : Activities] :
        /\ e.type = "tool" => e.call \in Calls
        /\ e.type = "prompt.saved" => e.request \in Requests}

Subscribers == {s \in [open : BOOLEAN, queue : Seq(ContentEvents)] : Len(s.queue) <= MaxQueue}

Clients == [text : Seq(Words), thought : Seq(Words), saved : BOOLEAN, tools : SUBSET Calls, prompts : SUBSET Requests]

ContentTypeOK ==
    /\ runtime \in [id : Nat, serving : BOOLEAN]
    /\ value \in Snapshots /\ stored \in Seq(Words)
    /\ sub \in [Watchers -> Subscribers]
    /\ watch \in [Watchers -> [pc : {"away", "status", "subscribe", "stream"}, runtime : Nat, snapshot : Snapshots]]
    /\ client \in [Watchers -> Clients]

\* A stream tells its reader everything: the reader's snapshot and the events
\* still queued for it yield the server's snapshot, whatever was published
\* between the subscription's snapshot and its first event (content.go).
StreamsAreComplete ==
    \A w \in Watchers : watch[w].pc = "stream" /\ sub[w].open =>
        ApplyAll(watch[w].snapshot, sub[w].queue) = value

\* Client c shows snapshot v: the same text, more of it only past the limit,
\* the same mark that history has it, and at least the reasoning, tool calls
\* and links.
Shows(c, v) ==
    /\ IF v.cut THEN IsPrefix(v.text, c.text) ELSE v.text = c.text
    /\ v.saved = c.saved
    /\ IsSuffix(v.thought, c.thought)
    /\ Range(v.tools) \subseteq c.tools /\ Range(v.prompts) \subseteq c.prompts

\* A client that reads the API's normalized events shows what the content
\* stream shows (sendContentEvent; a clear is not sent and the limits are not).
ClientFollowsStream ==
    \A w \in Watchers : watch[w].pc = "stream" => Shows(client[w], watch[w].snapshot)

\* A reader stops showing a text that history has.  What it stops showing is
\* the beginning of the entry that history holds: no later text is taken for
\* saved (MarkSaved, ApplyContent).
SavedTextIsHistory == value.saved => IsPrefix(value.text, stored)

\* What a client sees is what there is: the stream, or the beginning of an entry
\* in history.
ClientSeesTheTurn == ClientFollowsStream /\ SavedTextIsHistory

\* A client that stays is brought up to date or its stream is ended for it to
\* watch again: it never sits on an old snapshot.
WatchersCatchUp ==
    \A w \in Watchers :
        watch[w].pc # "away" ~>
            \/ watch[w].pc = "away"
            \/ watch[w].pc = "stream" /\ watch[w].snapshot = value
            \/ ~runtime.serving /\ client[w] = Blank
=============================================================================
