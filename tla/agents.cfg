\* Two contents of the file, so that it can change and change back; two starts.
\* Beside them, one watcher, a runtime of up to three events and one of one, and
\* every limit of the content so low that it is reached.
\* Nothing is left to do once the starts and the edits are used up.
CHECK_DEADLOCK FALSE
SPECIFICATION MCSpec
CONSTANTS
  c1 = c1  c2 = c2
  Contents = {c1, c2}
  MaxStarts = 2
  MaxEdits = 3
  MaxFailures = 1
  w1 = w1  t1 = t1  t2 = t2  q1 = q1
  Watchers = {w1}
  Words = {"a", "b"}
  Tools = {t1, t2}
  Requests = {q1}
  Activities = {"", "work"}
  Reports <- MCReports
  MaxText = 1
  MaxThought = 1
  MaxTools = 1
  MaxPrompts = 1
  MaxQueue = 2
  MaxEvents <- MCEvents
  MaxRuntimes = 2
  NoTool = NoTool
INVARIANTS AnswersDecide StreamsAreComplete ClientSeesTheTurn
PROPERTIES TrustOnlyByConsent StartsEnd WatchersCatchUp
