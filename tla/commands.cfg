\* Two messages, two runtimes, one request of each without a caller.
\* Beside them, one item, three commands, two crashes or failures, one edit by a
\* person, and IDs used again with other input.
\* Nothing is left to do once every command ID is used.
CHECK_DEADLOCK FALSE
SPECIFICATION MCSpec
CONSTANTS
  m1 = m1  m2 = m2
  Messages = {m1, m2}
  MaxRuntimes = 2
  MaxOrphans = 1
  NoMessage = NoMessage
  i1 = i1
  Items = {i1}
  Commands = {1, 2, 3}
  Texts = {"empty", "a", "b"}
  Reuse = TRUE
  MaxFailures = 2
  MaxEdits = 1
INVARIANTS AnswersHold FilesFollowItems
PROPERTIES KeepsPromise CallsEnd StartupSettlesWrites DaemonComesUp
