\* One client, a log of two entries, records of up to two items, one restart.
\* Beside them, two importers of files of up to three records, one replacement,
\* one fork: imports of one file and of its fork overlap.
\* Nothing is left to do once the revisions run out and the stream waits.
CHECK_DEADLOCK FALSE
SPECIFICATION MCSpec
CONSTANTS
  i1 = i1  i2 = i2  r1 = r1
  Items = {i1, i2}
  Readers = {r1}
  MaxRecent = 2
  MaxBatch = 2
  MaxRevision = 5
  MaxEpoch = 2
  m1 = m1  m2 = m2
  Importers = {m1, m2}
  PrintSize = 1
  Batch = 2
  MaxRecords = 3
  MaxReplacements = 1
  MaxForks = 1
  MaxCrashes = 1
INVARIANTS MissedOnlyInCutRevisions IndexFollowsFile
PROPERTIES LaggingStreamCatchesUp IndexCatchesUp
