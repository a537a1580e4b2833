\* Three jobs for two keys, a history of one, one failed save, one restart.
\* Nothing is left to do once the job IDs and the restarts are used up.
CHECK_DEADLOCK FALSE
SPECIFICATION Spec
CONSTANTS
  j1 = j1  j2 = j2  j3 = j3  k1 = k1  k2 = k2
  Jobs = {j1, j2, j3}
  Keys = {k1, k2}
  Limit = 1
  MaxFailures = 1
  MaxRestarts = 1
CONSTRAINT InOrder
INVARIANTS OneWorkerPerKey SummariesHold
PROPERTIES ActiveJobsFinish
