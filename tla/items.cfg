\* Three items, one blocker of each; two of them with deadlines and markers, one
\* of these prompted, answered and marked.
\* Beside them, the search on every graph, every question, every order of the blockers.
\* All items may end up deleted, and then nothing can happen.
CHECK_DEADLOCK FALSE
SPECIFICATION MCSpec
CONSTANTS
  i1 = i1  i2 = i2  i3 = i3  b1 = b1
  Items = {i1, i2, i3}
  Nodes = {i1, i2, i3}
  Titles <- MCTitles
  Slugs <- MCSlugs
  Slugify <- MCSlugify
  Numbered <- MCNumbered
  MaxSuffix = 3
  BlockerIDs = {b1}
  Deadlines = {1}
  MaxBatch = 1
  Attended = {i1}
  MaxActive = 1
  MaxLag = 1
  MaxTime = 2
CONSTRAINT OneFeature
INVARIANTS TypeOK SlugsIdentifyOpenItems WaitGraphAcyclic SearchMeetsSpecification CapacityRespected ParkedStaysParked
PROPERTIES UnparkedForCause OverdueBlockersAreSwept
