\* Two items, two slots, two claims and a blocker of the first, any crashes.
SPECIFICATION Spec
CONSTANTS
  i1 = i1  i2 = i2
  Items = {i1, i2}
  MaxSlots = 2
  MaxGen = 2
  MaxBlockers = 1
  Absent = Absent
  Detached = Detached
CONSTRAINT Focus
INVARIANTS SlotsSharedOnlyByRace WorkStaysWithItsItem AgentsWorkOnReadyClaims ClearedStaysCleared
PROPERTIES OperationsEnd
