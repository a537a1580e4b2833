\* The slots of two items: the same items, slots and claims.
SPECIFICATION Spec
CONSTANTS
  i1 = i1  i2 = i2
  Items = {i1, i2}
  MaxSlots = 2
  MaxGen = 2
  MaxBlockers = 1
  Absent = Absent
  Detached = Detached
CONSTRAINT Focus
INVARIANT SlotsExclusive
