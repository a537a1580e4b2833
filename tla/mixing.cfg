\* Two importers of a file of up to three records and its fork.
SPECIFICATION ImportSpec
CONSTANTS
  i1 = i1  i2 = i2
  Importers = {i1, i2}
  PrintSize = 1
  Batch = 2
  MaxRecords = 3
  MaxReplacements = 0
  MaxForks = 1
  MaxCrashes = 0
INVARIANT ImportsNeverRepeat
