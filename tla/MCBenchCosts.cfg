CONSTANTS
  Images <- MCImages
  EntryPoints = {}
  MaxRuns = 6
  MaxInstrs = 3000
  Files <- MCFiles
SPECIFICATION HarnessSpec
INVARIANTS CostsAsStated
CHECK_DEADLOCK FALSE
