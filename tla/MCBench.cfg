CONSTANTS
  Images <- MCImages
  EntryPoints = {}
  MaxRuns = 6
  MaxInstrs = 3000
  Files <- MCFiles
SPECIFICATION HarnessSpec
INVARIANTS EveryOpCosts OpsStartAlike
PROPERTIES SecondRunIsIdle OpsComplete
CHECK_DEADLOCK FALSE
