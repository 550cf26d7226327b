CONSTANTS
  Images <- MCImages
  EntryPoints = {1536}
  MaxRuns = 1
SPECIFICATION Spec
INVARIANTS PreIndexedPointerInPage
CHECK_DEADLOCK FALSE
