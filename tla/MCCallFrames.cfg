CONSTANTS
  Images <- MCImages
  EntryPoints = {1536}
  MaxRuns = 2
SPECIFICATION FramesSpec
INVARIANT FramesOnStack
PROPERTIES FramesGiveBack RunReturns
CHECK_DEADLOCK FALSE
