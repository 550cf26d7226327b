CONSTANTS
  Images <- MCImages
  EntryPoints = {1536}
  MaxRuns = 2
SPECIFICATION InterpreterSpec
INVARIANTS JumpTableAgrees
PROPERTIES PinningIsInvisible
CHECK_DEADLOCK FALSE
