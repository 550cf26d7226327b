CONSTANTS
  Images <- SelfJump
  EntryPoints = {1536}
  MaxRuns = 2
SPECIFICATION InterpreterSpec
PROPERTIES PinningIsInvisible
CHECK_DEADLOCK FALSE
