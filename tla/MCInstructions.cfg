CONSTANTS
  Images <- MCImages
  EntryPoints = {1536}
  MaxRuns = 1
SPECIFICATION Spec
INVARIANTS TypeOK BreakNeverInStatus
PROPERTIES MemoryFrame ShiftsExact ResultFlags ModeFlags JumpPointerInPage
CHECK_DEADLOCK FALSE
