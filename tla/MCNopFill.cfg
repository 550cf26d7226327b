CONSTANTS
  Images <- MCImages
  EntryPoints = {}
  MaxRuns = 8
  MaxInstrs = 500
  START = 65408
  LENGTH = 100
  LOOPS = 1
  UNROLL = 3
  KLAUS_START = 8
  KLAUS_MAGIC = 32
  Files <- MCFiles
SPECIFICATION MainSpec
INVARIANTS OnlyLengthFilled
CHECK_DEADLOCK FALSE
