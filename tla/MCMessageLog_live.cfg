SPECIFICATION Spec
CONSTANTS
  Base = 2
  MaxLog = 5
  MaxSends = 2
  PageSize = 2
  MaxPages = 1
  CacheGap = 1
  Settings <- AnySetting
INVARIANTS NoDuplicateRow NoHoles OthersInOrder SentStaysVisible EchoSettles DeletionKept
CHECK_DEADLOCK FALSE
