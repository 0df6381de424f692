SPECIFICATION Spec
CONSTANTS
  Base = 1
  MaxLog = 4
  MaxSends = 0
  PageSize = 2
  MaxPages = 0
  CacheGap = 0
  Settings <- OneDeletion
INVARIANTS DeletedIsHidden
CHECK_DEADLOCK FALSE
