CONSTANTS
  Conns = {1, 2}
  Engine = Engine
  Bouncer = Bouncer
  PageLimit = 1
  ParkMax = 2
  PlaybackLines = 2
  Paging = {2}
  MaxEid = 3
  MaxFaults = 1
SPECIFICATION Spec
CHECK_DEADLOCK FALSE
INVARIANTS LossExplained SentOnce HeardOnce
PROPERTIES NothingWaits
