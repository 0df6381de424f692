CONSTANTS
  Conns = {1, 2, 3}
  None = None
  MaxFaults = 1
SPECIFICATION Spec
CHECK_DEADLOCK FALSE
INVARIANTS OwnSession ServedOnce 
PROPERTIES StayingTabServed
