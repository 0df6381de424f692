CONSTANTS
  Tabs = {1, 2}
  Kinds = {"post", "view", "write", "fault"}
  Settings <- AnySetting
SPECIFICATION Spec
CHECK_DEADLOCK FALSE
PROPERTIES NeverBack OwnMarksShown BadgeSettles MarkersConverge
