CONSTANTS
  OrphanFlipThreshold = 3
  Settings <- AnySetting
SPECIFICATION Spec
CHECK_DEADLOCK FALSE
INVARIANTS TypeOK
PROPERTIES PartSurvivesSync UpShown MembershipShown LeavingShown ChipResolves
