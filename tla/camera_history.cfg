\* Two cameras, restarts, failed, slow and late polls.
CONSTANTS
  door = door
  yard = yard
  Cameras = {door, yard}
  Zones = {{door, yard}}
  Profile <- MCProfile
  Answers <- MCAnswers
  Tolerance = 1
  StaleAfter = 2
  Threshold = 2
  MaxTime = 4
  MaxPolls = 4
  None = None
SPECIFICATION Spec
INVARIANTS
  CoverageIsHonest
  ZoneCoverageIsUnion
  CurrentIsDebounced
  OfflineSinceIsConfirmed
CHECK_DEADLOCK FALSE
