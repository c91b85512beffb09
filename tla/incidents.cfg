SPECIFICATION FairSpec
CONSTANTS
  e1 = e1
  e2 = e2
  e3 = e3
  e4 = e4
  z1 = z1
  z2 = z2
  None = None
  Events = {e1, e2, e3, e4}
  Zones = {z1, z2}
  ZoneOf <- MCZoneOf
  Window = 1
  Idle = 1
  Skew = 1
  MaxTime = 4
INVARIANTS OpenIncidentsApart EndIsLastEvent
PROPERTIES InOrderRule ClosedIsSettled IdleIsClosed
CHECK_DEADLOCK FALSE
