\* Three events a page at the least and at most two per instant, so that a
\* list of four is cut by the limit and by the text; minutes of two units, and
\* a clock that outruns the longest window, so that hints are refused too.
CONSTANTS
  Zones = {"drive", "porch", "yard"}
  Configs <- MCConfigs
  Posted <- MCPosted
  MaxTime = 4
  MaxEvents = 4
  MaxTies = 2
  None = None
  Limit = 4
  Room = 3
  PerMinute = 2
  Slack = 1
  MaxMinutes = 2
  Windows = {1}
  Periods <- MCPeriods
  Filters <- MCFilters
SPECIFICATION Spec
INVARIANTS
  SeedConverges
  FieldOfViewIsExact
  PagesCoverAll
  HintReaches
