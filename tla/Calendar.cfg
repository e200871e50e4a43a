\* Days and weeks in zones with up to two clock changes, at any time of day.
SPECIFICATION Spec
CONSTANTS
  DayLength = 4
  WeekDays = 2
  Jan4 = 1
  Zones <- AllZones
  Cadences = {"daily", "weekly"}
  Starts <- EarlyStarts
  Ends <- SomeEnds
  MaxTime = 13
CHECK_DEADLOCK FALSE
INVARIANTS
  TypeOK
  FindsAllRegularly
  OnlyOver
  BoundsTile
  InOrder
PROPERTY
  Returns
