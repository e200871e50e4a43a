\* The clock change of a zone skips a midnight: the loop gives up there.
SPECIFICATION Spec
CONSTANTS
  DayLength = 4
  WeekDays = 2
  Jan4 = 1
  Zones <- MidnightGap
  Cadences = {"daily"}
  Starts <- EarlyStarts
  Ends <- SomeEnds
  MaxTime = 12
CHECK_DEADLOCK FALSE
INVARIANTS
  FindsAll
