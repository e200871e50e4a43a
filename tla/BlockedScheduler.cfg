\* The penalize transaction of a scheduler run is never mined.
SPECIFICATION FairSpec
CONSTANTS
  c1 = c1
  c2 = c2
  w5x = w5x
  Sched = sched
  Clients = {}
  Owns <- OwnAll
  NumGoals = 1
  Kinds = {"do"}
  Stakes = {1}
  StartTimes = {}
  EndTimes = {3}
  MaxTime = 2
  NumPeriods = 2
  PeriodStart <- UnitPeriods
  Variants = {}
  ReadAs <- AllFirst
  MaxRows = 2
  MaxTxs = 2
  Faults = {"drop"}
  MaxFaults = 1
CHECK_DEADLOCK FALSE
PROPERTY
  MissedPeriodReported
