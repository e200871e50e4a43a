\* The client of a report disconnects while its handler runs.
SPECIFICATION FairSpec
CONSTANTS
  c1 = c1
  c2 = c2
  w5x = w5x
  Sched = sched
  Clients = {c1}
  Owns <- OwnAll
  NumGoals = 1
  Kinds = {"avoid"}
  Stakes = {1}
  StartTimes = {}
  EndTimes = {2}
  MaxTime = 1
  NumPeriods = 1
  PeriodStart <- UnitPeriods
  Variants = {}
  ReadAs <- AllFirst
  MaxRows = 1
  MaxTxs = 1
  Faults = {"disconnect"}
  MaxFaults = 1
PROPERTY
  PendingSettles
