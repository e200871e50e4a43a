\* The scheduler alone works off two goals and two periods, across a fault.
SPECIFICATION FairSpec
CONSTANTS
  c1 = c1
  c2 = c2
  w5x = w5x
  Sched = sched
  Clients = {}
  Owns <- OwnAll
  NumGoals = 2
  Kinds = {"do"}
  Stakes = {1}
  StartTimes = {}
  EndTimes = {3}
  MaxTime = 2
  NumPeriods = 2
  PeriodStart <- UnitPeriods
  Variants = {}
  ReadAs <- AllFirst
  MaxRows = 4
  MaxTxs = 4
  Faults = {"crash", "shutdown", "store"}
  MaxFaults = 1
PROPERTY
  MissedPeriodReported
