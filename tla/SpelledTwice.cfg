\* A week is reported under two of its keys.
SPECIFICATION Spec
CONSTANTS
  c1 = c1
  c2 = c2
  w5x = w5x
  Sched = sched
  Clients = {c1}
  Owns <- OwnAll
  NumGoals = 1
  Kinds = {"do"}
  Stakes = {1}
  StartTimes = {}
  EndTimes = {2}
  MaxTime = 1
  NumPeriods = 1
  PeriodStart <- UnitPeriods
  Variants = {w5x}
  ReadAs <- AllFirst
  MaxRows = 2
  MaxTxs = 2
  Faults = {}
  MaxFaults = 0
INVARIANT
  OneChargePerPeriod
