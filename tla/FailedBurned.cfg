\* The answer to a broadcast is lost.
SPECIFICATION Spec
CONSTANTS
  c1 = c1
  c2 = c2
  w5x = w5x
  Sched = sched
  Clients = {c1}
  Owns <- OwnAll
  NumGoals = 1
  Kinds = {"avoid"}
  Stakes = {1}
  StartTimes = {}
  EndTimes = {2}
  MaxTime = 1
  NumPeriods = 1
  PeriodStart <- UnitPeriods
  Variants = {}
  ReadAs <- AllFirst
  MaxRows = 1
  MaxTxs = 1
  Faults = {"rpc"}
  MaxFaults = 1
INVARIANT
  FailedMeansNotBurned
