\* Two faults hit a client and the scheduler (CatchUp has the shutdowns).
SPECIFICATION FairSpec
CONSTANTS
  c1 = c1
  c2 = c2
  w5x = w5x
  Sched = sched
  Clients = {c1}
  Owns <- OwnAll
  NumGoals = 1
  Kinds = {"do", "avoid"}
  Stakes = {1, 2}
  StartTimes = {}
  EndTimes = {2}
  MaxTime = 1
  NumPeriods = 1
  PeriodStart <- UnitPeriods
  Variants = {}
  ReadAs <- AllFirst
  MaxRows = 2
  MaxTxs = 3
  Faults = {"disconnect", "crash", "store", "rpc", "drop"}
  MaxFaults = 2
CHECK_DEADLOCK FALSE
INVARIANTS
  OneChargePerPeriod
  ChargesRecordedAmount
  ChargedMeansBurned
PROPERTIES
  RowsOnlySettle
  ImplementsLedger
  UndisturbedSettles
