\* Two clients report and check in under either key of a week, and move the
\* deadline of its goal, while the scheduler runs; nothing fails.
SPECIFICATION Spec
CONSTANTS
  c1 = c1
  c2 = c2
  w5x = w5x
  Sched = sched
  Clients = {c1, c2}
  Owns <- OwnAll
  NumGoals = 1
  Kinds = {"do"}
  Stakes = {1}
  StartTimes = {}
  EndTimes = {1, 3}
  MaxTime = 2
  NumPeriods = 1
  PeriodStart <- LaterPeriods
  Variants = {w5x}
  ReadAs <- AllFirst
  MaxRows = 2
  MaxTxs = 2
  Faults = {}
  MaxFaults = 0
SYMMETRY ClientSymmetry
INVARIANTS
  TypeOK
  NoDoubleCharge
  LedgerMatchesChain
  MissedDeadlineIsReal
PROPERTY
  ImplementsLedger
