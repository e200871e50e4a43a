SPECIFICATION Spec
CONSTANTS
  ann = ann
  bob = bob
  cyd = cyd
  Clients = {ann, bob, cyd}
  Keys <- TwoKeys
  Data <- TwoPayloads
  MaxCalls = 3
  MaxFaults = 1
SYMMETRY ClientSymmetry
INVARIANTS TypeOK SameTables SameAnswers ConstraintsHold
PROPERTIES RowsStay
