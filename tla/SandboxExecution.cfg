CONSTANTS
  MaxLines = 3
  MaxErrorLines = 2
  MaxFaults = 2
SPECIFICATION LiveSpec
INVARIANTS DeliveredInOrder ReturnIsComplete EndedIsCleanedUp IInv
PROPERTY ExecutionEnds
