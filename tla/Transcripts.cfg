CONSTANTS
  MaxTurns = 3
  MaxSteps = 2
  MaxCalls = 2
  MaxRecords = 8
SPECIFICATION Spec
INVARIANTS TurnOrderIsKept RepliesReachTheirQuestion PiEntriesFormATree ResultsJoinTheirCalls
PROPERTY ShownOnlyGrows
CHECK_DEADLOCK FALSE
