CONSTANTS
  MaxLines = 3
  MaxErrorLines = 2
  MaxFaults = 0
SPECIFICATION LiveSpec
PROPERTY CompletedRunDropsPod
