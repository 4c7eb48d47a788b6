CONSTANTS
  c1 = c1
  Creates = {c1}
  Submits = {}
  Renames = {n1}
  Archives = {}
  Cancels = {}
  SessionOf <- OneSession
  NoRun = none
  Wanted = {}
  MaxSent = 3
  MaxFaults = 0
  MaxCrashes = 0
  OneRequestAtATime = FALSE
SPECIFICATION Spec
PROPERTY NameIsKept
