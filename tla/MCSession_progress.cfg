CONSTANTS
  c1 = c1
  Creates = {c1}
  Submits = {m1}
  Renames = {}
  Archives = {}
  Cancels = {k1}
  SessionOf <- OneSession
  NoRun = none
  Wanted = {"process"}
  MaxSent = 3
  MaxFaults = 1
  MaxCrashes = 0
  OneRequestAtATime = FALSE
SPECIFICATION LiveSpec
PROPERTIES StreamsEnd CancelEndsRun
