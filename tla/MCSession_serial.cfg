CONSTANTS
  c1 = c1
  Creates = {c1}
  Submits = {m1}
  Renames = {n1}
  Archives = {a1}
  Cancels = {k1}
  SessionOf <- OneSession
  NoRun = none
  Wanted = {"final.output.completed"}
  MaxSent = 3
  MaxFaults = 1
  MaxCrashes = 1
  OneRequestAtATime = TRUE
SPECIFICATION Spec
INVARIANTS OpenRunIsRegistered TurnIsReadable RunningHasARun
PROPERTIES LifecycleContract
