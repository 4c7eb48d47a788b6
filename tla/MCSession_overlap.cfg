CONSTANTS
  c1 = c1
  Creates = {c1}
  Submits = {m1}
  Renames = {}
  Archives = {a1}
  Cancels = {k1}
  SessionOf <- OneSession
  NoRun = none
  Wanted = {"final.output.completed"}
  MaxSent = 3
  MaxFaults = 1
  MaxCrashes = 0
  OneRequestAtATime = FALSE
SPECIFICATION Spec
INVARIANTS RegistryEntryIsLive AuditCoversRow VisibleIsListed IInv
PROPERTIES StreamContract ArchiveIsPermanent
