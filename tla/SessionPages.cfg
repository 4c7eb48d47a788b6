SPECIFICATION Spec
CONSTANTS
  None = None
  Sessions = {1, 2, 3, 4}
  Limit = 1
  MaxTime = 3
  MaxWrites = 2
INVARIANTS IInv UntouchedIsListedOnce
PROPERTIES PagesDescend HasMoreIsHonest
CHECK_DEADLOCK FALSE
