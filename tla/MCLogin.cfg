SPECIFICATION Spec
CONSTANTS
  None = None
  Dev = Dev
  Names = {"ann"}
  Passwords = {"pw"}
  Requests = {1, 2, 3, 4}
  DevelopmentUsers <- MCDevelopmentUsers
  Ttl = 1
  MaxClock = 2
  MaxFaults = 1
INVARIANTS TypeOK OverIsRefused CookieIsBacked
PROPERTIES AccountsContract
CHECK_DEADLOCK FALSE
