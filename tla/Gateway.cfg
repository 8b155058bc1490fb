SPECIFICATION LiveGateway
CONSTANTS
  Identities = {i1}
  i1 = i1
  Allowed <- mcAllowed
  CapIds = {c1, c2}
  Requests = {r1, r2}
  Ttls = {2}
  MaxCapabilities = 1
  PerMinute = 60
  Burst = 1
  Limits = {1, 2}
  MaxTime = 2
  MaxRestarts = 1
  None = None
CHECK_DEADLOCK FALSE
INVARIANTS RateBound BearersSound AdmissionHolds SingleUseWithinSlots
PROPERTIES SpentStaysSpent LeaseReturned
