CONSTANTS
  a1 = a1  e1 = e1  b1 = b1  b2 = b2  i1 = i1  i2 = i2
  User = {a1, e1}
  Seeded = {a1}
  Request = {q1, q2}
  Session = {s1, s2}
  Asked <- TwoAdmins
  NoUser = NoUser
  Browser = {b1, b2}
  Address = {i1, i2}
  AddressOf <- MCAddressOf
  Limit <- MCLimit
  WindowTicks <- MCWindowTicks
  Second = 3
  FreeFailures = 1
  MaxDelay = 2
  Memory = 6
  MaxClock = 6
  MaxAttempts = 3
SPECIFICATION AccessSpec
INVARIANTS SessionsRotated LimitsKept WaitIsEnough
PROPERTIES AuditTellsTruth LastAdminLostToStaleRequest
SYMMETRY Interchangeable
\* Once every admin is deactivated and signed out nobody can do anything, and time is bounded.
CHECK_DEADLOCK FALSE
