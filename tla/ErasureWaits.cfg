CONSTANTS
  Founder = {f1, f2}
  Startup = {s1}
  Stint = {ceo, cto}
  Request = {p1}
  Tx = {t1, t2}
SPECIFICATION Spec
INVARIANT OnlyDeletesDeadlock
SYMMETRY Interchangeable
CHECK_DEADLOCK FALSE
