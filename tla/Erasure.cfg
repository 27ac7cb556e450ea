CONSTANTS
  Founder = {f1, f2}
  Startup = {s1}
  Stint = {ceo}
  Request = {p1}
  Tx = {t1, t2, t3}
SPECIFICATION Spec
INVARIANT NoTraceLeft
CONSTRAINT FewBesideThree
SYMMETRY Interchangeable
CHECK_DEADLOCK FALSE
