SPECIFICATION Spec
CONSTANTS
  s1 = s1
  s2 = s2
  r1 = r1
  r2 = r2
  r3 = r3
  Sessions = {s1, s2}
  Reqs = {r1, r2}
  NoSession = NoSession
  NDays = 2
  Cap = 2
SYMMETRY Symmetric
INVARIANTS
  PremiumUseIsCharged
PROPERTIES
  CapIsKept
CHECK_DEADLOCK FALSE
