SPECIFICATION Spec
CONSTANTS
  Callers = {c1, c2}
  Orgs = {o1}
  Keks = {k1}
  None = None
  MaxMints = 2
  MaxFaults = 1
INVARIANT NoHalfKeyAtRest
CHECK_DEADLOCK FALSE
