SPECIFICATION Spec
CONSTANTS
  Callers = {c1, c2}
  Orgs = {o1, o2}
  Keks = {k1, k2}
  None = None
  MaxMints = 3
  MaxFaults = 2
INVARIANT TypeOK
INVARIANT OneKey
INVARIANT NoHalfKey
INVARIANT SignsAsItself
PROPERTY ImplementsOrgKeys
CHECK_DEADLOCK FALSE
