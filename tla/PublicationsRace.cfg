SPECIFICATION Spec
CONSTANTS
  Requests = {r1, r2}
  Parties = {p1}
  Keys = {k1}
  Cuts <- PlainCuts
  None = None
  MaxStarted = 2
  MaxLosses = 0
INVARIANT EachNamesTheOneBefore
CHECK_DEADLOCK FALSE
