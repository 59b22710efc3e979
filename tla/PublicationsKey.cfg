SPECIFICATION FairSpec
CONSTANTS
  Requests = {r1, r2}
  Parties = {p1}
  Keys = {k1, k2}
  Cuts <- PlainCuts
  None = None
  MaxStarted = 3
  MaxLosses = 1
PROPERTY OtherKeysRefused
CHECK_DEADLOCK FALSE
