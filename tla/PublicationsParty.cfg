SPECIFICATION Spec
CONSTANTS
  Requests = {r1}
  Parties = {p1, p2}
  Keys = {k1}
  Cuts <- PlainCuts
  None = None
  MaxStarted = 2
  MaxLosses = 0
INVARIANT HistoryVerifiesWhateverParty
CHECK_DEADLOCK FALSE
