SPECIFICATION FairSpec
CONSTANTS
  Requests = {r1, r2}
  Parties = {p1, p2}
  Keys = {k1}
  Cuts <- PlainCuts
  None = None
  MaxStarted = 3
  MaxLosses = 1
INVARIANT TypeOK
INVARIANT ChecksStillHold
INVARIANT NoFork
INVARIANT LinkAdvances
INVARIANT ChainInOrder
INVARIANT HistoryVerifies
PROPERTY RequestsFinish
PROPERTY ImplementsHistories
CHECK_DEADLOCK FALSE
