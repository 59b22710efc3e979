SPECIFICATION Spec
CONSTANTS
  MaxAmount = 1000000
  One = 4
  FileNames <- FileNamesInOrder
  SUPPORTED <- Features
  Partial = {"report-v2", "proof-v2", "group-v1", "provenance-v1"}
  Topics <- AllTopics
  Snapshots <- SnapshotsOfDays
  Days <- DaysPublished
  Amounts <- AmountsPublished
  MaxIssued <- Issues
  MaxAccepted <- Accepts
  Exports <- BalanceFiles
  Times <- SnapshotTimes
  SaltOrder <- Salted
  Seed = "venue-key"
  MaxRuns = 2
  MaxReads = 1
INVARIANTS
  AsTheCorpusExpects
  Committed
  ChainReaches
  CoveredMeansHeld
  NoOverClaim
  HistoryComplete
  ReductionsOnRecord
  DeliveredWhole
  SweptOneRun
  FinishedRunVerifies
CHECK_DEADLOCK FALSE
