SPECIFICATION Spec
CONSTANTS
  Subjects <- MCSubjects
  Assets <- MCAssets
  Names <- MCNames
  Trim <- MCTrim
  ByteOrder <- MCByteOrder
  Requests <- MCRequests
  SafeNames = {"A", "B"}
  Blank = ""
  MaxAmount = 3
  MaxLeaves = 5
INVARIANTS
  TypeOK
  RootTotals
  OverflowOnly
  ProofsVerify
  NothingLost
  DebtSurfaced
  PublishesExactly
PROPERTY Answered
CHECK_DEADLOCK FALSE
