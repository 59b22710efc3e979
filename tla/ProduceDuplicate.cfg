SPECIFICATION Spec
CONSTANTS
  Subjects <- MCSubjects
  Assets <- MCAssets
  Names <- MCNames
  Trim <- MCTrim
  ByteOrder <- MCByteOrder
  Requests <- Unclamped
  SafeNames = {"A", "B"}
  Blank = ""
  MaxAmount = 3
  MaxLeaves = 5
INVARIANT DuplicatesRefused
CHECK_DEADLOCK FALSE
