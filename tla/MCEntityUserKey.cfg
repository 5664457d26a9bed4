CONSTANTS
  Messages <- MCMessages
  CharCodes <- MCCharCodes
  Class = "C"
  Indexes = {e1}
  MaxElements = 2
  MaxDepth = 3
  MaxNesting = 2
  MaxPaths = 2
  MaxSent = 2
  Data = {1}
  Inputs <- MCInputs
  Letters = {"a"}
  Digits = {"7", "9"}
  Underscore = {"_"}
  Spaces = {" "}
  FitsUsize <- MCFitsUsize
  BitCounts = {1, 2, 3}
  Halves <- MCHalves
  HistorySize = 2
  MaxStringSize = 2
  BufferSize = 4
  Chars = {1, 2}
  Keys <- MCKeys
  Terminator = 0
  Junk = 9
  EntryIndexes = {0, 1, 2, 3}
  UserData = {}
  NoData = NoData
  NoKey = NoKey
  MaxKeys = 4
  Files <- MCFiles
  HeaderSize = 2
  BufSize = 4
  Samples <- MCSamples
  MaxReads = 2
  Behind = {9}
  StringBufSize = 3
SPECIFICATION Spec
CHECK_DEADLOCK FALSE
INVARIANTS UserKeyFinds
