CONSTANTS
  HdrLen = 2
  LogHdrLen = 4
  BlockSize = 6
  Values = {"a", "b"}
  LenOf <- MCLenOf
  TimeOf <- MCTimeOf
  NullValues = {}
  StartTimes = {1}
  StartOffsets = {4}
  StopOffsets = {7, 11, 13}
  Times = {1, 2}
  MaxLen = 22
  Clients <- AllClients
SPECIFICATION MCSpec
INVARIANTS LogWellFormed ExecuteInSteps
PROPERTIES ImplementsPromise SyncedLosesNothing DurableKept
CHECK_DEADLOCK FALSE
