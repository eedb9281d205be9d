CONSTANTS
  Funs = {1, 2}
  Secs = {1, 2, 3}
  Repeats = {FALSE, TRUE}
  OldActions = {"default", "ignore", "client"}
  OldAlarms = {0, 2}
  MaxLate = 2
  Procs = {p1, p2}
  Fns = {"ReadLock", "WriteLock", "TimedFlockR", "TimedFlockW", "fgets"}
  Clients = {p1}
SPECIFICATION SignalSpec
INVARIANTS NeverLate ExclusiveUse AlarmStaysInside SuccessKeepsAlarm
PROPERTIES EveryFunctionCalled CallsReturn
CHECK_DEADLOCK FALSE
