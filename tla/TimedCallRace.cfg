CONSTANTS
  Procs = {p1, p2}
  Fns = {"ReadLock", "WriteLock"}
  Clients = {}
SPECIFICATION TC_Spec
INVARIANT TimedOutWithoutLock
