CONSTANTS
  Funs = {1, 2}
  Secs = {1, 2, 3}
  Repeats = {TRUE, FALSE}
  OldActions = {"default"}
  OldAlarms = {0}
  MaxLate = 3
SPECIFICATION Spec
PROPERTY RepeatsForever
CHECK_DEADLOCK FALSE
