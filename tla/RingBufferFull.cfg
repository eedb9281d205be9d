CONSTANTS
  RingSize = 3
  RingValues = {"a", "b"}
SPECIFICATION CB_Spec
INVARIANT RingMakesRoom
CHECK_DEADLOCK FALSE
