CONSTANT MA_Greetings = {1, 2}
SPECIFICATION MA_Spec
INVARIANT MA_ValidMeansAccepted
CHECK_DEADLOCK FALSE
