CONSTANTS
  ABTexts <- AB_ShortTexts
  ABSize = 2
  ABCalls = 4
SPECIFICATION AB_Spec
INVARIANT AB_AnyCombination
CHECK_DEADLOCK FALSE
