SPECIFICATION Spec
CONSTANTS
  KeyNum = 2
  BatchLen = 1
  Home <- MCHome
  Scenarios <- MCScenarios
INVARIANT ServedIsRight
CHECK_DEADLOCK FALSE
