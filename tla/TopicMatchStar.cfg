SPECIFICATION Spec
CONSTANTS
  Levels = {"upb", "pressure", "*"}
  MaxLevels = 2
  Strings <- MCStrings
INVARIANT StarMatchesRun
CHECK_DEADLOCK FALSE
