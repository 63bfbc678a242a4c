SPECIFICATION Spec
CONSTANTS
  Levels = {"", "upb", "ec", "+", "*"}
  MaxLevels = 3
  Strings <- MCStrings
INVARIANTS TypeOK ReturnsMatches NeverMissed ExactWhenStarLast
CHECK_DEADLOCK FALSE
