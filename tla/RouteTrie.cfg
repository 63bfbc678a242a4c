SPECIFICATION Spec
CONSTANTS
  Width = 2
  MaxRoutes = 3
  Tables <- AllTables
INVARIANTS TypeOK ReturnsBestRoute FoundIsLongest MissedOnlyIfLedOff
CHECK_DEADLOCK FALSE
