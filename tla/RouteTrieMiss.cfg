SPECIFICATION Spec
CONSTANTS
  Width = 2
  MaxRoutes = 2
  Tables <- AllTables
INVARIANT LongestPrefixFound
CHECK_DEADLOCK FALSE
