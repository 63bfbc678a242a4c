SPECIFICATION Spec
CONSTANTS
  Users = {"u1", "u2"}
  MaxSessions = 2
  MaxCommands = 4
  MaxMovies = 2
INVARIANTS TypeOK FlagsMatchMemory TokenOfSession AgreeUnlessLost OnlyTwoLeak SuccessIsWhole
  WholeUnlessClosed
PROPERTY EveryCommandEnds
CHECK_DEADLOCK FALSE
