SPECIFICATION FairSpec
CONSTANTS
  a1 = a1  a2 = a2  b1 = b1
  Procs = {a1, b1}
  NoProc = NoProc
  Fds = {5, 6}
  Cap = 1
  Ids <- ShortIds
  IdOf <- ShortIdOf
  Stored <- ShortStored
  Topics <- OneTopic
  Patterns <- OnePattern
  MaxPub = 1
  MaxCommands <- OneEach
  MaxTyped = 1
PROPERTIES KeepsPromise StopReachesAll
CHECK_DEADLOCK FALSE
