SPECIFICATION Spec
CONSTANTS
  a1 = a1  a2 = a2  b1 = b1
  Procs = {a1}
  NoProc = NoProc
  Fds = {5}
  Cap = 1
  Ids <- ShortIds
  IdOf <- ShortIdOf
  Stored <- ShortStored
  Topics <- OneTopic
  Patterns <- OnePattern
  MaxPub = 1
  MaxCommands <- OneEach
  MaxTyped = 0
INVARIANT BrokerSurvives
CHECK_DEADLOCK FALSE
