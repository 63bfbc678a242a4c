SPECIFICATION FairSpec
CONSTANTS
  a1 = a1  a2 = a2  b1 = b1
  Procs = {a1, a2}
  NoProc = NoProc
  Fds = {5, 6}
  Cap = 1
  Ids <- ShortIds
  IdOf <- ShortIdOf
  Stored <- ShortStored
  Topics <- OneTopic
  Patterns <- OnePattern
  MaxPub = 2
  MaxCommands <- OneThenTwo
  MaxTyped = 0
PROPERTIES ScansEnd HelloAnswered EndedAreReaped
CHECK_DEADLOCK FALSE
