SPECIFICATION Spec
CONSTANTS
  a1 = a1  a2 = a2  b1 = b1
  Procs = {a1, a2, b1}
  NoProc = NoProc
  Fds = {5, 6, 7}
  Cap = 1
  Ids <- ShortIds
  IdOf <- ShortIdOf
  Stored <- ShortStored
  Topics <- NoStrings
  Patterns <- OnePattern
  MaxPub = 0
  MaxCommands <- OneEach
  MaxTyped = 0
INVARIANTS TypeOK PollTableExact SlotsFollowSockets OneConnectionPerId CommandsAreOwned SubscriptionsSound
PROPERTY OnlyOwnSubscription
CHECK_DEADLOCK FALSE
