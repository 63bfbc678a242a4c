SPECIFICATION ListSpec
CONSTANTS
  rtable <- TwoRoutes
  Addresses <- FiveAddresses
  Macs <- TwoMacs
  RouterIps <- RouterAddresses
  Packets <- AllPackets
  Replies <- BothReply
  Askers <- OneAsker
  MaxPackets = 3
  MaxReplies = 2
  Cell = {c1, c2, c3}
  NULL = NULL
INVARIANTS TypeOK OneFate QueueLenExact WaitsForAnAnswer ArpTableExact
  WrittenSumsVerify CutOnlyIfHeld QueueIsList
PROPERTIES ToTheNextHop KeepsPromise
CHECK_DEADLOCK FALSE
