SPECIFICATION ListSpec
CONSTANTS
  rtable <- TwoRoutes
  Addresses <- FiveAddresses
  Macs <- TwoMacs
  RouterIps <- RouterAddresses
  Packets <- AllPackets
  Replies <- BothReply
  Askers <- OneAsker
  MaxPackets = 2
  MaxReplies = 2
  Cell = {c1, c2, c3}
  NULL = NULL
CHECK_DEADLOCK FALSE
INVARIANT OneRequestPerHop
