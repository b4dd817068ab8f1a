SPECIFICATION Spec
CONSTANTS
  a = a
  b = b
  c = c
  Peer = {1, 2}
  Content <- TwoContents
  Empty = Empty
  NoHash = NoHash
  Inline <- SmallContent
  First = NoHash
  MaxVersion = 3
  MaxEdits = 2
  MaxCrashes = 1
  MaxDrops = 1
  MaxFaults = 1
  MaxBreaks = 1
  MaxChoices = 1
  MaxEvents = 3
PROPERTY FollowsExchange
CHECK_DEADLOCK FALSE
