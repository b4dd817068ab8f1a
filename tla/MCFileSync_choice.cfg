SPECIFICATION SpecKeep
CONSTANTS
  a = a
  b = b
  c = c
  Peer = {1, 2}
  Content <- ThreeContents
  Empty = Empty
  NoHash = NoHash
  Inline <- NoContent
  First = a
  MaxVersion = 6
  MaxEdits = 2
  MaxCrashes = 0
  MaxDrops = 0
  MaxFaults = 0
  MaxBreaks = 0
  MaxChoices = 1
  MaxEvents = 20
INVARIANT FileSurvives
CHECK_DEADLOCK FALSE
