SPECIFICATION SpecCalm
CONSTANTS
  a = a
  b = b
  c = c
  Peer = {1, 2, 3}
  Content <- ThreeContents
  Empty = Empty
  NoHash = NoHash
  Inline <- SmallContent
  First = a
  MaxVersion = 6
  MaxEdits = 3
  MaxCrashes = 1
  MaxDrops = 1
  MaxFaults = 3
  MaxBreaks = 0
  MaxChoices = 0
  MaxEvents = 20
CHECK_DEADLOCK FALSE
INVARIANTS
  QuietMeansInSync
  VersionsAreTrue
  
PROPERTIES
  Converges
