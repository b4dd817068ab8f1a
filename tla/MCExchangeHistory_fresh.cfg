SPECIFICATION HSpecFresh
CONSTANTS
  a = a
  b = b
  c = c
  Peer = {1, 2, 3}
  Content <- ThreeContents
  Empty = Empty
  NoHash = NoHash
  MaxVersion = 3
  MaxFlight = 12
  MaxTime = 3
SYMMETRY ContentSymmetry
INVARIANTS
  Agreement
  NoFalseConflict
PROPERTIES
  VersionsNeverRegress
  LastWriteWins
