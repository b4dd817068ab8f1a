SPECIFICATION DSpec
CONSTANTS
  r1 = r1  r2 = r2
  k1 = k1  k2 = k2
  Repo = {r1, r2}
  Key = {k1}
  Source = {k1}
  SizeOf <- MCSizeOf
  PeerOf <- MCPeerOf
  Stamp = {1}
  GlobalSlots = 2
  RepoSlots = 1
  MaxQueued = 4
  MaxHeld = 3
  MaxRemovals = 1
INVARIANTS
  RotationConsistent
  SlotsMatch
PROPERTIES
  NeverDropped
  RepoServed
  StopEnds
