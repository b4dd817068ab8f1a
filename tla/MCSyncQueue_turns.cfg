SPECIFICATION SpecNoRemoval
CONSTANTS
  r1 = r1  r2 = r2  r3 = r3
  k1 = k1  k2 = k2  k3 = k3
  Repo = {r1, r2}
  Key = {k1, k2}
  SizeOf <- MCSizeOf
  Stamp = {1, 2}
  MaxQueued = 2
  MaxHeld = 1
SYMMETRY RepoSymmetry
INVARIANTS
  EveryQueueScheduled
  OnlyRetriesOutOfLine
PROPERTIES
  RoundRobin
