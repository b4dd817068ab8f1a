SPECIFICATION Spec
CONSTANTS
  Peer = {1, 2}
  MaxConns = 2
  Plans <- MCPlans
CHECK_DEADLOCK FALSE
INVARIANTS
  ConnectionsWhole
PROPERTIES
  LiveOnesStay
  EventuallyConnected
