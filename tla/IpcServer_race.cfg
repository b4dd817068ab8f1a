SPECIFICATION Spec
CONSTANTS
  Client = {c1, c2}
  Sender = {s1, s2}
  StateType = {peers, repos}
  Command = command
  Capacity = 1
  MaxMessages = 2
CHECK_DEADLOCK FALSE
INVARIANTS
  NoSendOnClosed
  ClientsServed
