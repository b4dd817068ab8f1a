SPECIFICATION FrameSpec
CONSTANTS
  MaxBreaks = 2
  System = {"unix", "windows"}
  Base = 4
  MaxLen = 7
  Lengths = {2, 8}
  MaxFrames = 2
CHECK_DEADLOCK FALSE
INVARIANTS
  NoStaleDescriptor
PROPERTIES
  
  Reconnects
  
  
