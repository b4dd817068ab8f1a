SPECIFICATION SpecAlone
CONSTANTS
  Top = {"a"}
  Sub = {"s"}
  Platform = {"linux", "macos", "windows", "other"}
  Size = 2
  MaxChanges = 3
  MaxNotes = 2
  MaxDrops = 0
  Dest = "a"
  Transfer = {1}
  MaxSourceChanges = 1
CHECK_DEADLOCK FALSE

  
PROPERTIES
  RowsCatchUp
  StopReturns
  DeletionsAreReal
  TransfersEnd
