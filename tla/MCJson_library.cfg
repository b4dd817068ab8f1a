SPECIFICATION Spec
CONSTANTS
  FirstBytes = {0, 9, 10, 32, 34, 42, 44, 45, 47, 48, 49, 57, 58, 91, 93, 97, 102, 110, 116, 123, 125, 239}
  StringBytes = {0, 31, 34, 92, 97, 127, 128, 193, 194, 223, 224, 225, 236, 237, 238, 239, 240, 241, 243, 244, 245, 255}
  EscapeBytes = {34, 92, 47, 98, 102, 110, 114, 116, 117, 97}
  HexBytes = {48, 56, 68, 99, 103}
  NumberBytes = {43, 45, 46, 48, 57, 97, 101}
  Units = 5
  BufferSize = 16
  Scalars <- MCScalars
  Names <- MCNames
  MaxTokens = 7
  Samples <- MCSamples
  Starts <- MCStarts
  Alphabet <- MCAlphabet
  MaxBytes = 4
  MaxUncounted = 12
  Documents <- MCDocuments
  Values <- MCValues
  DocNames <- MCDocNames
  Pointers <- MCPointers
  Patches <- MCPatches
  MaxCalls = 2
CHECK_DEADLOCK FALSE
INVARIANTS
  TokensAgree
  StringsDumpBack
  TextsAgree
  RoundTrip
  SelfDelimiting
  AcceptedRewrites
  PointersAgree
  PatchesReach
