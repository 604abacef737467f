SPECIFICATION Spec
CONSTANTS
  Size = 4
  Laps = 2
  MaxIn = 1
  MaxReq = 1
  Byte = {x}
  MergedReads = FALSE
INVARIANT AtMostLen
