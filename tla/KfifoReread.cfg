SPECIFICATION Spec
CONSTANTS
  Size = 2
  Laps = 2
  MaxIn = 2
  MaxReq = 2
  Byte = {x, y}
  MergedReads = FALSE
SYMMETRY ByteSymmetry
INVARIANTS LengthsStayValid
PROPERTIES UnreadNeverOverwritten
