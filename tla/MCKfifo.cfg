SPECIFICATION Spec
CONSTANTS
  Size = 4
  Laps = 2
  MaxIn = 2
  MaxReq = 2
  Byte = {x, y}
  MergedReads = TRUE
SYMMETRY ByteSymmetry
INVARIANTS TypeOK LengthsStayValid AtMostLen
PROPERTIES UnreadNeverOverwritten FifoSpec
