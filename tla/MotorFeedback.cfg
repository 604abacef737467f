SPECIFICATION Spec
CONSTANTS
  R = 6
  Calibration = 1
  MaxStep = 2
  MaxTurn = 1
  MaxTotal = 18
INVARIANTS TypeOK TurnsTracked
PROPERTY FrameRestoresAngle
