SPECIFICATION Spec
CONSTANTS
  R = 4
  Calibration = 1
  MaxStep = 1
  MaxTurn = 1
  MaxTotal = 13
INVARIANT ReturnsAngle
