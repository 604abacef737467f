SPECIFICATION Spec
CONSTANTS
  Radix = 4
  MaxPl = 8
  Lengths = {0, 1, 4, 5, 8, 9}
  MaxFrames = 3
  MaxFaults = 2
INVARIANTS TypeOK RxInBounds SwallowsOneFrame WholeFrameReceived CleanLineLosesNothing
PROPERTIES LinkSpec
