SPECIFICATION Spec
CONSTANTS
  Period = 20
  LoopDelay = 1
  ShotDelay = 5
PROPERTY EveryPassShoots
