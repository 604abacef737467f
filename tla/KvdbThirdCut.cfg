SPECIFICATION Spec
CONSTANTS
  k1 = k1
  k2 = k2
  v1 = v1
  v2 = v2
  Keys = {k1, k2}
  Values = {v1, v2}
  None = None
  Default <- MCDefault
  Slots = 7
  Reserve = 1
  MaxCuts = 3
INVARIANT RecoveredAll
