SPECIFICATION Spec
CONSTANTS
  k1 = k1
  k2 = k2
  v1 = v1
  v2 = v2
  Keys = {k1, k2}
  Values = {v1, v2}
  None = None
  Default <- MCDefault
  Slots = 6
  Reserve = 1
  MaxCuts = 2
INVARIANTS TypeOK OneCurrent ReadsAgree RoomRemains HaltHeals
PROPERTIES WriteOnce MapSpec Reopens
