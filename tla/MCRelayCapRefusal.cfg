SPECIFICATION Spec
CONSTANTS
  SpendCap = 3
  Conns = {c1}
  MaxCost = 4
  MaxFrames = 4
  DrainModes = {TRUE}
INVARIANT CapRefusalIsTerminal
CHECK_DEADLOCK FALSE
