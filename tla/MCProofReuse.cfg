SPECIFICATION Spec
CONSTANTS
  HotkeyCount = 2
  Coldkeys = {c1}
  Transfers <- MCTransfers
  Fees = {0, 1}
  MaxBlock = 2
  MaxBody = 1
  MaxTransfers = 2
  MaxSwaps = 0
  MaxReorgs = 0
  MaxRounds = 2
PROPERTIES ProofIsNotReused
CHECK_DEADLOCK FALSE
