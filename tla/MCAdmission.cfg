SPECIFICATION Spec
CONSTANTS
  HotkeyCount = 2
  Coldkeys = {c1, c2}
  Transfers <- MCTransfers
  Fees = {0, 1}
  MaxBlock = 2
  MaxBody = 1
  MaxTransfers = 2
  MaxSwaps = 1
  MaxReorgs = 1
  MaxRounds = 1
INVARIANTS TypeOK EachPaymentEntersOne AdmittedHasPaid NobodyIsCrowdedOut
SYMMETRY ColdkeySymmetry
CHECK_DEADLOCK FALSE
