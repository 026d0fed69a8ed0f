SPECIFICATION Spec
CONSTANTS
  Hotkeys = {1, 2, 3, 4}
  MaxScore = 2
  PaidRanks = 3
  DecayNum = 3
  DecayDen = 4
  PpmTotal = 10
  Shares = {0, 3, 8, 10}
  ShareUnit = 10
INVARIANTS NothingIsLost RankIsRespected TiesShareAlike ShareIsWithheld FieldKeepsTheRest
CHECK_DEADLOCK FALSE
