SPECIFICATION FairSpec
CONSTANTS
  SpendCap = 3
  Conns = {c1, c2}
  MaxCost = 2
  MaxFrames = 4
  DrainModes = {TRUE, FALSE}
INVARIANTS TypeOK SpendBounded ServedWithinCap RecordIsFinal
PROPERTIES AnswerOnce EpisodeEnds ImplementsContract
CHECK_DEADLOCK FALSE
