SPECIFICATION Spec
CONSTANTS
  Submissions = {s1, s2}
  Instances = 2
  MaxRound = 2
  MaxRevision = 2
  MaxBlock = 1
  MaxInterrupts = 1
  PidModes = {FALSE}
  PauseModes = {TRUE, FALSE}
  PayableModes = {TRUE}
  LongRounds = FALSE
PROPERTY VotedRoundIsWhole
