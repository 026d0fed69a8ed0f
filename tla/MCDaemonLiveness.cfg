SPECIFICATION FairSpec
CONSTANTS
  Submissions = {s1}
  Instances = 1
  MaxRound = 2
  MaxRevision = 2
  MaxBlock = 1
  MaxInterrupts = 1
  PidModes = {TRUE, FALSE}
  PauseModes = {FALSE}
  PayableModes = {TRUE, FALSE}
  LongRounds = FALSE
PROPERTIES VoteFollowsSettledRound StopEnds
