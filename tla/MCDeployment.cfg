SPECIFICATION DeploySpec
CONSTANTS
  Submissions = {s1}
  Instances = 2
  MaxRound = 2
  MaxRevision = 1
  MaxBlock = 0
  MaxInterrupts = 1
  PidModes = {TRUE, FALSE}
  PauseModes = {TRUE, FALSE}
  PayableModes = {TRUE, FALSE}
  LongRounds = FALSE
  MaxUpdates = 1
PROPERTIES HookClearsNoRound UpdatesLand VoteFollowsSettledRound StopEnds
