SPECIFICATION Spec
CONSTANTS
  Submissions = {s1}
  Instances = 2
  MaxRound = 2
  MaxRevision = 2
  MaxBlock = 1
  MaxInterrupts = 1
  PidModes = {TRUE}
  PauseModes = {TRUE, FALSE}
  PayableModes = {TRUE}
  LongRounds = FALSE
PROPERTY DeadLockIsIgnored
