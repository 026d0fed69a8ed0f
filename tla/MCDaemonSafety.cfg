SPECIFICATION Spec
CONSTANTS
  Submissions = {s1, s2}
  Instances = 1
  MaxRound = 2
  MaxRevision = 2
  MaxBlock = 1
  MaxInterrupts = 1
  PidModes = {FALSE}
  PauseModes = {FALSE}
  PayableModes = {TRUE}
  LongRounds = TRUE
INVARIANTS TypeOK NeverUngoverned CachedWasInForce
PROPERTIES NoVoteMidRound VotedRoundIsClosed FallbackIsForTheUngoverned ImplementsContract
SYMMETRY SubmissionSymmetry
