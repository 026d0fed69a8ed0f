SPECIFICATION Spec
CONSTANTS
  s1 = s1
  s2 = s2
  Submissions = {s1, s2}
  Outcomes = {"solved", "timeout", "provider_error"}
  MaxSpend = 2
  MaxRecords = 3
  NoHeader = NoHeader
  Headers <- TwoHeaders
  QuantileNum = 3
  QuantileDen = 5
SYMMETRY SubmissionSymmetry
INVARIANTS ReadableIsIntact RewritingIsDetected YieldIsBounded WorseNeverScoresBetter
PROPERTIES CheapSolveNeverHurts VoidIsForever
CHECK_DEADLOCK FALSE
