SPECIFICATION Spec
CONSTANTS
  s1 = s1
  Submissions = {s1}
  Outcomes = {"solved", "timeout", "provider_error"}
  MaxSpend = 1
  MaxRecords = 4
  NoHeader = NoHeader
  Headers <- DeployedHeader
  QuantileNum = 3
  QuantileDen = 4
INVARIANT PenaltyIsCharged
CHECK_DEADLOCK FALSE
