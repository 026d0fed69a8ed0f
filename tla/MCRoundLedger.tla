--------------------------- MODULE MCRoundLedger ---------------------------
EXTENDS RoundLedger, TLC

\* Two headers for the round: the second with a floor that is not the unit.
TwoHeaders == {[floor |-> 1, penalty |-> 2, cap |-> 2], [floor |-> 2, penalty |-> 1, cap |-> 3]}

\* The deployed header in units of DENOMINATOR_FLOOR: $0.005, $0.25 and $2.00.
DeployedHeader == {[floor |-> 1, penalty |-> 50, cap |-> 400]}

SubmissionSymmetry == Permutations(Submissions)
=============================================================================
