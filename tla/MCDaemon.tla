------------------------------ MODULE MCDaemon ------------------------------
(* The validator daemon on a small instance: submissions are interchangeable. *)
EXTENDS ValidatorDaemon, TLC

SubmissionSymmetry == Permutations(Submissions)
=============================================================================
