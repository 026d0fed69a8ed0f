SPECIFICATION Spec
CONSTANTS
  Names = {"n1", "n2"}
  Within <- MCWithin
  Attributes = {"seal"}
  Fillers = {"seal"}
  Values = {u, v}
  Documents = {d1, d2}
  EntityCount = 2
  GradedCount = 1
INVARIANTS ReadersSolve MemoryDoesNotSolve
SYMMETRY ValueAndDocumentSymmetry
CHECK_DEADLOCK FALSE
