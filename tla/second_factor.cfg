SPECIFICATION Spec
CONSTANTS
  Requests = {r1, r2}
  Keys = {k1}
  MaxSecrets = 2
  MaxSteps = 2
  MaxIssues = 2
  MaxFailedAttempts = 2
CHECK_DEADLOCK FALSE
SYMMETRY Symmetry
INVARIANTS TypeOK AcceptedOnce GuessesAreBounded
PROPERTIES ReplacedWithProof
