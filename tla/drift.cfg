SPECIFICATION Spec
CONSTANTS
  Elements = {e1}
  Steps = {dns, vm}
  Orphans = {}
  Requests = {r1, r2}
  Outcomes = {"clean", "error", "drifted"}
  MaxReports = 2
CHECK_DEADLOCK FALSE
SYMMETRY Symmetry
INVARIANTS TypeOK ReadingIsTrue 
PROPERTIES ReadingsMoveForward
