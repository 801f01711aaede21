SPECIFICATION Spec
CONSTANTS
  Users = {anna, ben}
  InitialRoots = {anna, ben}
  Requests = {r1, r2}
  NoOne = NoOne
  MaxSessions = 2
CHECK_DEADLOCK FALSE
INVARIANT SomeRootRemains
