SPECIFICATION Spec
CONSTANTS
  Admins = {anna, ben, cleo}
  Requests = {r1, r2}
  NoOne = NoOne
  LastDay = 2
  MaxDelegations = 2
CHECK_DEADLOCK FALSE
INVARIANTS TypeOK OneHop OnePerGiver 
SYMMETRY Symmetry
