SPECIFICATION FairSpec
CONSTANTS
  Requests = {r1, r2}
  MaxLines = 2
  MaxQuantity = 2
  MaxCartItems = 2
  MaxElements = 2
  Budget = 1
  MaxOrders = 2
  MaxFaults = 1
CHECK_DEADLOCK FALSE
INVARIANTS TypeOK SingleCustody ConfirmedLineIsSpent OvershootIsBounded
PROPERTIES TakenLinesSettle CartLineSpec
