SPECIFICATION Spec
CONSTANTS
  MaxRuns = 2
  Handlers = {h1, h2}
  Quantity = 1
  Webhooks = 1
  Stacks = 1
  Kinds = {"approve", "retry"}
  SecondVerdicts = {"relapse"}
  EarlyCallbacks = TRUE
  Unreliable = FALSE
  MaxDbFaults = 0
  MaxDeaths = 0
CHECK_DEADLOCK FALSE
SYMMETRY HandlerSymmetry
INVARIANTS TypeOK OwnerHoldsTriggering
PROPERTIES CompletionIsClean
