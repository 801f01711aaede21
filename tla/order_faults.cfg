SPECIFICATION Spec
CONSTANTS
  MaxRuns = 2
  Handlers = {h1}
  Quantity = 2
  Webhooks = 0
  Stacks = 1
  Kinds = {"approve", "window", "retry"}
  SecondVerdicts = {}
  EarlyCallbacks = TRUE
  Unreliable = TRUE
  MaxDbFaults = 1
  MaxDeaths = 1
CHECK_DEADLOCK FALSE
INVARIANTS QueuedOrderIsBlank NoForeignOutputs
PROPERTIES EveryElementDeployed
