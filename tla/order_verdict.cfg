SPECIFICATION FairSpec
CONSTANTS
  MaxRuns = 2
  Handlers = {h1, h2}
  Quantity = 2
  Webhooks = 1
  Stacks = 0
  Kinds = {"approve", "direct", "window", "retry"}
  SecondVerdicts = {}
  EarlyCallbacks = FALSE
  Unreliable = FALSE
  MaxDbFaults = 0
  MaxDeaths = 0
CHECK_DEADLOCK FALSE
PROPERTIES VerdictReached LifecycleSpec
