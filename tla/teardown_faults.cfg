SPECIFICATION Spec
CONSTANTS
  Elements = {e1}
  MaxTears = 2
  MaxRetries = 0
  Webhooks = 1
  Stacks = 1
  Handlers = {h1, h2}
  Kinds = {"button", "project"}
  EarlyFailure = TRUE
  MaxDbFaults = 2
  MaxDeaths = 1
CHECK_DEADLOCK FALSE
SYMMETRY RowSymmetry
PROPERTIES DecommissionedIsDestroyed ElementLifecycleSpec
