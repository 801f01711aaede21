SPECIFICATION FairSpec
CONSTANTS
  Elements = {e1}
  MaxTears = 2
  MaxRetries = 1
  Webhooks = 1
  Stacks = 1
  Handlers = {h1}
  Kinds = {"button", "sweep"}
  EarlyFailure = FALSE
  MaxDbFaults = 0
  MaxDeaths = 0
CHECK_DEADLOCK FALSE
INVARIANTS TypeOK NoDestroyDuringApply
PROPERTIES TeardownEnds
