SPECIFICATION FairSpec
CONSTANTS
  ToServer = 1
  ToClient = 1
  MaxRequests = 5
  MaxTokens = 2
  Failing = {"load_model", "create_instance", "run", "stream"}
  Drops = TRUE
CHECK_DEADLOCK FALSE
INVARIANTS InStep
PROPERTIES CallReturns SessionEnds
