SPECIFICATION FairSpec
CONSTANTS
  ToServer = 2
  ToClient = 2
  MaxRequests = 4
  MaxTokens = 2
  Failing = {"load_model", "create_instance", "run", "stream"}
  Drops = FALSE
CHECK_DEADLOCK FALSE
INVARIANT AnswersBelong
