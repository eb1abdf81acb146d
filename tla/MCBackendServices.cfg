SPECIFICATION ServicesSpec
CONSTANTS
  Strands <- CpuGpu
  Clients = {"asks", "connects"}
  Requests <- MCRequests
  MaxRequests <- MCMaxRequests
  InSize = 1
  OutSize = 1
CHECK_DEADLOCK FALSE
INVARIANTS CancelFindsWobj GcEndsWithBackend ServicesLiveAndGo EachRequestAnswered
PROPERTY BackendReturns
