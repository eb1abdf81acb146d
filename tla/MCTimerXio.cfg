SPECIFICATION FairSpec
CONSTANTS
  Reader = Reader
  Writer = Writer
  Others = {closer}
  None = None
  MaxSize = 2
  MaxWritten = 3
  Timed = {Reader}
  MaxExpiries = 1
INVARIANTS SuspendedIsResumed AbortsArePaidFor
PROPERTIES CallReturns ImplementsPipe
