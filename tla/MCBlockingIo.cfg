SPECIFICATION FairSpec
CONSTANTS
  Reader = Reader
  Writer = Writer
  Others = {closer}
  None = None
  MaxSize = 2
  MaxWritten = 4
  Timed = {Reader}
  MaxExpiries = 2
INVARIANTS ChannelAsserts NoLostWakeup ClosedAfterDrain SleeperIsWoken AbortsArePaidFor
PROPERTIES CallReturns ImplementsPipe
