SPECIFICATION FairSpec
CONSTANTS
  Users = {u1, u2}
  Sinks = {s1}
  None = None
  MaxTasks = 3
CHECK_DEADLOCK FALSE
INVARIANTS FlushMeansRecorded NothingLostAtExit
PROPERTIES ImplementsSyncLog FlushReturns DestructorReturns
