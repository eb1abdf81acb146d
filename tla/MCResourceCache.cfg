SPECIFICATION FairSpec
CONSTANTS
  Keys = {k1, k2}
  Resources = {r1, r2, r3}
  Locks = {l1, l2}
  None = None
  MaxAge = 1
INVARIANTS LiveIsFirst ManagedOnce
PROPERTIES ImplementsStore IdleIsCollected
