SPECIFICATION FairSpec
CONSTANT Strands <- CpuGpu
CHECK_DEADLOCK FALSE

PROPERTY DestructorReturns
