SPECIFICATION Spec
CONSTANTS
  Kinds = {"tcp"}
  Callers = {t1}
  Loop = loop
  MaxSends = 2
  MaxTasks = 3
  MaxWriteQueue = 1
  ResumeThreshold = 1
  MaxBatch = 1
CHECK_DEADLOCK FALSE

PROPERTIES ClosesAfterWrite
