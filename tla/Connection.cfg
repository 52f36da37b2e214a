SPECIFICATION Spec
CONSTANTS
  Kinds = {"tcp", "ws"}
  Callers = {t1, t2}
  Loop = loop
  MaxSends = 2
  MaxTasks = 3
  MaxWriteQueue = 1
  ResumeThreshold = 1
  MaxBatch = 1
CHECK_DEADLOCK FALSE
INVARIANTS TypeOK OneWriter ReadingWhenAllowed
PROPERTIES DrainedBeforeClose ImplementsLife DrainEnds
