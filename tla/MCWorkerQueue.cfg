SPECIFICATION FairSpec
CONSTANTS
  t1 = t1
  t2 = t2
  t3 = t3
  Threads = {t1, t2, t3}
  Submitters = {t1, t2}
  MaxCommands = 3
  Capacity = 2
  BatchCount = 2
  MayBeBusy = TRUE
INVARIANTS QueueInv ExecutedOnce DrainedMeansDone ChecksHold
PROPERTY SubmittedIsExecuted
CHECK_DEADLOCK FALSE
