SPECIFICATION FairSpec
CONSTANTS
  main = main
  worker = worker
  Threads = {main, worker}
  Nobody = Nobody
  MayDo <- MCMayDo
  MaxDepth = 2
  MaxRare = 2
INVARIANTS ChecksHold AllocatorsExcluded LeaseExcludes AdmittedInThisLife
PROPERTIES ImplementsReadersWriters KillGetsIn ArchiveEnds
CHECK_DEADLOCK FALSE
