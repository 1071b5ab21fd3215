SPECIFICATION Spec
CONSTANTS
  main = main
  worker = worker
  Threads = {main, worker}
  Nobody = Nobody
  MayDo <- MCMayDo
  MaxDepth = 1
  MaxRare = 0
INVARIANT NothingLeaked
CHECK_DEADLOCK FALSE
