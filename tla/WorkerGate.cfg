SPECIFICATION FairSpec
CONSTANTS
  CasMayFail = TRUE
  ConcurrentStop = TRUE
INVARIANTS NeverFails PausedIsQuiet
PROPERTIES PauseReturns ActivatedWorks ShutdownEnds
CHECK_DEADLOCK FALSE
