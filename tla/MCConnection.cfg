\* Times are in ticks; the defaults of the code in seconds are 3 for the reconnect
\* limit, 2 for zombies, 240 and 45 for the server's time limits, 3 for the quiet
\* time and 40 for the client's time limit.
SPECIFICATION Spec
CONSTANTS
  MaxSlots = 2
  MaxDelay = 1
  ReconnectLimit = 3
  ZombieTime = 2
  Timeout = 4
  ConnectTimeout = 3
  TimeoutFrames = 1
  QuietTime = 1
  ClientTimeout = 2
  MaxAttempts = 2
INVARIANTS ConnectionInv InTheGameTogether SlotFreed
PROPERTIES SessionKept
CHECK_DEADLOCK FALSE
