SPECIFICATION FairSpec
CONSTANTS
  say = say
  vote = vote
  Commands = {say, vote}
  NoCommand = NoCommand
  WindowSize = 3
  Backlog = 3
  MaxCommands = 5
  MaxInFlight = 2
INVARIANTS ClientInv ExecutesIssued KeysAgree KeptUntilExecuted
PROPERTY IssuedIsExecuted
CHECK_DEADLOCK FALSE
