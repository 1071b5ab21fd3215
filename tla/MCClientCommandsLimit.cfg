SPECIFICATION Spec
CONSTANTS
  say = say
  vote = vote
  Commands = {say, vote}
  NoCommand = NoCommand
  WindowSize = 4
  Backlog = 6
  MaxCommands = 6
  MaxInFlight = 1
INVARIANT ExecutesIssued
CHECK_DEADLOCK FALSE
