SPECIFICATION Spec
CONSTANTS
  score1 = score1
  score2 = score2
  quit = quit
  chat = chat
  Commands = {score1, score2, quit, chat}
  Letter <- MCLetter
  FirstToken <- MCFirstToken
  NoCommand = NoCommand
  DropText = DropText
  IgnorableOf = {}
  ReliableOf = {quit}
  WindowSize = 4
  Backlog = 4
  MaxCommands = 4
  MaxInFlight = 1
  MaxLevels = 1
INVARIANT NothingForgotten
CHECK_DEADLOCK FALSE
