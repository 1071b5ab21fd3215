SPECIFICATION FairSpec
CONSTANTS
  score1 = score1
  score2 = score2
  quit = quit
  chat = chat
  Commands = {quit, chat}
  Letter <- MCLetter
  FirstToken <- MCFirstToken
  NoCommand = NoCommand
  DropText = DropText
  IgnorableOf = {chat}
  ReliableOf = {quit}
  WindowSize = 2
  Backlog = 4
  MaxCommands = 3
  MaxInFlight = 1
  MaxLevels = 2
INVARIANT OverrunIsFatal
PROPERTY SentArrives
CHECK_DEADLOCK FALSE
