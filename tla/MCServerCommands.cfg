SPECIFICATION Spec
CONSTANTS
  score1 = score1
  score2 = score2
  quit = quit
  chat = chat
  Commands = {score1, quit, chat}
  Letter <- MCLetter
  FirstToken <- MCFirstToken
  NoCommand = NoCommand
  DropText = DropText
  IgnorableOf = {chat}
  ReliableOf = {score1, quit}
  WindowSize = 4
  Backlog = 3
  MaxCommands = 5
  MaxInFlight = 1
  MaxLevels = 1
INVARIANTS ServerInv RingHoldsWindow MessagesAgree NothingForgotten KeysAgree
PROPERTIES SentIsFinal ExecutesWhatWasSent
CHECK_DEADLOCK FALSE
