SPECIFICATION Spec
CONSTANTS
  whole = whole
  exact = exact
  uneven = uneven
  unfit = unfit
  huge = huge
  Messages = {whole, exact, uneven}
  MessageLength <- MCMessageLength
  FragmentSize = 3
  FragmentBufferSize = 5
  MsgMaxSize = 5
  PrefixSize = 1
  NoByte = NoByte
  SvPure = TRUE
  FinalMessages = 0
  MaxSequence = 3
INVARIANT OneMessageRebuilt
CHECK_DEADLOCK FALSE
