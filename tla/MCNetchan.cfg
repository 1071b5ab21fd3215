SPECIFICATION FairSpec
CONSTANTS
  whole = whole
  exact = exact
  uneven = uneven
  unfit = unfit
  huge = huge
  Messages = {whole, exact, uneven, unfit, huge}
  MessageLength <- MCMessageLength
  FragmentSize = 3
  FragmentBufferSize = 5
  MsgMaxSize = 5
  PrefixSize = 1
  NoByte = NoByte
  SvPure = TRUE
  FinalMessages = 2
  MaxSequence = 3
INVARIANTS NetchanInv IntactDelivery ReassemblyInBounds
PROPERTIES ImplementsChannel DeliveryOnceStable
CHECK_DEADLOCK FALSE
