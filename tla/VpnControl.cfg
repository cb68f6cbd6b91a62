\* Two rekeys, two pushes, or one of each; three datagrams on their way to the client; a window
\* of two messages and fewer acknowledgements than messages, so that all limits are met.
CONSTANTS
  MaxEpoch = 2
  Flight = 1
  Unasked = 2
  MaxFlight = 3
  SendAckMax = 2
  AckOnlyMax = 3
  AckSize = 3
  Capacity = 2
  KeyIDMask = 3
SPECIFICATION FairSpec
INVARIANTS
  TypeOK
  AckedWasReceived
PROPERTIES
  StreamInOrder
  OneEpochPerReset
  RekeysEnd
  MessagesAcknowledged
\* The last epoch ends with nothing left to do.
CHECK_DEADLOCK FALSE
