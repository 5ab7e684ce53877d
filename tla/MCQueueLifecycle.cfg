SPECIFICATION FairSpec
CONSTANTS
  Sender = sender
  Receiver = receiver
  MaxObjects = 2
  MaxMsgs = 1
  Modulus = 4
  MaxSends = 2
  MaxCrashes = 1
CHECK_DEADLOCK FALSE
INVARIANTS SharedDataUnlessTorn TokensMatch UpUnlessOverlapped
PROPERTY TimedCallsReturn
