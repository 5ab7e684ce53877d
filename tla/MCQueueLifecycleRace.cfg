SPECIFICATION Spec
CONSTANTS
  Sender = sender
  Receiver = receiver
  MaxObjects = 2
  MaxMsgs = 2
  Modulus = 4
  MaxSends = 1
  MaxCrashes = 0
CHECK_DEADLOCK FALSE
INVARIANT BothUpMeansSynchronized
