SPECIFICATION Spec
CONSTANTS
  Senders = {s1, s2}
  Receivers = {r1}
  MaxMsgs = 2
  Modulus = 8
  MaxCalls = 4
  NoMsg = NoMsg
INVARIANT ReturnsOnlyQueuedMessages
