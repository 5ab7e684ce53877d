SPECIFICATION Spec
CONSTANTS
  Clients = {c1, c2}
  First = c1
  MaxMsgs = 2
  MaxCalls = 4
  NoMsg = NoMsg
  Free = Free
CHECK_DEADLOCK FALSE
INVARIANT OneInside
