SPECIFICATION VariantsSpec
CONSTANTS
  Clients = {c1, c2}
  First = c1
  MaxMsgs = 2
  MaxCalls = 4
  NoMsg = NoMsg
  Free = Free
  Users = {u1, u2}
  maxMsgs = 2
  FirstValues = {1, 2}
  LaterValues = {1, 2, 3}
  MaxAdds = 3
  MaxDeaths = 1
  CountSize = 8
CHECK_DEADLOCK FALSE
INVARIANTS BacklogKept MetPartner StoreKept
PROPERTY RemovedOnlyByLast
