SPECIFICATION FairSpec
CONSTANTS
  Senders = {s1, s2}
  Receivers = {r1, r2}
  MaxMsgs = 2
  Modulus = 8
  MaxCalls = 4
  NoMsg = NoMsg
INVARIANTS TypeOK TokenBalance MisreadOnlyAfterOverflow RingHoldsBacklog LeaveInOrder
PROPERTIES KeepsPromise AcceptedLeaves
