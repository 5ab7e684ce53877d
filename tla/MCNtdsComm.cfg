SPECIFICATION DetailSpec
CONSTANTS
  NumPorts = 2
  Devices = {1, 2}
  Lists <- MCLists
  Readiness = {0}
  MaxCalls = 2
  Senders = {s1}
  Receivers = {r1}
  Names = {n1, n2}
  MaxMesgs = 1
  Callers = {c1, c2, c3}
  SubscribeOf <- MCSubscribeOf
  MaxReceived = 3
CHECK_DEADLOCK FALSE
INVARIANTS RouteThere UpMeansPartner TrafficIsOwn DownAfterExit ReadsOwn
PROPERTY MailArrives
