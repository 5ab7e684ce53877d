SPECIFICATION ThreadsSpec
CONSTANTS
  Capacities = {1, 2, 3, 4}
  MAX_MSG_COUNT = 4
  MaxMsgs = 7
  QtCapacities = {1, 2}
  MaxSessions = 2
  MaxNumber = 3
  Kinds = {"output", "input", "timer"}
  MaxStarts = 2
  MaxPosted = 2
  Federates = {f1, f2}
  Handlers = {h1, h2}
  PostOffices = {o1, o2}
  NoObject = NoObject
CHECK_DEADLOCK FALSE
INVARIANTS NothingLost InSequence OneSessionAccepts PassedOnce LinksAgree
PROPERTIES Delivered Served EveryStopEnds
