SPECIFICATION ProtocolSpec
CONSTANTS
  NumPorts = 2
  Devices = {1, 2, 3}
  Lists <- MCLists
  Readiness <- MCReadiness
  MaxCalls = 3
  MaxInits = 2
CHECK_DEADLOCK FALSE
INVARIANTS TablePacked RoutesComplete UpIfOneViable PortWasGiven ChannelAsGiven SpsAgrees
