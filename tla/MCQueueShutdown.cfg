SPECIFICATION Spec
CONSTANTS
  Senders = {s1, s2}
  Receivers = {r1}
  MaxCalls = 5
CHECK_DEADLOCK FALSE
INVARIANTS OneInside CountKept
