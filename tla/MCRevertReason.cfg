SPECIFICATION FairSpec
CONSTANTS
  p1 = p1
  p2 = p2
  p3 = p3
  p4 = p4
  bad = bad
  t1 = t1
  t2 = t2
  t3 = t3
  None = None
  Empty = Empty
  Reason = Reason
  Factory = Factory
  Requests <- MCRequests
  CurvePools <- MCCurvePools
  Parsed <- MCParsed
  StablePools = {p3}
  Absent <- MCAbsent
  Attempts = {0, 1, 4}
  MAX_EXPONENT = 1
  MaxLost = 2
  Reverts = {Empty, Reason}
INVARIANT
  RevertsAreDropped
CHECK_DEADLOCK FALSE
