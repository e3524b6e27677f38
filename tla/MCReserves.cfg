SPECIFICATION Spec
CONSTANTS
  BPS_ONE = 10
  E18 = 16
  NewtonSteps = 20
  Refused = Refused
  PROBE = 3
  CurveOut <- MCCurveOut
  CurveIn <- MCCurveIn
  CurveSpot <- MCCurveSpot
  MaxInput = 60
  None = None
  Pools <- MCPools
  Amounts = {0, 1, 2, 3, 5, 8, 12}
  MaxReserve = 12
INVARIANTS
  QuoteIsBest
  ExactOutReaches
  NoLessWillDo
  NoRoundTripGain
  SearchBrackets
  ImpactIsTheLoss
CHECK_DEADLOCK FALSE
