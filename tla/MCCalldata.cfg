SPECIFICATION Spec
CONSTANTS
  p2 = p2
  q2 = q2
  p3 = p3
  q3 = q3
  r3 = r3
  p4 = p4
  q4 = q4
  pn = pn
  sl = sl
  sm = sm
  sn = sn
  ae = ae
  av = av
  cs = cs
  cu = cu
  cr = cr
  W = W
  E = E
  a = a
  b = b
  alice = alice
  bob = bob
  Pool = {p2, q2, p3, q3, r3, p4, q4, pn, sl, sm, sn, ae, av, cs, cu, cr}
  Asset = {W, E, a, b}
  KindOf <- MCKindOf
  AssetsOf <- MCAssetsOf
  Coins <- MCCoins
  TierOf <- MCTierOf
  CURVE_MAX_HOPS = 5
  WETH = W
  NATIVE = E
  BuiltIn = {p2, q2, p3, q3, r3, p4, q4, pn, sl, sm, sn, ae, av, cs, cu, cr}
  InterfaceOf <- MCInterfaceOf
  CurveEnabled = TRUE
  MaxU128 = 100
  Account = {alice, bob}
  Calls <- MCCalls
  MaxPayout = 3
  Savings = 2
  MaxClock = 3
  TheSender = TheSender
  Nobody = Nobody
  MaxTimestamp = 3
  DEFAULT_TTL_SECS = 2
INVARIANTS
  SavingsUntouched
  NothingStranded
  RevertsForCause
  RouterWalksTheSpan
PROPERTIES
  OneSaleOrNone
CHECK_DEADLOCK FALSE
