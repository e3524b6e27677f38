SPECIFICATION Spec
CONSTANTS
  p2 = p2
  p3 = p3
  p4 = p4
  pn = pn
  cs = cs
  cu = cu
  ae = ae
  sl = sl
  xx = xx
  zz = zz
  W = W
  E = E
  a = a
  b = b
  alice = alice
  bob = bob
  None = None
  Pool = {p2, p3, p4, pn, cs, cu, ae, sl, xx, zz}
  Asset = {W, E, a, b}
  KindOf <- MCKindOf
  AssetsOf <- MCAssetsOf
  CURVE_MAX_HOPS = 5
  BPS_ONE = 10
  MaxRaw = 12
  Quote <- MCQuote
  QuoteExactOut <- MCQuoteExactOut
  HasExactOut = {p2, p3, p4, pn, cs, cu, ae, sl}
  WETH = W
  NATIVE = E
  BuiltIn = {p2, p3, p4, pn, cs, cu, ae, sl}
  InterfaceOf <- MCInterfaceOf
  CurveEnabled = TRUE
  MaxU128 = 11
  Account = {alice, bob}
  Sender = alice
  Requests <- MCRequests
  Savings = 0
  MaxSurplus = 3
  MaxClock = 2
INVARIANT
  StrictProvenByPlan
CHECK_DEADLOCK FALSE
