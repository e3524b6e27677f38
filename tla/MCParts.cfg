SPECIFICATION Spec
CONSTANTS
  u2 = u2
  u3 = u3
  cv = cv
  ae = ae
  xx = xx
  a = a
  b = b
  c = c
  Pool = {u2, u3, cv, ae, xx}
  Asset = {a, b, c}
  KindOf <- MCKindOf
  AssetsOf <- MCAssetsOf
  CURVE_MAX_HOPS = 2
  MaxPools = 4
  BPS_ONE = 10
  MaxRaw = 100
  MaxQuote = 25
  MaxTol = 12
  MaxHops = 4
  FeeTiers <- MCFeeTiers
  TickSpacings <- MCTickSpacings
  MaxI24 = 100
  V2Fee = 30
  Configured <- MCConfigured
  HasFactory = {"UniswapV2", "Aerodrome", "UniswapV3", "Slipstream"}
  NoPool = NoPool
  NoFactory = NoFactory
  Tokens = {1, 2, 3}
  MaxAssets = 3
  PriceBits = 2
  TickBits = 3
  HalfFeeBits = 3
  LiquidityBits = 3
  FEE_UNIT = 12
  Q96 = 8
  MinSqrt = 1
  MaxSqrt = 30
  NotInPool = NotInPool
  MaxRatio = 20
  Managers <- MCManagers
  Spacings = {1, 2}
  MaxWindow = 2
INVARIANTS
  SpansPartitionRoute
  FewestTransactions
  CompoundIsTight
  GuardsBracketQuote
  FindsEveryPoolOnce
  KeysFitTheirPools
  ReadsItsOwnStorage
  LimitMeansItsPrice
CHECK_DEADLOCK FALSE
