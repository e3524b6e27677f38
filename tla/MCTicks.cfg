SPECIFICATION Spec
CONSTANTS
  k1 = k1
  k2 = k2
  k3 = k3
  k4 = k4
  one = one
  hooked = hooked
  x = x
  y = y
  z = z
  Asset = {x, y, z}
  Hooked = {hooked}
  None = None
  MinTick <- MCMinTick
  MaxTick = 6
  Unit = 2
  WordBits = 2
  Spacing = 2
  MaxI256 = 5000
  MaxLiquidity = 6
  Asks <- MCAsks
  PoolId = {one, hooked, k1, k2, k3, k4}
  Chain <- MCChain
  Requests <- MCRequests
  Parsed = {one, hooked, k1, k3, k4}
  TwoAssets = {one, hooked, k1, k2, k3}
  TickWindow = 1
  NextChains <- MCNextChains
  MaxLost = 2
INVARIANT
  TypeOK
  LoopKeepsTrack
  QuotesAsTheChain
  RefusesForCause
  MaxIsCapacity
  EachItsOwn
  OneBadPoolSinksNoOther
PROPERTY
  LoopMovesOn
CHECK_DEADLOCK FALSE
