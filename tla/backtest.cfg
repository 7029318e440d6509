SPECIFICATION Spec
CONSTANTS
  X = X
  C = C
  NoBar = NoBar
  NoMark = NoMark
  Broken = Broken
  Symbols <- MCSymbols
  Options <- MCOptions
  Underlying <- MCUnderlying
  Strike <- MCStrike
  Right <- MCRight
  Expiry <- MCExpiry
  Mult <- MCMult
  Scenarios <- MCScenarios
  StartCash <- MCCash
  Slip = 1
  Fee = 1
  OptionFee <- MCOptionFee
  MaxBars = 6
CHECK_DEADLOCK FALSE
INVARIANTS
  TypeOK
  OrderAccounted
  NoFillOutsideLife
  PnlAddsUp
  LongOnlyAccount
  TripsMatchLedger
  LongLedgerAgrees
  WindowTripsHonest
  StopsFollowTheMarket
