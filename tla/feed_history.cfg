SPECIFICATION FeedSpec
CONSTANTS
  A = A
  B = B
  a0 = a0
  a1 = a1
  a2 = a2
  b0 = b0
  NoBar = NoBar
  NoGroup = NoGroup
  Sessions = {live}
  live = live
  Follows <- MCFollows
  At <- MCAt
  Trades <- MCTrades
  Symbol <- MCSymbol
  Second <- MCSecond
  Known = {A}
  New = {B}
  Resolutions <- MCResolutions
  Width <- MCWidth
  Deployments <- LiveDeployments
  Feed <- LiveFeed
  Cap = 3
  FlushSize = 2
  ReadSize = 2
  MaxRaw = 4
  MaxFaults = 1
CHECK_DEADLOCK FALSE
INVARIANT NoFutureBars
