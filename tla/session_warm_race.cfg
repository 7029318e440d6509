SPECIFICATION LiveSpec
CONSTANTS
  Slots = {a}
  Lifetime <- MCLifetime
  Qty = 1
  MaxBars = 2
  Placing <- EveryBar
  Guarded = FALSE
  Budget <- CrashOnly
  Mix = 1
  NULL = NULL
PROPERTIES RowFollowsBroker
CHECK_DEADLOCK FALSE
