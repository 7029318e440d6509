SPECIFICATION LiveSpec
CONSTANTS
  Slots = {a}
  Lifetime <- MCLifetime
  Qty = 1
  MaxBars = 2
  Placing <- EveryBar
  Guarded = FALSE
  Budget <- LossOnly
  Mix = 1
  NULL = NULL
PROPERTIES LedgerCatchesUp
CHECK_DEADLOCK FALSE
