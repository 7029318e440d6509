SPECIFICATION LiveSpec
CONSTANTS
  Slots = {a}
  Lifetime <- MCLifetime
  Qty = 2
  MaxBars = 2
  Placing <- FirstBar
  Guarded = FALSE
  Budget <- CrashOrDeaf
  Mix = 2
  NULL = NULL
PROPERTIES PendingResolved RowCatchesUp
CHECK_DEADLOCK FALSE
