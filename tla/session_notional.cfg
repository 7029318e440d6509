SPECIFICATION Spec
CONSTANTS
  Slots = {a}
  Lifetime <- MCLifetime
  Qty = 1
  MaxBars = 2
  Placing <- EveryBar
  Guarded = FALSE
  Budget <- DbOnly
  Mix = 1
  NULL = NULL
PROPERTIES NoLateSend
CHECK_DEADLOCK FALSE
