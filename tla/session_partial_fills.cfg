SPECIFICATION Spec
CONSTANTS
  Slots = {a}
  Lifetime <- MCLifetime
  Qty = 2
  MaxBars = 2
  Placing <- EveryBar
  Guarded = FALSE
  Budget <- CrashOrDup
  Mix = 1
  NULL = NULL
INVARIANTS LedgerSound ClosedMeansCancelled
PROPERTIES NoLateSend ImplementsOrderBook
CHECK_DEADLOCK FALSE
