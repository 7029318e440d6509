SPECIFICATION Spec
CONSTANTS
  Slots = {a}
  Lifetime <- MCLifetime
  Qty = 1
  MaxBars = 2
  Placing <- EveryBar
  Guarded = TRUE
  Budget <- OneOfEach
  Mix = 2
  NULL = NULL
INVARIANTS TypeOK PersistBeforeSend AdvanceTogether NothingStranded ToldOnce
PROPERTIES BarOnce
CHECK_DEADLOCK FALSE
