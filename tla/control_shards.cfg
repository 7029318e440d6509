SPECIFICATION LiveSpec
CONSTANTS
  s1 = s1
  r1 = r1
  r2 = r2
  Sessions = {s1}
  Runners = {r1, r2}
  Owner <- FirstShard
  Budget <- TwoCrashes
INVARIANTS TypeOK OneTrader RunningIsTraded
PROPERTIES RunningResumed
CHECK_DEADLOCK FALSE
