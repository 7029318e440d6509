SPECIFICATION Spec
CONSTANTS
  s1 = s1
  r1 = r1
  r2 = r2
  Sessions = {s1}
  Runners = {r1}
  Owner <- FirstShard
  Budget <- HaltAndCrash
PROPERTIES HaltIsFinal
CHECK_DEADLOCK FALSE
