SPECIFICATION Spec
CONSTANTS
  BackoffIncrement = 1
  MaxBackoff = 2
  Intervals = {0, 3}
  MaxAttempt = 3
  MaxConnects = 1
  LoopStart = {TRUE, FALSE}
INVARIANTS
  GivingUpIsVisible
