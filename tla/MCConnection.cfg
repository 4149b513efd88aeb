SPECIFICATION FairSpec
CONSTANTS
  BackoffIncrement = 1
  MaxBackoff = 2
  Intervals <- ServerIntervals
  MaxAttempt = 3
  MaxConnects = 2
  LoopStart = {TRUE, FALSE}
INVARIANTS
  TypeOK
  PollsOverATransport
  PausesGrow
  ExitHasAReason
  HandshakeBeforeLoop
PROPERTIES
  GivesUp
  HandshakeReturns
  DisconnectReturns
  LinkSpec
