SPECIFICATION SignalSpec
CONSTANTS
  listen1 = listen1
  listen2 = listen2
  Loop = Loop
  Free = Free
  Consumers <- MCTwoConsumers
  MaxMessages = 4
  Payloads = {0, 1, 3}
INVARIANTS
  TypeOK
  QueueIsGuarded
  NothingIsLost
  EveryMessageHasATaker
  NullOnlyWhenLate
PROPERTIES
  MailboxSpec
  EveryMessageIsTaken
