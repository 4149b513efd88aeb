SPECIFICATION FairSpec
CONSTANTS
  listen1 = listen1
  Loop = Loop
  Free = Free
  Consumers <- MCConsumers
  MaxMessages = 3
  Payloads = {0, 1, 2}
  MaxConnects = 2
INVARIANTS
  TypeOK
  DispatchesInOrder
  ListenDrainsTheInbox
  StateAtTheEnd
PROPERTIES
  EveryMessageIsDispatched
  ListeningEnds
