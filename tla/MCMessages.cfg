SPECIFICATION FairSpec
CONSTANTS
  caller1 = caller1
  both = both
  logger = logger
  Callers <- MCCallers
  Loop = Loop
  Listener = Listener
  Exts <- MCExts
  Incoming <- MCExts
  Outgoing <- MCOutgoing
  MaxRequests = 2
  MaxPayload = 2
INVARIANTS
  TypeOK
  IdsRepeatOnlyInARace
  EveryMessageHasOnePlace
  PayloadsAreSplit
  ExtensionsSeeEachMessage
PROPERTIES
  EveryMessageIsHandled
CHECK_DEADLOCK FALSE
