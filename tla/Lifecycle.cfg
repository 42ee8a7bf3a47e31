SPECIFICATION FairSpec
CONSTANTS
  Adapters = {"mdns", "fake", "zeroconf"}
  Types = {t1, t2}
  EVENT_CAPACITY = 1
  MaxSessions = 2
  MaxEvents = 2
  MAX_EVENTS_PER_TICK = 1
INVARIANTS IInv DeliveryIsLossless OneProducer HandOffAfterJoin EndingIsExplained OverloadFailsClosed CancelledEndingUnseen
PROPERTIES ImplementsFeed OverloadIsReported EndingIsNoticed ShutdownReturns
