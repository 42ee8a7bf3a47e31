SPECIFICATION SpecNativeMayHang
CONSTANTS
  Adapters = {"mdns"}
  Types = {}
  EVENT_CAPACITY = 2
  MaxSessions = 2
  MaxEvents = 2
  MAX_EVENTS_PER_TICK = 2
PROPERTIES JoinIsBounded
