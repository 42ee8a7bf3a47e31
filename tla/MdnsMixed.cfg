SPECIFICATION MdnsSpec
CONSTANTS
  Registrations = {r1}
  Occurrences = {i1, e1}
  Interfaces = {i1}
  r1 = r1
  r2 = r2
  Pending = Pending
  NoInterface = NoInterface
  Keys <- MixedKeys
  Networks <- MixedNetworks
  MAX_DISCOVERED_OCCURRENCES = 4
  PROBE_FAILURE_THRESHOLD = 2
  MAX_CONCURRENT_PROBES = 2
  EVENT_CAPACITY = 3
  MaxNews = 4
INVARIANTS RemovalIsRemembered
