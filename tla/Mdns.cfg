SPECIFICATION MdnsFairSpec
CONSTANTS
  Registrations = {r1, r2}
  Occurrences = {i1, i2, i3, e1, e2}
  Interfaces = {i1, i2, i3}
  r1 = r1
  r2 = r2
  Pending = Pending
  NoInterface = NoInterface
  Keys <- AllKeys
  Networks <- PureNetworks
  MAX_DISCOVERED_OCCURRENCES = 2
  PROBE_FAILURE_THRESHOLD = 2
  MAX_CONCURRENT_PROBES = 1
  EVENT_CAPACITY = 3
  MaxNews = 4
INVARIANTS ListFollowsTracker DeathIsWitnessed CapNeverReached
PROPERTIES SilentDeathIsNoticed ReturnIsNoticed
