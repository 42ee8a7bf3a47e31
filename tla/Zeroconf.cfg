SPECIFICATION ZeroconfSpec
CONSTANTS
  Registrations = {r1, r2}
  Occurrences = {e1, e2}
  Pending = Pending
  MAX_DISCOVERED_OCCURRENCES = 3
  EVENT_CAPACITY = 3
  MaxReports = 5
INVARIANTS ListFollowsReports WithinLimit CapNoticeIsTrue
PROPERTIES ReopensOnlyWithRoom
