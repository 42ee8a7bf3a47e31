SPECIFICATION ZeroconfSpec
CONSTANTS
  Registrations = {r1, r2}
  Occurrences = {e1, e2}
  Pending = Pending
  MAX_DISCOVERED_OCCURRENCES = 2
  EVENT_CAPACITY = 3
  MaxReports = 5
INVARIANTS NeverSilentlyIncomplete
