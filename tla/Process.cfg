SPECIFICATION ProcessSpec
CONSTANTS
  Absent = Absent
  Broken = Broken
  None = None
  Unset = Unset
  Compiled = {"mdns-sd", "zeroconf"}
  Relative = {".", "home"}
  MAX_SERVICE_NAME_LEN = 4
  Described <- MCDescribed
  Starts <- MCStarts
  Disks <- MCDisks
  Sources <- MCSources
  Edits <- MCEdits
  MaxEdits = 2
  MaxSignals = 2
INVARIANTS OutcomeIsExplained SignalsAreHonoured
PROPERTY HangupEnds
CHECK_DEADLOCK FALSE
