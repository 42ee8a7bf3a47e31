SPECIFICATION RuleSpec
CONSTANTS
  Word = {"run", "--"}
  Terminator = "--"
  TypedField = {"address", "port"}
  TextField = {"name", "hostname", "service_type", "txt.k"}
  TxtField = {"txt.k"}
  KeyOf <- MCKeyOf
  LowerCase <- MCLowerCase
  Undecoded = Undecoded
  MacSuffix = "[mac]"
  EscapeOf <- MCEscapeOf
  OptionLike = {"-x", "--"}
  Files <- MCFiles
  Reports <- MCReports
  Programs = {"run", "p"}
  MaxAtoms = 3
  MaxArgs = 3
  MaxLive = 2
INVARIANTS ReadAsWritten NothingIsInjected MatchingAgrees RowsTellTheTruth
CHECK_DEADLOCK FALSE
