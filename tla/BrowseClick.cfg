SPECIFICATION BrowseSpec
PROPERTIES ClickHitsWhatIsSeen
CONSTANTS
  Entries <- MCEntries
  DisplayOrder <- MCDisplayOrder
  Candidates <- MCCandidates
  Engines <- MCEngines
  Letters = {"x"}
  Sizes <- ClickSizes
  MAX_INPUT_EVENTS_PER_TICK = 2
  MaxQuery = 1
  NoHost = NoHost
  NoArgv = NoArgv
  ssh1 = ssh1
  ssh2 = ssh2
  web1 = web1
  web2 = web2
  web3 = web3
  h1 = h1
