SPECIFICATION KeySpec
CONSTANTS
  Chars <- MCChars
  Codes <- MCCodes
  Modifiers <- MCModifiers
  Configs <- MCConfigs
  Heights = {16, 17, 40}
  MaxQuery = 1
INVARIANTS KeyMeansOneAction AdvertisedKeysWork BrowseCanLeave HelpWindowIsFull
PROPERTY NothingIsBanked
