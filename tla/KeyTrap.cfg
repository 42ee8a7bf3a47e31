SPECIFICATION KeySpec
CONSTANTS
  Chars <- MCChars
  Codes <- MCCodes
  Modifiers <- MCModifiers
  Configs <- MCConfigs
  Heights = {40}
  MaxQuery = 1
INVARIANT AlwaysQuittable
