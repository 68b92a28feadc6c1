SPECIFICATION SetupSpec
CONSTANTS
  Browsers <- OneBrowser
  Names <- OneName
  LastPage = 6
  MaxSetupTokens = 1
  MaxStarts = 1
  MaxMishaps = 0
CHECK_DEADLOCK FALSE
INVARIANT NoPageRefused
