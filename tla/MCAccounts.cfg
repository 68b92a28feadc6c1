SPECIFICATION AccountsSpec
CONSTANTS
  t1 = t1
  root = root
  deputy = deputy
  guest = guest
  r1 = r1
  r2 = r2
  Tokens <- OneToken
  Emails <- ThreeEmails
  Earlier <- RootAndDeputy
  MaxAdmins = 4
  Requests <- TwoRequests
  BatchSize = 2
  MaxBatches = 2
  MaxPasskeys = 1
  Calls <- TwoRequests
  Handlers <- TwoRequests
  MaxSessions = 2
  MaxPasswords = 2
  MaxResets = 1
  Browsers <- TwoRequests
  Names <- TwoNames
  LastPage = 3
  MaxSetupTokens = 2
  MaxStarts = 2
  MaxMishaps = 1
SYMMETRY Symmetry
CHECK_DEADLOCK FALSE
INVARIANTS InviteOnce TwoFactorHasKeys ShownKeysWork ResetEndsSessions OneSessionPerLogin
INVARIANTS OneSetupAdmin SetupPossible
PROPERTIES RevokedCreatesNothing KeyUsedOnce
