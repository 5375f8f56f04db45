SPECIFICATION FairSpec
CONSTANTS
  Sessions = {s1}
  MaxPtys = 3
  Hosts = {h1}
  maxAttempts = 2
  KillMayFail = TRUE
  Budgets <- Mixed
  NoHost = NoHost
  NoSession = NoSession
INVARIANT TypeOK
INVARIANT OneTerminal
PROPERTY SessionReaped
CHECK_DEADLOCK FALSE
