SPECIFICATION FairSpec
CONSTANTS
  Hosts = {h1}
  NoHost = NoHost
  NoSession = NoSession
  Sessions = {1, 2, 3}
  MaxPtys = 2
  maxAttempts = 1
  KillMayFail = FALSE
  maxReconnectAttempts = 1
  maxHeartbeatMisses = 2
  MAX_PENDING_WRITES = 1
  Budgets <- All
INVARIANT TypeOK
INVARIANT StateMatchesSocket
INVARIANT ShowsTerminal
PROPERTY PausedResumes
PROPERTY Reconnects
CHECK_DEADLOCK FALSE

