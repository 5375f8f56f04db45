SPECIFICATION Spec
CONSTANTS
  d1 = d1
  d2 = d2
  j1 = j1
  j2 = j2
  Before = Before
  Gone = Gone
  NoBuilder = NoBuilder
  Deployments = {d1, d2}
  Jobs = {j1, j2}
  DeploymentOf <- OneEach
  Setups <- Pairs
  health_check_retries = 1
  MaxBuilders = 1
  MaxOps = 1
  MaxFaults = 0
INVARIANT SingleVersion
INVARIANT RolledBack
INVARIANT BuilderReleased
CHECK_DEADLOCK FALSE
