SPECIFICATION FairSpec
CONSTANTS
  d1 = d1
  d2 = d2
  j1 = j1
  j2 = j2
  Before = Before
  Gone = Gone
  NoBuilder = NoBuilder
  Deployments = {d1}
  Jobs = {j1}
  DeploymentOf <- OneEach
  Setups <- Single
  health_check_retries = 2
  MaxBuilders = 2
  MaxOps = 2
  MaxFaults = 2
INVARIANT TypeOK
INVARIANT Available
INVARIANT RolledBack
INVARIANT BuilderReleased
PROPERTY RunEnds
CHECK_DEADLOCK FALSE
