SPECIFICATION FairSpec
CONSTANTS
  Calls = {n1, n2}
  NoCall = NoCall
  RETRY_MAX_ATTEMPTS = 2
  HTTP_TIMEOUT = 1
  RETRY_BASE_DELAY = 1
  RETRY_MAX_DELAY = 1
  RETRY_JITTER = 1
  CIRCUIT_BREAKER_FAILURE_THRESHOLD = 1
  CIRCUIT_BREAKER_RESET_TIMEOUT = 4
  Remaining <- MCRemaining
  SHUTDOWN_TIMEOUT = 4
  READINESS_CHECK_TIMEOUT = 1
  PoolSize = 1
  Faults <- AllFaults
  MAX_HUNG = 1
  Probers = {n2}
INVARIANTS
  IInv
  CallsEndInTime
  DependenciesOutliveRequests
  ForcedExitIsExplained
PROPERTIES
  ShutdownEnds
