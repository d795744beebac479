SPECIFICATION FairSpec
CONSTANTS
  j1 = j1
  j2 = j2
  Jobs <- TwoJobs
  Refresh = refresh
  Exchange = exchange
  Revoke = revoke
  Users <- TwoJobUsers
  MaxConcurrent = 1
  Spacing = 1
  RequestsPerJob = 1
  MaxThrottleRetries = 1
  MaxRetries5xx = 1
  MaxRetries = 1
  MaxConnections = 2
  MaxRebinds = 1
  MaxRestarts = 1
  MaxEvents = 3
INVARIANTS
  TokenNotOutdated
  TokensOfConnection
  NobodyForgotten
PROPERTIES
  JobsEnd
  CommitsOfThisAccount
  GateKeepsPromise
