CONSTANTS
  r1 = r1
  r2 = r2
  Requests = {r1, r2}
  None = None
  MayAsk <- MCMayAsk
  Hosts <- MCHosts
  Redirects <- MCRedirects
  MaxRetries = 1
  MaxParts = 1
SPECIFICATION FairSpec
INVARIANTS AnsweredTruly ChangesSafe  RoutesAsConfigured
PROPERTIES EndsInTime
