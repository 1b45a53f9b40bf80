SPECIFICATION FairSpec
CONSTANTS
  Runs = {r1, r2}
  Scopes = {s}
  ScopeOf <- OneScope
  Clients = {c1}
  Executors = {e1}
  MaxRunners = 1
  LeaseTicks = 1
  MaxCrashes = 1
  NoRun = NoRun
CONSTRAINT CrashOrRetry
PROPERTIES StartsAreAnswered ImplementsFencedJob
