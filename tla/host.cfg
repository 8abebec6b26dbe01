SPECIFICATION FairHost
CHECK_DEADLOCK FALSE
CONSTANTS
  Clients = {t1, t2}
  Limit = 1
  MaxCalls = 3
  MaxChildren = 3
INVARIANTS HostSafe OneProducer NoneLost FlagMeansUntracked
PROPERTIES CrashHealed
