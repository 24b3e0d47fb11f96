CONSTANTS
  k1 = k1
  t1 = t1
  t2 = t2
  v1 = v1
  p1 = p1
  p2 = p2
  Keys = {k1}
  Pool = Pool
  RunCalls = 2
  Budget = 3
  Hour = 2
  Ttl = 2
  Life = 2
  Target = 1
  MaxDelay = 2
  MaxArmRequests = 2
  MaxFailures = 1
  MaxRestarts = 1
  MaxEvents = 1
  MaxWrites = 2
  MaxQueued = 1
  MaxCrashes = 1
  Watched <- WatchedAccounts
  Motes <- Balances
  OperatingFloor = 1
  OperatingTarget = 3
  AlertFloor = 4
  GasTarget = 2
  GasReserve = 1
  SubaccountTarget = 2
  MinimumTransfer = 1
  MaxSpent = 2
  MaxLosses = 1
  Transfers = {t1, t2}
  MaxRequests = 2
  MaxScore = 1
  MaxLost = 2
  Visitors = {v1}
  Targets = {p1, p2}
  Limits <- RateLimits
  Minute = 2
  MaxTime = 3
  MaxRefused = 1
  MaxAnalyses = 1
  Approved = 600
  MaxRuns = 2
  MaxTimeouts = 1
  MaxOthers = 1
  MaxJobs = 2
  MaxStops = 2
SPECIFICATION Spec
INVARIANTS KeyArmsOnce HourWithinBudget FilesAreLatest OneAnswerPerPayment RateHolds ReportIsSlash FileIsOneSuite
PROPERTIES ReadyPoolFills StreamIsReconciled WatchedIsFunded
CHECK_DEADLOCK FALSE
