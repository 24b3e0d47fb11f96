CONSTANTS
  d = d
  Canonical = d
  MaxAwaiting = 1
  Listener = Listener
  Watch = Watch
  Api = Api
  Boot = Boot
  Workers <- AllWorkers
  Actions = {d}
  Duplicates = {d}
  Deliveries = {}
  Reserved = {}
  Watching = TRUE
  Outsiders = FALSE
  EventWindow = 8
  MaxFailures = 0
  MaxJobs = 1
  MaxRequests = 0
  MaxRestarts = 0
SPECIFICATION ReplaySpec
INVARIANTS HashesAreExecuted  ReadyIsSlash
