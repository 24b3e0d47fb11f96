CONSTANTS
  d = d
  e = e
  Listener = Listener
  Watch = Watch
  Api = Api
  Boot = Boot
  Workers <- AllWorkers
  Actions = {d}
  Duplicates = {d}
  Deliveries = {}
  Reserved = {d}
  Watching = TRUE
  Outsiders = TRUE
  EventWindow = 8
  MaxFailures = 1
  MaxJobs = 1
  MaxRequests = 0
  MaxRestarts = 0
SPECIFICATION ChallengesFair
INVARIANTS CatchIsSlash
PROPERTIES ChallengedIsSettled
