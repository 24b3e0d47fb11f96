CONSTANTS
  d = d
  e = e
  Listener = Listener
  Watch = Watch
  Api = Api
  Boot = Boot
  Workers <- AllWorkers
  Actions = {d}
  Duplicates = {d}
  Deliveries = {}
  Reserved = {d}
  Watching = FALSE
  Outsiders = FALSE
  EventWindow = 8
  MaxFailures = 0
  MaxJobs = 0
  MaxRequests = 2
  MaxRestarts = 1
  Buttons = {"wallet"}
  MaxVisits = 1
SPECIFICATION ArenaSpec
INVARIANTS SlashShownIsSlash
CONSTRAINT MCPageOpens
