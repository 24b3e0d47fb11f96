CONSTANTS
  e = e
  Listener = Listener
  Watch = Watch
  Workers <- BothWorkers
  Actions = {e}
  Duplicates = {}
  Deliveries = {e}
  Reserved = {}
  Asked = {e}
  Watching = TRUE
  Outsiders = TRUE
  EventWindow = 8
  MaxFailures = 1
SPECIFICATION ReceiptsFair
INVARIANTS OutcomeIsFinal
PROPERTIES ProjectionCatchesUp ExpiredIsResolved CandidateIsTried
