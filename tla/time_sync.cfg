SPECIFICATION FairTime
CONSTANTS
  Provider = "espidf"
  Base = 2
  Doublings = 1
  MaxInterval = 4
  Refresh = 4
  RetryCap = 2
  RoundTrip = 3
  Poll = 2
  Supplies = {{"server"}, {"tower"}}
  Kept = FALSE
  MaxPresses = 1
INVARIANTS RetriesSpaced
PROPERTIES KeepsTrying EventuallySet
