SPECIFICATION FairTime
CONSTANTS
  Provider = "espidf"
  Base = 2
  Doublings = 1
  MaxInterval = 4
  Refresh = 5
  RetryCap = 2
  RoundTrip = 2
  Poll = 3
  Supplies = {{"server"}}
  Kept = TRUE
  MaxPresses = 0
PROPERTIES RefreshSucceeds
