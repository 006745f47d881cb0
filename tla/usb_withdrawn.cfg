SPECIFICATION FairHost
CONSTANTS
  MaxPlugs = 2
  MaxLoops = 1
  QueueSize = 2
PROPERTIES PortWithdrawn
CHECK_DEADLOCK FALSE
