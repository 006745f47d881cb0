SPECIFICATION FairLinks
CONSTANTS
  Focuses = {"ssh", "port", "host", "dongle", "player"}
  Caller = {ui, lua}
  Kinds = {"stream"}
  MaxPlays = 2
  TaskFails = TRUE
  NoPlay = NoPlay
  MaxSessions = 2
  MaxBlocks = 2
  MaxExecs = 1
  FifoSize = 2
  Capacity = 2
  Lengths <- PortLengths
  MaxPayload = 2
  MaxBurst = 2
  MaxStrays = 1
  MaxPlugs = 3
  MaxLoops = 2
  QueueSize = 2
  MaxCalls = 2
  MaxPackets = 1
INVARIANTS LinksTypeOK OneReader FreshOutput FramesFaithful Recovers
INVARIANTS SessionBacked RadioListens AnswersMatch
PROPERTIES TerminalReturns DeviceNoticed QuietAfterStop
CHECK_DEADLOCK FALSE
