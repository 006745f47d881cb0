SPECIFICATION FairSpec
CONSTANTS
  a = a
  b = b
  c = c
  Broadcast = 65535
  Node <- Trio
  Short <- TrioShort
  Unicasts = {a}
  Body = {"text"}
  Services = {2}
  Sizes = {2}
  Dests <- ToAllOrB
  Modes = {FALSE}
  IdSpace = 255
  CountWidth = 256
  MaxChunks = 8
  Timeout = 1
  MaxSend <- OneEach
  Faults = {"fail"}
  MaxFaults = 1
  MaxTime = 0
INVARIANTS WholePackets ArpFaithful
PROPERTIES EventuallyDelivered
