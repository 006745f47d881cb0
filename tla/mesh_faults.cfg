SPECIFICATION Spec
CONSTANTS
  a = a
  b = b
  c = c
  Broadcast = 65535
  Node <- Pair
  Short <- PairShort
  Unicasts = {}
  Body = {"text", "pop"}
  Services = {15}
  Sizes = {2}
  Dests <- ToAll
  Modes = {FALSE}
  IdSpace = 255
  CountWidth = 256
  MaxChunks = 8
  Timeout = 1
  MaxSend <- TwoFromA
  Faults = {"create", "stop", "unregister", "reboot"}
  MaxFaults = 2
  MaxTime = 1
INVARIANTS StopLeavesOnlyLate
