SPECIFICATION Spec
CONSTANTS
  a = a
  b = b
  c = c
  Broadcast = 65535
  Node <- Pair
  Short <- PairShort
  Unicasts = {}
  Body = {"text"}
  Services = {7, 8, 15}
  Sizes = {1}
  Dests <- ToAll
  Modes = {TRUE}
  IdSpace = 255
  CountWidth = 256
  MaxChunks = 8
  Timeout = 1
  MaxSend <- OneFromA
  Faults = {}
  MaxFaults = 0
  MaxTime = 0
INVARIANTS ServiceRouted
