SPECIFICATION Spec
CONSTANTS
  a = a
  b = b
  c = c
  Broadcast = 65535
  Node <- Pair
  Short <- PairShort
  Unicasts = {}
  Body = {"text"}
  Services = {2}
  Sizes = {2, 3, 9}
  Dests <- ToAll
  Modes = {FALSE}
  IdSpace = 2
  CountWidth = 256
  MaxChunks = 8
  Timeout = 1
  MaxSend <- ThreeFromA
  Faults = {"lose"}
  MaxFaults = 1
  MaxTime = 0
INVARIANTS TypeOK NoOverrun
PROPERTIES DatagramPromise
