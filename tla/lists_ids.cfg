SPECIFICATION SpecPrograms
CONSTANTS
  Focuses = {"playlists"}
  Caller = {ui}
  Kinds = {"file"}
  MaxPlays = 3
  TaskFails = TRUE
  NoPlay = NoPlay
  Recorders = {ui, lua}
  MaxTakes = 2
  MaxLength = 1
  NoTake = NoTake
  MaxRuns = 3
  Pauses = {"forever", "while"}
  Catchers = {2}
  CreateFails = TRUE
  Scripts <- DuckScripts
  DelayTicks = 2
  DefaultTicks = 1
  MaxDuckCalls = 4
  MaxEntries = 2
  Urls = {groove, ibiza}
  FirstStations <- NewStations
  MaxLists = 3
  Channels = 2
  WorkerFails = TRUE
  MaxOrders = 5
  PinMax = 4
  BootMax = 2
  MaxCreds = 2
  MaxSigns = 2
INVARIANTS IdsUnique
