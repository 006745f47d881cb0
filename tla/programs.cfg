SPECIFICATION FairPrograms
CONSTANTS
  Focuses = {"player", "recorder", "lua", "ducky", "playlists", "sweep", "key"}
  Caller = {ui}
  Kinds = {"file"}
  MaxPlays = 3
  TaskFails = TRUE
  NoPlay = NoPlay
  Recorders = {ui, lua}
  MaxTakes = 2
  MaxLength = 1
  NoTake = NoTake
  MaxRuns = 2
  Pauses = {"forever", "while"}
  Catchers = {2}
  CreateFails = TRUE
  Scripts <- DuckScripts
  DelayTicks = 2
  DefaultTicks = 1
  MaxDuckCalls = 4
  MaxEntries = 2
  Urls = {groove}
  FirstStations <- NewStations
  MaxLists = 2
  Channels = 2
  WorkerFails = TRUE
  MaxOrders = 5
  PinMax = 4
  BootMax = 2
  MaxCreds = 2
  MaxSigns = 2
INVARIANTS ProgramsTypeOK OneTask PlayingFaithful
INVARIANTS RecordingBacked OneTake HeaderFaithful
INVARIANTS OneScript InterfaceRestored
INVARIANTS FirstIsFavourites ChannelKept
INVARIANTS PinBudget CredentialsKept CountsGrow
PROPERTIES StopSilencesFiles RecordingStops  DelaysKept ConsoleReturns ScansAnswered
CHECK_DEADLOCK FALSE
