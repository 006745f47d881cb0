SPECIFICATION FairPlayer
CONSTANTS
  Caller = {ui}
  Kinds = {"stream"}
  MaxPlays = 2
  TaskFails = FALSE
  NoPlay = NoPlay
PROPERTIES StopSilences
