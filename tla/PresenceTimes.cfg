SPECIFICATION Spec
CONSTANTS
  PRESENCE_TIMEOUT = 9
  PRESENCE_CHECK = 3
  POLL_INTERVAL = 30
  Lag = 0
INVARIANTS
  TypeOK
  PresentIsWatched
  ShownInTime
  UnloadedIsQuiet
PROPERTIES
  SleepStopsTimer
  PolledAgain
