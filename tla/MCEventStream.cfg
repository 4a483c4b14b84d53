CONSTANTS
  Sessions = {s1, s2}
  NoSession = NoSession
  Slots = 1
  MaxRuns = 2
  MaxCrashes = 1
  MaxBreaks = 1
  MaxDecided = 1
SPECIFICATION StreamSpec
INVARIANTS
  ClientMissesNothing
PROPERTIES
  ImplementsPromise
  TurnsEnd
  WatcherHearsOutcome
CHECK_DEADLOCK FALSE
