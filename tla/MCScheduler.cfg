SPECIFICATION FairSpec
CONSTANTS
  Clients = {c1, c2}
  NoClient = NoClient
  Calls = {"start", "wait", "pause", "resume", "stop"}
  Length = 2
  MaxRuns = 1
INVARIANTS TypeOK PausedMeansStill PauseLockOwned TrackingNeverFails
PROPERTY StopTakesEffect
CHECK_DEADLOCK FALSE
