SPECIFICATION FairSpec
CONSTANTS
  Clients = {c1}
  NoClient = NoClient
  Calls = {"start", "pause", "resume"}
  Length = 2
  MaxRuns = 1
PROPERTY PauseTakesEffect
CHECK_DEADLOCK FALSE
