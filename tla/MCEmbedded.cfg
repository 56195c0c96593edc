SPECIFICATION EmbeddedSpec
CONSTANTS
  Procs <- MCProcs
  Edges <- MCEdges
  Inputs <- MCInputs
  Outputs <- MCOutputs
  InFreq <- Ones
  Required <- MCEdges
  Core <- MCCore
  Capacity <- Ones
  MayStop = {"ia", "worker"}
  SourceKinds = {}
  MaxSteps = 3
  Queues = {"in", "out"}
  Size = 2
  Elements <- MCElements
  NoElement = NoElement
  Ia = "ia"
  Oa = "oa"
  MaxSets = 3
INVARIANTS
  DeliveredInOrder
  NeverWaitsToDrop
PROPERTIES
  ImplementsFifo
  Ends
  StopReaches
CHECK_DEADLOCK FALSE
