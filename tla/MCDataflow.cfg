SPECIFICATION SyncSpec
CONSTANTS
  Procs <- BothProcs
  Edges <- BothEdges
  Inputs <- BothInputs
  Outputs <- BothOutputs
  InFreq <- BothInFreq
  Required <- BothEdges
  Core <- BothCore
  Capacity <- BothCapacity
  Pipelines <- BothPipelines
  MayStop = {"left", "sink", "batch"}
  SourceKinds = {"flush", "empty"}
  MaxSteps = 3
INVARIANTS
  TypeOK
  Synchronized
  CompleteIsLast
  CompletePushed
  NothingLeftBehind
  NoWorkForNobody
  TurnNeverBlocks
PROPERTY Terminates
