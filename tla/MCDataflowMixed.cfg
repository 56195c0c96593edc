SPECIFICATION SyncSpec
CONSTANTS
  Procs <- MixedProcs
  Edges <- MixedEdges
  Inputs <- MixedInputs
  Outputs <- MixedOutputs
  InFreq <- MixedInFreq
  Required <- MixedEdges
  Core <- MixedCore
  Capacity <- MixedCapacity
  Pipelines <- MixedPipeline
  MayStop = {}
  SourceKinds = {}
  MaxSteps = 4
INVARIANT Synchronized
