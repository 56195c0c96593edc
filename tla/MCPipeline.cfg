CHECK_DEADLOCK FALSE
SPECIFICATION FairSpec
CONSTANTS
  Procs <- FourProcs
  Clusters = {"box", "inner"}
  Outputs <- AllOutputs
  Inputs <- AllInputs
  Owner <- Owners
  Mapping <- Mappings
  Declared <- DeclaredTypes
  Tag <- Tags
  NoTag = "none"
  Provides <- DepProvides
  Redeclares = {"source", "filter"}
  Const = {}
  Shared = {"source.num"}
  Mutable = {"sink.num"}
  Nodep = {}
  Required = {"sink.num"}
  Wanted <- WantedConnections
  MayDisconnect <- TakenBack
  MaxPlanned = 4
  MaxResets = 1
INVARIANTS TypeOK NothingLost SharingRespected VerdictByTypes
PROPERTY SetupEnds
