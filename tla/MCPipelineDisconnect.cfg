CHECK_DEADLOCK FALSE
SPECIFICATION Spec
CONSTANTS
  Procs <- FourProcs
  Clusters = {"box", "inner"}
  Outputs <- AllOutputs
  Inputs <- AllInputs
  Owner <- Owners
  Mapping <- Mappings
  Declared <- DeclaredTypes
  Tag <- Tags
  NoTag = "none"
  Provides <- DepProvides
  Redeclares = {"source", "filter"}
  Const = {}
  Shared = {"source.num"}
  Mutable = {"sink.num"}
  Nodep = {}
  Required = {"sink.num"}
  Wanted <- WantedConnections
  MayDisconnect <- Pinned
  MaxPlanned = 4
  MaxResets = 0
INVARIANT StaysDisconnected
