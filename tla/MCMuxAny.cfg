SPECIFICATION FairSpec
CONSTANTS
  Groups <- TwoGroups
  Ports <- Opposite
  Policies = {"any"}
  Capacity = 1
  Kinds = {"data"}
  MaxItems <- Items_each
  Most = 1
  MayStop = {}
CHECK_DEADLOCK FALSE
PROPERTY AnyCompletes
