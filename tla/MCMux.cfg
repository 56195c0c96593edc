SPECIFICATION FairSpec
CONSTANTS
  Groups <- TwoGroups
  Ports <- Opposite
  Policies = {"any", "all"}
  Capacity = 1
  Kinds = {"data"}
  MaxItems <- Items_each
  Most = 3
  MayStop = {"num"}
INVARIANT MuxedInOrder
PROPERTY Terminates
CHECK_DEADLOCK FALSE
