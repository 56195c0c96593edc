CONSTANTS
  Tags <- TwoTags
  Groups <- TwoGroups
  Capacity = 1
  MayStop = {"a"}
  Kinds <- DataFlush
  MaxItems <- LongShort
SPECIFICATION FairSpec
INVARIANTS TypeOK OrderRestored NeverWaitsInVain
PROPERTY Terminates
