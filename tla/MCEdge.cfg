SPECIFICATION FairSpec
CONSTANTS
  Capacity = 2
  Blocking = FALSE
  MaxPushes = 4
  MaxPeeks = 2
INVARIANTS
  TypeOK
  InOrderDelivery
  NoControlLost
  PeekedIsNext
  AtMostOneLateDatum
  NoLostWakeup
PROPERTIES
  AbstractSpec
