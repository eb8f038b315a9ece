SPECIFICATION FairSpec
CONSTANTS
  p1 = p1
  p2 = p2
  p3 = p3
  Pullers <- ThreePullers
  MaxUpdates = 4
INVARIANTS
  IInv
  EnoughAwake
  DeliveredOnce
PROPERTIES
  KeepsFairChannel
