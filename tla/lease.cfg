SPECIFICATION FairSpec
CONSTANTS
  w1 = w1
  w2 = w2
  a = a
  b = b
  Workers <- TwoWorkers
  Owner <- OwnNames
  Ttl = 1
  NumSteps = 2
  MaxDeaths = 1
  MaxRaises = 1
  NoLease = NoLease
INVARIANTS
  ExclusiveUnlessRaced
PROPERTIES
  RollbackComesFromOutside
  CompletedEffectsStay
  LeaseFreesItself
