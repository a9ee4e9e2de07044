SPECIFICATION Spec
CONSTANTS
  t1 = t1
  t2 = t2
  Threads <- TwoThreads
  Keys = {k1}
  NoKey = NoKey
  NoRun = NoRun
  NoAnswer = NoAnswer
  Sequence <- ShortFlow
  MaxRequests = 4
  MaxRaises = 1
INVARIANTS
  CancelStandsUnlessOverwritten
  KeyStartsOnceUnlessInFlight
  ReplyMatchesStore
PROPERTIES
  ProgressIsLostOnlyToStaleSaves
