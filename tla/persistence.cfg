SPECIFICATION Spec
CONSTANTS
  Runs = {r1}
  Attempts = {a1, a2}
  States = {s1, s2}
  Backends = {"sqlite", "postgres"}
  Generators = {"sequential", "random"}
  Projectors = {p1, p2}
  MaxOperations = 4
  MaxEvents = 3
  MaxRestarts = 1
  MaxDeaths = 1
INVARIANTS
  OnlyReusedIdsAreLost
  LinesRepeatOnlyAfterARace
PROPERTIES
  ImplementsMemoryAdapters
\* Within the bounds the system may come to rest.
CHECK_DEADLOCK FALSE
