SPECIFICATION Spec
CONSTANTS
  t1 = t1
  t2 = t2
  t3 = t3
  Writers <- SomeWriters
  Process <- SomeProcess
  LockDir <- SomeLockDirs
  Roots <- SomeRoots
  Allowlist <- SomeAllowlist
  Names <- SomeNames
  Documents <- SomeDocuments
  Present <- SomePresent
  Texts = {"x", "y", "key"}
  Secrets = {"key"}
  MaxWrites = 2
  MaxDeaths = 1
SYMMETRY ThreadSymmetry
INVARIANTS
  FilesAreWhole
  WritesStayInScope
  AuditsAreTrueUnlessDeranged
\* Within the bounds the system may come to rest.
CHECK_DEADLOCK FALSE
