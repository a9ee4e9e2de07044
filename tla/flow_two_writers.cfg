SPECIFICATION Spec
CONSTANTS
  c1 = c1
  c2 = c2
  Callers = {c1, c2}
  MaxAttempts = 1
  QaLimits = {1}
  MaxTests = 1
  MaxEntries = 2
  MaxAborts = 0
  MaxCancels = 1
  ApprovalRequired = FALSE
  OutputsDeclared = FALSE
  AutoApprove = TRUE
  SingleWriter = FALSE
  NoState = NoState
SYMMETRY CallerSymmetry
INVARIANTS
  CompletedStepsArePrefix
  DeadLetterCountedOnce
\* The bounds on entries let the system stop once every call has been made.
CHECK_DEADLOCK FALSE
