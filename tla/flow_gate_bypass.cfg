SPECIFICATION Spec
CONSTANTS
  c1 = c1
  Callers = {c1}
  MaxAttempts = 1
  QaLimits = {1}
  MaxTests = 1
  MaxEntries = 2
  MaxAborts = 0
  MaxCancels = 0
  ApprovalRequired = TRUE
  OutputsDeclared = TRUE
  AutoApprove = FALSE
  SingleWriter = TRUE
  NoState = NoState
INVARIANTS
  PlanGateIsNotBypassed
\* The bounds on entries let the system stop once every call has been made.
CHECK_DEADLOCK FALSE
