SPECIFICATION Spec
CONSTANTS
  c1 = c1
  Callers = {c1}
  MaxAttempts = 1
  QaLimits = {1, 2}
  MaxTests = 1
  MaxEntries = 3
  MaxAborts = 1
  MaxCancels = 1
  ApprovalRequired = TRUE
  OutputsDeclared = TRUE
  AutoApprove = FALSE
  SingleWriter = TRUE
  NoState = NoState
INVARIANTS
  PersistedStatusIsExplained
  FirstCallHonoursGates
  ApprovalRecordsAreBacked
PROPERTIES
  CompletedStepsNeverRerun
\* The bounds on entries let the system stop once every call has been made.
CHECK_DEADLOCK FALSE
