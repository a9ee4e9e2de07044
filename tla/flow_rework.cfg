SPECIFICATION Spec
CONSTANTS
  c1 = c1
  Callers = {c1}
  MaxAttempts = 2
  QaLimits = {1, 2}
  MaxTests = 1
  MaxEntries = 1
  MaxAborts = 1
  MaxCancels = 0
  ApprovalRequired = TRUE
  OutputsDeclared = TRUE
  AutoApprove = FALSE
  SingleWriter = TRUE
  NoState = NoState
INVARIANTS
  CompletedStepsHaveEvents
  ReworkNeverOvercounts
  ValidationSeesOutputs
PROPERTIES
  CheckpointsOnlyGrow
  ImplementsLifecycle
\* The bounds on entries let the system stop once every call has been made.
CHECK_DEADLOCK FALSE
