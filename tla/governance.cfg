SPECIFICATION Spec
CONSTANTS
  plan = plan
  lesson1 = lesson1
  lesson2 = lesson2
  Subjects <- SomeSubjects
  Lessons <- SomeLessons
  TTL = 1
  MaxTime = 2
  MaxOperations = 4
  Actions <- SomeActions
  Wirings <- SomeWirings
  MaxCalls = 3
SYMMETRY LessonSymmetry
INVARIANTS
  ExpiredNeverCountsAgain
  AppliedChangesWereApproved
  CompleteClosureIsEarned
  AnswersAreOnRecord
  CountersMatchRecords
\* The bounds on the clock, the operations and the calls let the system stop.
CHECK_DEADLOCK FALSE
