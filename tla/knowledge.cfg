SPECIFICATION Spec
CONSTANTS
  b1 = b1
  b2 = b2
  a1 = a1
  a2 = a2
  Dir <- SomeDir
  Leaves <- SomeLeaves
  LeafDir <- SomeLeafDir
  LeafName <- SomeLeafName
  Drafts <- SomeDrafts
  Editable <- SomeEditable
  Builders = {b1, b2}
  Sessions = {"s"}
  Askers = {a1, a2}
  Questions <- SomeQuestions
  MaxCitations = 2
  MaxOperations = 4
  Gone = Gone
  Broken = Broken
  NoGraph = NoGraph
  Torn = Torn
SYMMETRY Symmetry
INVARIANTS
  ValidTreesBuild
  EdgesJoinNodes
  CitationsWereReadable
  AnswersFollowQuestions
\* Within the bounds the system comes to rest.
CHECK_DEADLOCK FALSE
