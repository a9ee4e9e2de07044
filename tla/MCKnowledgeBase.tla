--------------------------- MODULE MCKnowledgeBase ---------------------------
EXTENDS KnowledgeBase, TLC

CONSTANTS b1, b2, a1, a2

\* Charter, epic, test case, story, and the summaries of two runs.
SomeDir == <<1, 2, 3, 4, 5>>

SomeLeaves   == {"raw1", "raw2"}
SomeLeafDir  == ("raw1" :> 5) @@ ("raw2" :> 4)
SomeLeafName == ("raw1" :> "events.jsonl") @@ ("raw2" :> "events.jsonl")

\* The story reclassified, also under a new name, and without its test; a run's summary; one
\* with an unknown type; one that cannot be read.
Story == PlanningBaseline[3]
SomeDrafts ==
  {[Story EXCEPT !.class = "confidential"],
   [Story EXCEPT !.class = "confidential", !.id = "US-002"],
   [Story EXCEPT !.links = {}], RunSummary("RUN-1", "US-001"),
   Doc("NOTE", "memo", {}), Broken, Gone}

SomeEditable  == {4, 5}
SomeQuestions == {{"user_story"}, {"epic", "internal"}}

Symmetry == Permutations({b1, b2}) \cup Permutations({a1, a2})

=============================================================================
