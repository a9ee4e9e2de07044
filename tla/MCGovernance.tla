---------------------------- MODULE MCGovernance ----------------------------
EXTENDS Governance, TLC

CONSTANTS plan, lesson1, lesson2

SomeSubjects == {plan, lesson1, lesson2}
SomeLessons  == {lesson1, lesson2}

\* One hard-denied, one mandatory and one ordinary action.
SomeActions == {"write_to_production", "production_change", "compile_spoc"}

\* Everything, what main.py wires, and no ledger; with neither, nothing is checked.
SomeWirings ==
  {[ledger |-> TRUE, metrics |-> TRUE], [ledger |-> TRUE, metrics |-> FALSE],
   [ledger |-> FALSE, metrics |-> TRUE]}

\* Nothing tells one lesson from another.
LessonSymmetry == Permutations(SomeLessons)

=============================================================================
