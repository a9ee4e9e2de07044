------------------------------ MODULE RunTypes ------------------------------
(***************************************************************************)
(* The vocabulary of a run: the canonical steps of project_flow.py in the  *)
(* order its _run loop lists them, and the statuses of domain/run.py that  *)
(* the execution plane assigns.                                            *)
(***************************************************************************)
EXTENDS Integers

\* The canonical step sequence, by position.
LoadManifest   == 1
Preflight      == 2
Hydrate        == 3
Plan           == 4
PlanApproval   == 5
Execute        == 6
Validate       == 7
Remediate      == 8
QaValidation   == 9
Acceptance     == 10
Stage          == 11
Commit         == 12
Finalize       == 13
UpdateIndexes  == 14

Steps         == 1..14
PlanningSteps == LoadManifest..PlanApproval

Statuses == {"leased", "running", "waiting_for_human", "review", "accepted",
             "closed", "blocked", "rejected", "cancelled", "dead_letter"}

\* Statuses after which the step loop returns to its caller.
EarlyExitStatuses == {"waiting_for_human", "blocked", "dead_letter", "rejected", "cancelled"}

\* Statuses that the metrics count as the end of a run.
TerminalStatuses == {"closed", "accepted", "blocked", "rejected", "cancelled", "dead_letter"}

\* A cancelled attempt that is entered again continues as a running one.
Reopened(s) == IF s = "cancelled" THEN "running" ELSE s

=============================================================================
