---------------------------- MODULE RunLifecycle ----------------------------
(***************************************************************************)
(* What the execution plane promises about the persisted record of a run:  *)
(* an attempt is created once, its checkpoint advances one step at a time  *)
(* in the canonical order, its status changes only the way the completed   *)
(* step allows, and a new attempt starts from the planning steps of an     *)
(* earlier one.  No callers, no events, no approvals, no crashes: those    *)
(* belong to ProjectFlow, which implements this specification as long as   *)
(* one call at a time works on an attempt.                                 *)
(***************************************************************************)
EXTENDS RunTypes

CONSTANTS Attempts      \* identities of the attempts of one run

VARIABLES
  status,               \* persisted status of each attempt, "none" before it exists
  progress              \* persisted completed_steps of each attempt

lifecycleVars == <<status, progress>>

\* The statuses that step k may leave an attempt in that had status s.
Outcome(k, s) ==
  CASE k = Preflight    -> {s, "blocked"}
    [] k = PlanApproval -> {s, "waiting_for_human"}
    [] k = Execute      -> {"running"}
    [] k = QaValidation -> {"review", "rejected", "dead_letter"}
    [] k = Acceptance   -> {s, "accepted", "waiting_for_human"}
    [] k = Finalize     -> {IF s = "accepted" THEN "closed" ELSE s}
    [] OTHER            -> {s}

LifecycleInit ==
  /\ status = [a \in Attempts |-> "none"]
  /\ progress = [a \in Attempts |-> {}]

Create(a) ==
  /\ status[a] = "none"
  /\ status' = [status EXCEPT ![a] = "leased"]
  /\ UNCHANGED progress

Advance(a) ==
  \E k \in Steps :
    /\ status[a] # "none"
    /\ progress[a] = 1..(k - 1)
    /\ progress' = [progress EXCEPT ![a] = 1..k]
    /\ \E s \in Outcome(k, Reopened(status[a])) : status' = [status EXCEPT ![a] = s]

Cancel(a) ==
  /\ status[a] # "none"
  /\ status' = [status EXCEPT ![a] = "cancelled"]
  /\ UNCHANGED progress

\* b is a new attempt that keeps the planning steps attempt a had completed.
Rework(a, b) ==
  /\ status[a] # "none"
  /\ status[b] = "none"
  /\ status' = [status EXCEPT ![b] = "running"]
  /\ progress' = [progress EXCEPT ![b] = progress[a] \cap PlanningSteps]

LifecycleNext ==
  \E a \in Attempts :
    \/ Create(a)
    \/ Advance(a)
    \/ Cancel(a)
    \/ \E b \in Attempts : Rework(a, b)

LifecycleSpec == LifecycleInit /\ [][LifecycleNext]_lifecycleVars

=============================================================================
