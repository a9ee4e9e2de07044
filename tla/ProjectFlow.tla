---------------------------- MODULE ProjectFlow ----------------------------
(***************************************************************************)
(* ProjectExecutionFlow: the step loop that executes one run, with its QA  *)
(* gate, its two human gates, cooperative cancellation and the checkpoint  *)
(* it saves after every step; and the cancel endpoint of the API, which    *)
(* writes the same checkpoint without the flow.                            *)
(*                                                                         *)
(* One run (one run_id) is modelled: the stores key everything by run, and *)
(* runs share nothing but the metrics.  A caller is a thread that executes *)
(* start() or resume(); its state object lives in memory and is lost when  *)
(* the process dies or a port raises (Abort).  The run-state store, the    *)
(* event ledger and the approval gateway survive.                          *)
(*                                                                         *)
(* FlowRunOptions is what the caller decides for a call: whether each      *)
(* human gate is granted, the test cases, who does QA, the limit on QA     *)
(* attempts.  Each option is read by one step, and a step runs at most     *)
(* once in a call, so an option is chosen where it is read.  So is the     *)
(* policy's verdict.                                                       *)
(*                                                                         *)
(* Definitions marked "Slip:" are not part of the specification: each is   *)
(* the definition that follows it with a mistake a programmer could make,  *)
(* kept to show that a property below notices the mistake.                 *)
(***************************************************************************)
EXTENDS RunTypes, Sequences, FiniteSetsExt

CONSTANTS
  Callers,           \* threads that may call the flow
  MaxAttempts,       \* bound: attempts of the run
  QaLimits,          \* values calls give FlowRunOptions.max_qa_attempts
  MaxTests,          \* bound: test cases of one call
  MaxEntries,        \* bound: calls of start() or resume() on one attempt
  MaxAborts,         \* bound: calls that die
  MaxCancels,        \* bound: no API cancel begins after this many are confirmed
  ApprovalRequired,  \* RunManifest.approval_required
  OutputsDeclared,   \* RunManifest.output_artifacts is not empty
  AutoApprove,       \* InMemoryApprovalGateway(auto_approve=...)
  SingleWriter,      \* callers never work on the same attempt at once
  NoState            \* run_state_store.load() returned None

Attempts == 1..MaxAttempts
FirstAttempt == 1

\* A ProjectRunState, with the fields some decision or property depends on.
State == [status     : Statuses,
          done       : SUBSET Steps,                        \* completed_steps
          rework     : Nat,                                 \* qa_rework_count
          outputs    : BOOLEAN,                             \* output_artifacts
          validation : {"none", "passed", "failed"},        \* validation_results
          approvalId : Nat,                                 \* approval_requests:
          approval   : {"none", "pending", "approved"},     \*   id and status
          denied     : BOOLEAN]                             \* a policy_denied error

FreshState == [status |-> "leased", done |-> {}, rework |-> 0, outputs |-> FALSE,
               validation |-> "none", approvalId |-> 0, approval |-> "none",
               denied |-> FALSE]

ASSUME BoundsAssumption ==
  /\ MaxAttempts \in Nat \ {0}
  /\ {MaxTests, MaxEntries, MaxAborts, MaxCancels} \subseteq Nat
  /\ QaLimits \subseteq Nat

ASSUME SwitchesAssumption ==
  {ApprovalRequired, OutputsDeclared, AutoApprove, SingleWriter} \subseteq BOOLEAN

ASSUME NoStateAssumption == NoState \notin State

\* What the flow and the QA gate append to the ledger.
EventTypes ==
  {"run_manifest_loaded", "policy_decision_recorded", "state_hydrated", "execution_plan_created",
   "approval_skipped", "plan_approved", "plan_approval_pending", "bounded_crew_executed",
   "outputs_validated", "remediation_not_needed", "test_case_executed", "qa_review_passed",
   "qa_review_rejected", "human_escalation_required", "acceptance_skipped", "acceptance_granted",
   "acceptance_pending", "changes_staged_noop", "commit_noop", "run_summary_generated",
   "indexes_updated", "run_cancelled"}

\* The step each event type is evidence of.
StepEvents ==
  [s \in Steps |->
    CASE s = LoadManifest  -> {"run_manifest_loaded"}
      [] s = Preflight     -> {"policy_decision_recorded"}
      [] s = Hydrate       -> {"state_hydrated"}
      [] s = Plan          -> {"execution_plan_created"}
      [] s = PlanApproval  -> {"approval_skipped", "plan_approved", "plan_approval_pending"}
      [] s = Execute       -> {"bounded_crew_executed"}
      [] s = Validate      -> {"outputs_validated"}
      [] s = Remediate     -> {"remediation_not_needed"}
      [] s = QaValidation  -> {"qa_review_passed", "qa_review_rejected"}
      [] s = Acceptance    -> {"acceptance_skipped", "acceptance_granted", "acceptance_pending"}
      [] s = Stage         -> {"changes_staged_noop"}
      [] s = Commit        -> {"commit_noop"}
      [] s = Finalize      -> {"run_summary_generated"}
      [] s = UpdateIndexes -> {"indexes_updated"}]

VARIABLES
  store,       \* run_state_store: attempt -> persisted State or NoState
  ledger,      \* event_ledger: how many events of each type each attempt has
  gateway,     \* approval_gateway: status of each request, in request order
  metrics,     \* run_completion_total by status
  pc,          \* where each caller is
  cur,         \* the attempt the call works on
  wasTerminal, \* was its status terminal when the call began
  step,        \* position of the call in the step loop
  live,        \* the call's ProjectRunState object
  qa,          \* test cases left to execute, and whether one has failed
  token,       \* the call's CancellationToken
  entries,     \* calls so far on each attempt
  aborts,      \* calls that died so far
  cancels      \* history: API cancels confirmed on each attempt

durable == <<store, ledger, gateway>>
inCall  == <<cur, wasTerminal, step, live, qa, token>>
counts  == <<entries, aborts, cancels>>
vars == <<store, ledger, gateway, metrics, pc, cur, wasTerminal, step, live, qa, token,
          entries, aborts, cancels>>

Pcs == {"idle", "create", "loop", "plan", "approved", "qa", "escalate", "save", "cancel",
        "return", "overrule"}

IdleQa  == [left |-> 0, failed |-> FALSE]

Init ==
  /\ store   = [a \in Attempts |-> NoState]
  /\ ledger  = [a \in Attempts |-> [e \in EventTypes |-> 0]]
  /\ gateway = << >>
  /\ metrics = [s \in TerminalStatuses |-> 0]
  /\ pc      = [c \in Callers |-> "idle"]
  /\ cur     = [c \in Callers |-> FirstAttempt]
  /\ wasTerminal = [c \in Callers |-> FALSE]
  /\ step    = [c \in Callers |-> 1]
  /\ live    = [c \in Callers |-> FreshState]
  /\ qa      = [c \in Callers |-> IdleQa]
  /\ token   = [c \in Callers |-> FALSE]
  /\ entries = [a \in Attempts |-> 0]
  /\ aborts  = 0
  /\ cancels = [a \in Attempts |-> 0]

-----------------------------------------------------------------------------
(* Entering and leaving a call                                             *)

\* _reset_if_cancelled
ResetIfCancelled(s) == [s EXCEPT !.status = Reopened(s.status)]

\* Caller c is free to work on attempt a.  SingleWriter is the discipline the
\* flow assumes of its callers; the code does not enforce it.
MayTouch(c, a) ==
  /\ pc[c] = "idle"
  /\ SingleWriter => \A d \in Callers : pc[d] = "idle" \/ cur[d] # a

MayEnter(c, a) == MayTouch(c, a) /\ entries[a] < MaxEntries

\* A call on attempt a has its state object s and goes on at p.
Begin(c, a, s, p) ==
  /\ pc'   = [pc EXCEPT ![c] = p]
  /\ cur'  = [cur EXCEPT ![c] = a]
  /\ wasTerminal' = [wasTerminal EXCEPT ![c] = s.status \in TerminalStatuses]
  /\ live' = [live EXCEPT ![c] = s]
  /\ entries' = [entries EXCEPT ![a] = @ + 1]
  /\ UNCHANGED <<durable, metrics, step, qa, token, aborts, cancels>>

\* start() of a manifest that has no state yet creates one,
StartNew(c) ==
  /\ MayEnter(c, FirstAttempt)
  /\ store[FirstAttempt] = NoState
  /\ Begin(c, FirstAttempt, FreshState, "create")

\* and saves it, whatever another caller has saved since the load.
SaveNew(c) ==
  /\ pc[c] = "create"
  /\ store' = [store EXCEPT ![cur[c]] = live[c]]
  /\ pc' = [pc EXCEPT ![c] = "loop"]
  /\ UNCHANGED <<ledger, gateway, metrics, inCall, counts>>

\* start() of a manifest that has one, and resume(), which without one raises
\* KeyError: the call continues from the persisted state.
Continue(c, a) ==
  /\ MayEnter(c, a)
  /\ store[a] # NoState
  /\ Begin(c, a, ResetIfCancelled(store[a]), "loop")

\* The call is over, whatever its outcome: its objects are gone.
EndCall(c) ==
  /\ pc'    = [pc EXCEPT ![c] = "idle"]
  /\ cur'   = [cur EXCEPT ![c] = FirstAttempt]
  /\ wasTerminal' = [wasTerminal EXCEPT ![c] = FALSE]
  /\ step'  = [step EXCEPT ![c] = 1]
  /\ live'  = [live EXCEPT ![c] = FreshState]
  /\ qa'    = [qa EXCEPT ![c] = IdleQa]
  /\ token' = [token EXCEPT ![c] = FALSE]

\* Slip: Return counts a terminal run whether or not it was terminal before.
ReturnCountsAgain(c) ==
  /\ pc[c] = "return" \/ (pc[c] = "loop" /\ step[c] \notin Steps)
  /\ metrics' = IF live[c].status \in TerminalStatuses
                  THEN [metrics EXCEPT ![live[c].status] = @ + 1]
                  ELSE metrics
  /\ EndCall(c)
  /\ UNCHANGED <<durable, counts>>

\* The end of _run: the loop broke, was cancelled or ran out of steps, and the
\* completion is counted once per call that made the run terminal.
Return(c) ==
  /\ pc[c] = "return" \/ (pc[c] = "loop" /\ step[c] \notin Steps)
  /\ metrics' = IF live[c].status \in TerminalStatuses /\ ~wasTerminal[c]
                  THEN [metrics EXCEPT ![live[c].status] = @ + 1]
                  ELSE metrics
  /\ EndCall(c)
  /\ UNCHANGED <<durable, counts>>

\* The process dies, or a port (store, ledger, gateway, tool executor) raises.
Abort(c) ==
  /\ pc[c] # "idle"
  /\ aborts < MaxAborts
  /\ aborts' = aborts + 1
  /\ EndCall(c)
  /\ UNCHANGED <<durable, metrics, entries, cancels>>

-----------------------------------------------------------------------------
(* The step loop                                                           *)

Emit(c, event) == ledger' = [ledger EXCEPT ![cur[c]][event] = @ + 1]

\* Slip: AtStep does not look at completed_steps.
AtStepForgetful(c, s) == pc[c] = "loop" /\ step[c] = s /\ ~token[c]

\* The loop is about to execute step s.
AtStep(c, s) ==
  /\ pc[c] = "loop"
  /\ step[c] = s
  /\ ~token[c]
  /\ s \notin live[c].done

SkipCompleted(c) ==
  /\ pc[c] = "loop"
  /\ step[c] \in live[c].done
  /\ ~token[c]
  /\ step' = [step EXCEPT ![c] = @ + 1]
  /\ UNCHANGED <<durable, metrics, pc, cur, wasTerminal, live, qa, token, counts>>

\* Slip: ObserveCancellation saves the state instead of logging it first.
ObserveCancellationSavesFirst(c) ==
  /\ pc[c] = "loop"
  /\ step[c] \in Steps
  /\ token[c]
  /\ live' = [live EXCEPT ![c].status = "cancelled"]
  /\ store' = [store EXCEPT ![cur[c]] = live'[c]]
  /\ pc' = [pc EXCEPT ![c] = "cancel"]
  /\ UNCHANGED <<ledger, gateway, metrics, cur, wasTerminal, step, qa, token, counts>>

\* The token is read at the top of every iteration, completed steps included.
ObserveCancellation(c) ==
  /\ pc[c] = "loop"
  /\ step[c] \in Steps
  /\ token[c]
  /\ live' = [live EXCEPT ![c].status = "cancelled"]
  /\ Emit(c, "run_cancelled")
  /\ pc' = [pc EXCEPT ![c] = "cancel"]
  /\ UNCHANGED <<store, gateway, metrics, cur, wasTerminal, step, qa, token, counts>>

SaveCancelled(c) ==
  /\ pc[c] = "cancel"
  /\ store' = [store EXCEPT ![cur[c]] = live[c]]
  /\ pc' = [pc EXCEPT ![c] = "return"]
  /\ UNCHANGED <<ledger, gateway, metrics, inCall, counts>>

\* A step function that changes the state to after and emits one event.
Perform(c, s, event, after) ==
  /\ AtStep(c, s)
  /\ live' = [live EXCEPT ![c] = after]
  /\ Emit(c, event)
  /\ pc' = [pc EXCEPT ![c] = "save"]
  /\ UNCHANGED <<store, gateway, metrics, cur, wasTerminal, step, qa, token, counts>>

\* Slip: SaveStep goes on after a gate.
SaveStepNeverBreaks(c) ==
  LET s == [live[c] EXCEPT !.done = @ \cup {step[c]}]
  IN /\ pc[c] = "save"
     /\ live'  = [live EXCEPT ![c] = s]
     /\ store' = [store EXCEPT ![cur[c]] = s]
     /\ pc'    = [pc EXCEPT ![c] = "loop"]
     /\ step'  = [step EXCEPT ![c] = @ + 1]
     /\ UNCHANGED <<ledger, gateway, metrics, cur, wasTerminal, qa, token, counts>>

\* Slip: SaveStep goes on after a gate and records only the steps that passed.
SaveStepRecordsOpenGates(c) ==
  LET open == live[c].status \notin EarlyExitStatuses
      s    == [live[c] EXCEPT !.done = IF open THEN @ \cup {step[c]} ELSE @,
                              !.status = IF open THEN @ ELSE "running"]
  IN /\ pc[c] = "save"
     /\ live'  = [live EXCEPT ![c] = s]
     /\ store' = [store EXCEPT ![cur[c]] = s]
     /\ pc'    = [pc EXCEPT ![c] = "loop"]
     /\ step'  = [step EXCEPT ![c] = @ + 1]
     /\ UNCHANGED <<ledger, gateway, metrics, cur, wasTerminal, qa, token, counts>>

\* After the step function: record_step_complete, save, leave on a gate.
SaveStep(c) ==
  LET s == [live[c] EXCEPT !.done = @ \cup {step[c]}]
  IN /\ pc[c] = "save"
     /\ live'  = [live EXCEPT ![c] = s]
     /\ store' = [store EXCEPT ![cur[c]] = s]
     /\ pc'    = [pc EXCEPT ![c] = IF s.status \in EarlyExitStatuses THEN "return" ELSE "loop"]
     /\ step'  = [step EXCEPT ![c] = @ + 1]
     /\ UNCHANGED <<ledger, gateway, metrics, cur, wasTerminal, qa, token, counts>>

-----------------------------------------------------------------------------
(* The steps                                                               *)

LoadRunManifest(c)      == Perform(c, LoadManifest, "run_manifest_loaded", live[c])
HydrateTypedState(c)    == Perform(c, Hydrate, "state_hydrated", live[c])
CreateExecutionPlan(c)  == Perform(c, Plan, "execution_plan_created", live[c])
RemediateIfAllowed(c)   == Perform(c, Remediate, "remediation_not_needed", live[c])
StageChanges(c)         == Perform(c, Stage, "changes_staged_noop", live[c])
CreateCommit(c)         == Perform(c, Commit, "commit_noop", live[c])
UpdateProjectIndexes(c) == Perform(c, UpdateIndexes, "indexes_updated", live[c])

PreflightPolicyCheck(c) ==
  \E allowed \in BOOLEAN :
    Perform(c, Preflight, "policy_decision_recorded",
            IF allowed THEN live[c] ELSE [live[c] EXCEPT !.status = "blocked", !.denied = TRUE])

SkipPlanApproval(c) ==
  /\ ~ApprovalRequired
  /\ Perform(c, PlanApproval, "approval_skipped", live[c])

\* The request reaches the gateway before the step decides anything; the id is
\* a local of the step function, kept here in the unsaved state object.
RequestPlanApproval(c) ==
  /\ ApprovalRequired
  /\ AtStep(c, PlanApproval)
  /\ gateway' = Append(gateway, IF AutoApprove THEN "approved" ELSE "pending")
  /\ live' = [live EXCEPT ![c].approvalId = Len(gateway) + 1]
  /\ pc' = [pc EXCEPT ![c] = "plan"]
  /\ UNCHANGED <<store, ledger, metrics, cur, wasTerminal, step, qa, token, counts>>

\* Slip: DecidePlanApproval goes on without resolving the request.
DecidePlanApprovalLocally(c) ==
  /\ pc[c] = "plan"
  /\ \/ /\ pc' = [pc EXCEPT ![c] = "approved"]
        /\ UNCHANGED <<ledger, live>>
     \/ /\ pc' = [pc EXCEPT ![c] = "save"]
        /\ live' = [live EXCEPT ![c].approval = "pending", ![c].status = "waiting_for_human"]
        /\ Emit(c, "plan_approval_pending")
  /\ UNCHANGED <<store, gateway, metrics, cur, wasTerminal, step, qa, token, counts>>

\* options.human_plan_approved decides, not the gateway's answer: the flow
\* resolves its own request, or leaves it to a human.
DecidePlanApproval(c) ==
  /\ pc[c] = "plan"
  /\ \/ /\ gateway' = [gateway EXCEPT ![live[c].approvalId] = "approved"]
        /\ pc' = [pc EXCEPT ![c] = "approved"]
        /\ UNCHANGED <<ledger, live>>
     \/ /\ live' = [live EXCEPT ![c].approval = "pending", ![c].status = "waiting_for_human"]
        /\ Emit(c, "plan_approval_pending")
        /\ pc' = [pc EXCEPT ![c] = "save"]
        /\ UNCHANGED gateway
  /\ UNCHANGED <<store, metrics, cur, wasTerminal, step, qa, token, counts>>

\* The resolved approval goes into the state and the ledger.
RecordPlanApproval(c) ==
  /\ pc[c] = "approved"
  /\ live' = [live EXCEPT ![c].approval = "approved"]
  /\ Emit(c, "plan_approved")
  /\ pc' = [pc EXCEPT ![c] = "save"]
  /\ UNCHANGED <<store, gateway, metrics, cur, wasTerminal, step, qa, token, counts>>

\* Slip: ExecuteBoundedCrews leaves the status alone.
ExecuteKeepsStatus(c) ==
  Perform(c, Execute, "bounded_crew_executed", [live[c] EXCEPT !.outputs = TRUE])

ExecuteBoundedCrews(c) ==
  Perform(c, Execute, "bounded_crew_executed",
          [live[c] EXCEPT !.outputs = TRUE, !.status = "running"])

ValidateOutputs(c) ==
  Perform(c, Validate, "outputs_validated",
          [live[c] EXCEPT !.validation =
             IF live[c].outputs /\ OutputsDeclared THEN "passed" ELSE "failed"])

\* The QA agent must not be the originating agent: the gate raises otherwise,
\* and the call ends without counting anything.
RefuseSelfApproval(c) ==
  /\ AtStep(c, QaValidation)
  /\ EndCall(c)
  /\ UNCHANGED <<durable, metrics, counts>>

BeginQa(c) ==
  /\ AtStep(c, QaValidation)
  /\ \E tests \in 0..MaxTests : qa' = [qa EXCEPT ![c] = [left |-> tests, failed |-> FALSE]]
  /\ pc' = [pc EXCEPT ![c] = "qa"]
  /\ UNCHANGED <<durable, metrics, cur, wasTerminal, step, live, token, counts>>

RunTestCase(c) ==
  /\ pc[c] = "qa"
  /\ qa[c].left > 0
  /\ \E passed \in BOOLEAN :
       qa' = [qa EXCEPT ![c] = [left |-> @.left - 1, failed |-> @.failed \/ ~passed]]
  /\ Emit(c, "test_case_executed")
  /\ UNCHANGED <<store, gateway, metrics, pc, cur, wasTerminal, step, live, token, counts>>

\* The verdict when every test case passed (also when there is none).
PassQa(c) ==
  /\ pc[c] = "qa"
  /\ qa[c].left = 0
  /\ ~qa[c].failed
  /\ live' = [live EXCEPT ![c].status = "review"]
  /\ Emit(c, "qa_review_passed")
  /\ pc' = [pc EXCEPT ![c] = "save"]
  /\ UNCHANGED <<store, gateway, metrics, cur, wasTerminal, step, qa, token, counts>>

\* The verdict when one failed: back to the originating agent while attempts
\* remain, otherwise the dead letter, which is escalated.
RejectQa(c) ==
  LET count == live[c].rework + 1
  IN /\ pc[c] = "qa"
     /\ qa[c].left = 0
     /\ qa[c].failed
     /\ \E max \in QaLimits :
          IF count < max
            THEN /\ live' = [live EXCEPT ![c].rework = count, ![c].status = "rejected"]
                 /\ pc' = [pc EXCEPT ![c] = "save"]
            ELSE /\ live' = [live EXCEPT ![c].rework = count, ![c].status = "dead_letter"]
                 /\ pc' = [pc EXCEPT ![c] = "escalate"]
     /\ Emit(c, "qa_review_rejected")
     /\ UNCHANGED <<store, gateway, metrics, cur, wasTerminal, step, qa, token, counts>>

Escalate(c) ==
  /\ pc[c] = "escalate"
  /\ Emit(c, "human_escalation_required")
  /\ pc' = [pc EXCEPT ![c] = "save"]
  /\ UNCHANGED <<store, gateway, metrics, inCall, counts>>

HumanAcceptance(c) ==
  \/ /\ ~ApprovalRequired
     /\ Perform(c, Acceptance, "acceptance_skipped", live[c])
  \/ /\ ApprovalRequired
     /\ Perform(c, Acceptance, "acceptance_granted", [live[c] EXCEPT !.status = "accepted"])
  \/ /\ ApprovalRequired
     /\ Perform(c, Acceptance, "acceptance_pending",
                [live[c] EXCEPT !.status = "waiting_for_human"])

FinalizeRunSummary(c) ==
  Perform(c, Finalize, "run_summary_generated",
          [live[c] EXCEPT !.status = IF @ = "accepted" THEN "closed" ELSE @])

-----------------------------------------------------------------------------
(* Around the calls                                                        *)

\* Slip: NewAttemptState keeps every completed step.
NewAttemptKeepsAll(previous) ==
  [FreshState EXCEPT !.status = "running", !.rework = previous.rework, !.done = previous.done]

\* Slip: NewAttemptState keeps one step too many.
NewAttemptKeepsExecution(previous) ==
  [FreshState EXCEPT !.status = "running",
                     !.rework = previous.rework,
                     !.done   = previous.done \cap (LoadManifest..Execute)]

\* Slip: NewAttemptState counts the rework the QA gate has already counted.
NewAttemptCountsRework(previous) ==
  [FreshState EXCEPT !.status = "running",
                     !.rework = previous.rework + 1,
                     !.done   = previous.done \cap PlanningSteps]

\* start_new_attempt(): keeps the planning steps, drops outputs, decisions,
\* approval requests, errors and validation results.
NewAttemptState(previous) ==
  [FreshState EXCEPT !.status = "running",
                     !.rework = previous.rework,
                     !.done   = previous.done \cap PlanningSteps]

\* Slip: StartNewAttempt also resets the attempt it starts from.
StartNewAttemptResets(a, b) ==
  /\ store[a] # NoState
  /\ store[b] = NoState
  /\ \A x \in Attempts : x < b => store[x] # NoState
  /\ store' = [store EXCEPT ![a] = NewAttemptState(store[a]), ![b] = NewAttemptState(store[a])]
  /\ UNCHANGED <<ledger, gateway, metrics, pc, inCall, counts>>

StartNewAttempt(a, b) ==
  /\ store[a] # NoState
  /\ store[b] = NoState
  /\ \A x \in Attempts : x < b => store[x] # NoState
  /\ store' = [store EXCEPT ![b] = NewAttemptState(store[a])]
  /\ UNCHANGED <<ledger, gateway, metrics, pc, inCall, counts>>

\* CancellationToken.cancel() by whoever holds the token of a running call.
RequestCancel(c) ==
  /\ pc[c] \notin {"idle", "overrule"}
  /\ ~token[c]
  /\ token' = [token EXCEPT ![c] = TRUE]
  /\ UNCHANGED <<durable, metrics, pc, cur, wasTerminal, step, live, qa, counts>>

\* POST /runs/{id}/cancel: the handler loads the attempt that was the latest when
\* it looked (a new one may have followed since) and cancels its copy,
LoadToCancel(c, a) ==
  /\ MayTouch(c, a)
  /\ cancels[a] < MaxCancels
  /\ store[a] # NoState
  /\ pc'   = [pc EXCEPT ![c] = "overrule"]
  /\ cur'  = [cur EXCEPT ![c] = a]
  /\ live' = [live EXCEPT ![c] = [store[a] EXCEPT !.status = "cancelled"]]
  /\ UNCHANGED <<durable, metrics, wasTerminal, step, qa, token, counts>>

\* and saves the copy, with no event and no metric, before it confirms.
SaveApiCancel(c) ==
  /\ pc[c] = "overrule"
  /\ store'   = [store EXCEPT ![cur[c]] = live[c]]
  /\ cancels' = [cancels EXCEPT ![cur[c]] = @ + 1]
  /\ EndCall(c)
  /\ UNCHANGED <<ledger, gateway, metrics, entries, aborts>>

\* The approvals endpoint: a human resolves, or resolves again, any request.
HumanResolve(i) ==
  /\ i \in DOMAIN gateway
  /\ \E verdict \in {"approved", "rejected"} : gateway' = [gateway EXCEPT ![i] = verdict]
  /\ UNCHANGED <<store, ledger, metrics, pc, inCall, counts>>

-----------------------------------------------------------------------------

\* What a caller's thread does by itself once it is in a call.
CallStep(c) ==
  \/ SaveNew(c)
  \/ SkipCompleted(c)
  \/ ObserveCancellation(c)
  \/ SaveCancelled(c)
  \/ SaveStep(c)
  \/ LoadRunManifest(c)
  \/ PreflightPolicyCheck(c)
  \/ HydrateTypedState(c)
  \/ CreateExecutionPlan(c)
  \/ SkipPlanApproval(c)
  \/ RequestPlanApproval(c)
  \/ DecidePlanApproval(c)
  \/ RecordPlanApproval(c)
  \/ ExecuteBoundedCrews(c)
  \/ ValidateOutputs(c)
  \/ RemediateIfAllowed(c)
  \/ RefuseSelfApproval(c)
  \/ BeginQa(c)
  \/ RunTestCase(c)
  \/ PassQa(c)
  \/ RejectQa(c)
  \/ Escalate(c)
  \/ HumanAcceptance(c)
  \/ StageChanges(c)
  \/ CreateCommit(c)
  \/ FinalizeRunSummary(c)
  \/ UpdateProjectIndexes(c)
  \/ Return(c)
  \/ SaveApiCancel(c)

Next ==
  \/ \E c \in Callers : CallStep(c) \/ Abort(c) \/ RequestCancel(c)
  \/ \E c \in Callers : StartNew(c)
  \/ \E c \in Callers, a \in Attempts : Continue(c, a) \/ LoadToCancel(c, a)
  \/ \E a \in Attempts, b \in Attempts \ {FirstAttempt} : StartNewAttempt(a, b)
  \/ \E i \in DOMAIN gateway : HumanResolve(i)

Spec == Init /\ [][Next]_vars

-----------------------------------------------------------------------------
(* Properties                                                              *)

\* Types of the durable and of the in-memory state.
TypeOK ==
  /\ store \in [Attempts -> State \cup {NoState}]
  /\ ledger \in [Attempts -> [EventTypes -> Nat]]
  /\ gateway \in Seq({"pending", "approved", "rejected"})
  /\ metrics \in [TerminalStatuses -> Nat]
  /\ pc \in [Callers -> Pcs]
  /\ cur \in [Callers -> Attempts]
  /\ wasTerminal \in [Callers -> BOOLEAN]
  /\ step \in [Callers -> 1..15]
  /\ live \in [Callers -> State]
  /\ qa \in [Callers -> [left : 0..MaxTests, failed : BOOLEAN]]
  /\ token \in [Callers -> BOOLEAN]
  /\ entries \in [Attempts -> 0..MaxEntries]
  /\ aborts \in 0..MaxAborts
  /\ cancels \in [Attempts -> Nat]

Persisted == {a \in Attempts : store[a] # NoState}

IsPrefix(done) == \E k \in 0..14 : done = 1..k

\* The completed steps of a checkpoint are always the first k steps of the
\* canonical order, however calls were cancelled, died, resumed or were
\* restarted as a new attempt: no step is ever checkpointed before an earlier one.
CompletedStepsArePrefix ==
  /\ \A a \in Persisted : IsPrefix(store[a].done)
  /\ \A c \in Callers : IsPrefix(live[c].done)

\* The event ledger is never behind the checkpoint: a step a checkpoint calls
\* completed has left its event, in this attempt or, for the planning steps a
\* new attempt keeps, in an earlier one.
CompletedStepsHaveEvents ==
  \A a \in Persisted : \A s \in store[a].done :
    \E b \in Attempts :
      /\ b = a \/ (b < a /\ s \in PlanningSteps)
      /\ \E e \in StepEvents[s] : ledger[b][e] > 0

\* A status that ends or suspends a run is never persisted without what explains
\* it: a wait without the event of the gate that waits, a denial without the
\* recorded decision, a rejection without the verdict, a dead letter without a
\* limit on QA attempts that is used up and the call for a human, an acceptance
\* without its grant, a cancellation without the event or a confirmed API cancel.
PersistedStatusIsExplained ==
  \A a \in Persisted :
    /\ store[a].status = "cancelled" =>
         ledger[a]["run_cancelled"] > 0 \/ cancels[a] > 0
    /\ store[a].status = "waiting_for_human" =>
         \/ ledger[a]["plan_approval_pending"] > 0 /\ store[a].approval = "pending"
         \/ ledger[a]["acceptance_pending"] > 0
    /\ store[a].status = "blocked" =>
         ledger[a]["policy_decision_recorded"] > 0 /\ store[a].denied
    /\ store[a].status \in {"rejected", "dead_letter"} => ledger[a]["qa_review_rejected"] > 0
    /\ store[a].status = "dead_letter" =>
         /\ \E max \in QaLimits : store[a].rework >= max
         /\ ledger[a]["human_escalation_required"] > 0
    /\ store[a].status \in {"accepted", "closed"} => ledger[a]["acceptance_granted"] > 0

\* Every rejection the checkpoint counts is in the ledger, so a crash between
\* the verdict and the save may lose a count but never invents one.
ReworkNeverOvercounts ==
  \A a \in Persisted :
    store[a].rework <= MapThenSumSet(LAMBDA b : ledger[b]["qa_review_rejected"], Attempts)

\* The validator runs after the crews of its own attempt, so its verdict depends
\* on nothing but whether the manifest declares outputs.
ValidationSeesOutputs ==
  \A a \in Persisted : Validate \in store[a].done =>
    /\ store[a].outputs
    /\ store[a].validation = IF OutputsDeclared THEN "passed" ELSE "failed"

\* What the gates do guarantee: in the only call an attempt has had, nothing
\* runs past a policy denial, a pending plan approval or a QA rejection.
FirstCallHonoursGates ==
  \A a \in Persisted : entries[a] <= 1 =>
    /\ (store[a].denied \/ store[a].approval = "pending")
         => ledger[a]["bounded_crew_executed"] = 0
    /\ ledger[a]["qa_review_rejected"] > 0
         => \A e \in StepEvents[Acceptance] : ledger[a][e] = 0

\* A plan approval recorded in a checkpoint names a request the gateway knows
\* and somebody has resolved; a pending one names a request the gateway knows.
ApprovalRecordsAreBacked ==
  \A a \in Persisted :
    /\ store[a].approval # "none" => store[a].approvalId \in DOMAIN gateway
    /\ store[a].approval = "approved" => gateway[store[a].approvalId] # "pending"

\* However often a dead letter is entered again, and by whomever, the metrics
\* count it once for every time it has called a human.
DeadLetterCountedOnce ==
  metrics["dead_letter"] <=
    MapThenSumSet(LAMBDA a : ledger[a]["human_escalation_required"], Attempts)

\* A checkpoint never loses a completed step, a rework count or an attempt.
CheckpointsOnlyGrow ==
  [][\A a \in Persisted :
       /\ store'[a] # NoState
       /\ store[a].done \subseteq store'[a].done
       /\ store[a].rework <= store'[a].rework]_vars

\* A step a checkpoint calls completed never leaves another event in that
\* attempt: its effect is not repeated by any later call.
CompletedStepsNeverRerun ==
  [][\A a \in Persisted : \A s \in store[a].done : \A e \in StepEvents[s] :
       ledger'[a][e] = ledger[a][e]]_vars

\* ADR-009 says of approvals that they are "auditable, resumable, and not
\* silently bypassable".  As a statement about the flow: crews run only after
\* some plan approval of the run was granted.
PlanGateIsNotBypassed ==
  (ApprovalRequired /\ \E a \in Attempts : ledger[a]["bounded_crew_executed"] > 0) =>
    \/ \E a \in Attempts : ledger[a]["plan_approved"] > 0
    \/ \E i \in DOMAIN gateway : gateway[i] = "approved"

\* The persisted record is all the abstract lifecycle knows.
Lifecycle == INSTANCE RunLifecycle WITH
  status   <- [a \in Attempts |-> IF store[a] = NoState THEN "none" ELSE store[a].status],
  progress <- [a \in Attempts |-> IF store[a] = NoState THEN {} ELSE store[a].done]

\* With one call at a time per attempt, the flow implements the lifecycle.
ImplementsLifecycle == Lifecycle!LifecycleSpec

=============================================================================
