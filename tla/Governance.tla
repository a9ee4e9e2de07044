----------------------------- MODULE Governance -----------------------------
(***************************************************************************)
(* What the control plane decides, and the record it leaves: the approval  *)
(* service with the change-request and closure flows that ask it, the      *)
(* policy engine, the budget enforcer and the escalation of risks, which   *)
(* share the event ledger and the metrics.                                 *)
(*                                                                         *)
(* A deployment may run the policy engine and the budget enforcer without  *)
(* a ledger, or without metrics: "wired" says what there is.  Appending to *)
(* the ledger may raise (a full disk, a lost connection); the input        *)
(* "broken" says so.  The clock and the humans move between any two calls, *)
(* and between the lessons of one closure.                                 *)
(***************************************************************************)
EXTENDS ApprovalService

CONSTANTS
  Lessons,          \* subjects of "promote_private_knowledge"
  Actions,          \* actions the policy is asked about
  Wirings,          \* deployments: whether there is a ledger, whether there are metrics
  MaxCalls          \* bound: calls of the policy engine, the enforcer, the escalation

ASSUME LessonsAreSubjects == Lessons \subseteq Subjects
ASSUME WiringAssumption == Wirings \subseteq [ledger : BOOLEAN, metrics : BOOLEAN]
ASSUME CallsAreBounded == MaxCalls \in Nat

VARIABLES
  change,           \* a change that was allowed and waits to be applied: [subject, valid]
  applied,          \* changes applied
  closure,          \* the closure in progress, or its result
  wired,            \* event_ledger and metrics that the components were given
  decisions,        \* PolicyEngine.decisions: whether each allowed
  ledger,           \* events: [type, about]
  metrics,          \* policy_denial_total and budget_exhausted_total
  answers,          \* history: what callers were told, one by one
  calls

recordVars == <<wired, decisions, ledger, metrics, answers, calls>>
vars == <<approvalVars, change, applied, closure, recordVars>>

NoChange == [subject |-> "none", valid |-> {}]

Init ==
  /\ ApprovalInit
  /\ change = NoChange
  /\ applied = {}
  /\ closure = [phase |-> "idle", unowned |-> 0, proposed |-> {}, todo |-> {},
                promoted |-> {}, valid |-> [l \in Lessons |-> {}], blockers |-> 0]
  /\ wired \in Wirings
  /\ decisions = <<>>
  /\ ledger = <<>>
  /\ metrics = [denials |-> 0, exhausted |-> 0]
  /\ answers = <<>>
  /\ calls = 0

\* History: the requests that a human approved and that have not run out.
Valid == {i \in DOMAIN requests : requests[i].status = "approved"
                                    /\ (TTL = Never \/ requests[i].expires >= now)}

-----------------------------------------------------------------------------
(* Change requests                                                         *)

ChangeKinds == {"scope_change", "budget_change", "baseline_change"}

\* evaluate_change_request; a refusal leaves nothing.
EvaluateChange(kind, subject) ==
  /\ change = NoChange
  /\ kind \in ChangeKinds
  /\ Approved("scope_budget_baseline_change", subject)
  /\ change' = [subject |-> subject, valid |-> Valid]
  /\ UNCHANGED <<approvalVars, applied, closure, recordVars>>

\* The caller applies what it was allowed, in its own time, and does not ask again.
ApplyChange ==
  /\ change # NoChange
  /\ applied' = applied \cup {change}
  /\ change' = NoChange
  /\ UNCHANGED <<approvalVars, closure, recordVars>>

-----------------------------------------------------------------------------
(* Closure                                                                 *)

\* run_project_closure: risks and issues first, then the proposed lessons, one by one.
StartClosure(unowned, proposed) ==
  /\ closure.phase = "idle"
  /\ closure' = [closure EXCEPT !.phase = "running", !.unowned = unowned,
                                !.proposed = proposed, !.todo = proposed,
                                !.blockers = unowned]
  /\ UNCHANGED <<approvalVars, change, applied, recordVars>>

\* Slip: any promotion that was approved will do.
CheckLessonUnnamed(lesson) ==
  LET ok == \E s \in Subjects : Approved("promote_private_knowledge", s)
  IN  /\ closure.phase = "running"
      /\ lesson \in closure.todo
      /\ closure' = [closure EXCEPT
                       !.todo = @ \ {lesson},
                       !.promoted = IF ok THEN @ \cup {lesson} ELSE @,
                       !.valid[lesson] = IF ok THEN Valid ELSE @,
                       !.blockers = IF ok THEN @ ELSE @ + 1]
      /\ UNCHANGED <<approvalVars, change, applied, recordVars>>

CheckLesson(lesson) ==
  LET ok == Approved("promote_private_knowledge", lesson)
  IN  /\ closure.phase = "running"
      /\ lesson \in closure.todo
      /\ closure' = [closure EXCEPT
                       !.todo = @ \ {lesson},
                       !.promoted = IF ok THEN @ \cup {lesson} ELSE @,
                       !.valid[lesson] = IF ok THEN Valid ELSE @,
                       !.blockers = IF ok THEN @ ELSE @ + 1]
      /\ UNCHANGED <<approvalVars, change, applied, recordVars>>

EndClosure ==
  /\ closure.phase = "running" /\ closure.todo = {}
  /\ closure' = [closure EXCEPT !.phase = IF closure.blockers = 0 THEN "complete" ELSE "blocked"]
  /\ UNCHANGED <<approvalVars, change, applied, recordVars>>

-----------------------------------------------------------------------------
(* Policy                                                                  *)

HardDeny == {"write_to_production", "modify_access_policy", "modify_governance_policy"}

\* _decide.  A context that cannot be read is an error, which denies; an actor without
\* any clearance on record is not checked at all.
Allows(action, context) ==
  /\ action \notin HardDeny
  /\ context.readable
  /\ context.cleared # {} => context.class \in context.cleared
  /\ action \in MandatoryActions => context.approved

\* Bound: the approvals and the record share no variable, so that a behaviour which mixes
\* them shows nothing new: who has made a call makes no request, and the other way round.
Apart == now = 0 /\ operations = 0

Call ==
  /\ calls < MaxCalls
  /\ Apart
  /\ calls' = calls + 1
  /\ UNCHANGED <<approvalVars, change, applied, closure, wired>>

Told(type, about) == answers' = Append(answers, [type |-> type, about |-> about])

\* Slip: a ledger that cannot be written does not stop the answer.
RecordOrTell(type, about, broken) ==
  /\ broken => wired.ledger
  /\ ledger' = IF wired.ledger /\ ~broken THEN Append(ledger, [type |-> type, about |-> about])
                                          ELSE ledger
  /\ Told(type, about)

\* The event is appended where there is a ledger, and then the caller is told; a ledger
\* that raises tells it nothing.
RecordAndTell(type, about, broken) ==
  /\ broken => wired.ledger
  /\ ledger' = IF wired.ledger /\ ~broken THEN Append(ledger, [type |-> type, about |-> about])
                                          ELSE ledger
  /\ IF broken THEN UNCHANGED answers ELSE Told(type, about)

Count(counter) == metrics' = IF wired.metrics THEN [metrics EXCEPT ![counter] = @ + 1] ELSE metrics

\* evaluate: the decision, the count of denials, the event, the answer.
EvaluatePolicy(action, context, broken) ==
  /\ Call
  /\ decisions' = Append(decisions, Allows(action, context))
  /\ IF Allows(action, context) THEN UNCHANGED metrics ELSE Count("denials")
  /\ RecordAndTell("policy_decision", Len(decisions'), broken)

-----------------------------------------------------------------------------
(* Budget and risks                                                        *)

Limits == <<"max_total_cost_usd", "max_runtime_seconds",
            "max_delegation_depth", "max_child_agent_calls">>

\* enforce looks at the limits in this order and stops at the first that is exceeded.
FirstOf(exceeded) == Limits[CHOOSE i \in exceeded : \A j \in exceeded : i <= j]

\* Slip: counted before it is logged.
EnforceCountedFirst(exceeded, broken) ==
  /\ Call
  /\ RecordAndTell("budget_threshold_reached", FirstOf(exceeded), broken)
  /\ Count("exhausted")
  /\ UNCHANGED decisions

\* enforce where a limit is exceeded: the event, the count, the error.  If the ledger
\* raises, that is the error, and nothing is counted.  Within the limits it does nothing.
Enforce(exceeded, broken) ==
  /\ Call
  /\ RecordAndTell("budget_threshold_reached", FirstOf(exceeded), broken)
  /\ IF broken THEN UNCHANGED metrics ELSE Count("exhausted")
  /\ UNCHANGED decisions

\* evaluate_risk of a critical risk, which needs a ledger; of any other it does nothing.
EscalateRisk(broken) ==
  /\ Call
  /\ wired.ledger
  /\ RecordAndTell("human_escalation", "critical", broken)
  /\ UNCHANGED <<decisions, metrics>>

-----------------------------------------------------------------------------

Ask ==
  \/ \E s \in Subjects \ Lessons : Request("scope_budget_baseline_change", s)
  \/ \E l \in Lessons : Request("promote_private_knowledge", l)
  \/ \E i \in DOMAIN requests, approved \in BOOLEAN : Resolve(i, approved)
  \/ \E i \in DOMAIN requests : GetStatus(i)
  \/ \E w \in writes : WriteStatus(w)
  \/ Tick

Contexts == [readable : BOOLEAN, class : {"internal", "restricted"},
             cleared : {{}, {"internal"}}, approved : BOOLEAN]

Next ==
  \/ calls = 0 /\ Ask /\ UNCHANGED <<change, applied, closure, recordVars>>
  \/ \E kind \in ChangeKinds, s \in Subjects \ Lessons : EvaluateChange(kind, s)
  \/ ApplyChange
  \/ \E unowned \in 0 .. 1, proposed \in SUBSET Lessons : StartClosure(unowned, proposed)
  \/ \E l \in Lessons : CheckLesson(l)
  \/ EndClosure
  \/ \E a \in Actions, c \in Contexts, broken \in BOOLEAN : EvaluatePolicy(a, c, broken)
  \/ \E exceeded \in (SUBSET DOMAIN Limits) \ {{}}, broken \in BOOLEAN :
       Enforce(exceeded, broken)
  \/ \E broken \in BOOLEAN : EscalateRisk(broken)

Spec == Init /\ [][Next]_vars

-----------------------------------------------------------------------------
(* Properties                                                              *)

\* Every applied change was decided while a human's approval of that very subject stood
\* and had not run out, though it may have run out since (evaluate_change_request).
AppliedChangesWereApproved ==
  \A c \in applied : \E i \in c.valid :
    requests[i].scope = "scope_budget_baseline_change" /\ requests[i].subject = c.subject

\* A closure is complete only when everything has an owner and every proposed lesson was
\* promoted, each on an approval valid when the lesson was looked at (run_project_closure).
CompleteClosureIsEarned ==
  closure.phase = "complete" =>
    /\ closure.unowned = 0
    /\ closure.promoted = closure.proposed
    /\ \A l \in closure.promoted : \E i \in closure.valid[l] :
         requests[i].scope = "promote_private_knowledge" /\ requests[i].subject = l

Occurrences(s, e) == {i \in DOMAIN s : s[i] = e}

\* With a ledger, nobody acts on an answer that is not on it: every policy decision that
\* was returned, every budget error and every escalation has an event of its own
\* (evaluate, _violate, evaluate_risk).
AnswersAreOnRecord ==
  wired.ledger =>
    \A a \in DOMAIN answers :
      Cardinality(Occurrences(answers, answers[a])) <= Cardinality(Occurrences(ledger, answers[a]))

OfType(s, type) == {i \in DOMAIN s : s[i].type = type}

\* With metrics, the counters agree with the records they summarise also when the ledger
\* failed: the denials with the decisions kept, the exhausted budgets with the errors that
\* callers got, and with the events where there is a ledger.
CountersMatchRecords ==
  wired.metrics =>
    /\ metrics.denials = Cardinality({d \in DOMAIN decisions : ~decisions[d]})
    /\ metrics.exhausted = Cardinality(OfType(answers, "budget_threshold_reached"))
    /\ wired.ledger =>
         metrics.exhausted = Cardinality(OfType(ledger, "budget_threshold_reached"))

=============================================================================
