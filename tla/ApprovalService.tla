-------------------------- MODULE ApprovalService --------------------------
(***************************************************************************)
(* ApprovalService (control_plane/approval_service.py): requests for human *)
(* approval, their resolution and their expiry.                            *)
(*                                                                         *)
(* Requests are numbered in the order they are made.  A request that is    *)
(* past its expiry keeps the status it had until somebody resolves it or   *)
(* asks for it.  No expiry is Never.  Nothing is locked: whoever resolves  *)
(* a request, or asks for its status, looks at the clock in one step and   *)
(* writes the status in a later one.                                       *)
(***************************************************************************)
EXTENDS Integers, Sequences, FiniteSets

CONSTANTS
  Subjects,         \* what an approval may be about
  TTL,              \* approval_ttl_seconds, or Never
  MaxTime,          \* bound: the clock
  MaxOperations     \* bound: requests and resolutions

Never == -1

ASSUME ApprovalBounds ==
  /\ TTL \in Nat \cup {Never}
  /\ MaxTime \in Nat /\ MaxOperations \in Nat

VARIABLES
  now,              \* the clock
  requests,         \* _requests, in the order of their making
  writes,           \* statuses that calls have decided on and are about to write
  marked,           \* history: requests that somebody has marked as expired
  operations

approvalVars == <<now, requests, writes, marked, operations>>

MandatoryActions ==
  {"scope_budget_baseline_change", "access_expansion", "policy_exception",
   "high_risk_inferred_capability", "external_communication", "production_change",
   "legal_regulatory_safety_financial_conclusion", "promote_private_knowledge",
   "activate_agent_or_tool"}

ApprovalInit == now = 0 /\ requests = <<>> /\ writes = {} /\ marked = {} /\ operations = 0

Expired(r) == r.expires # Never /\ now > r.expires

\* Slip: expiry is left to those who resolve requests or ask for their status.
CountsOnPaper(r) == r.status = "approved"

\* What is_approved takes for an approval.
Counts(r) == ~Expired(r) /\ r.status = "approved"

\* is_approved.
Approved(action, subject) ==
  \/ action \notin MandatoryActions
  \/ \E i \in DOMAIN requests : /\ requests[i].scope = action
                                /\ requests[i].subject = subject
                                /\ Counts(requests[i])

Counted == operations < MaxOperations /\ operations' = operations + 1

Request(action, subject) ==
  /\ Counted
  /\ requests' = Append(requests, [scope   |-> action,
                                   subject |-> subject,
                                   status  |-> "pending",
                                   expires |-> IF TTL = Never THEN Never ELSE now + TTL])
  /\ UNCHANGED <<now, writes, marked>>

\* resolve looks at the clock.  Any request may be resolved again; one past its expiry is
\* to become "expired", an approved one too.
Resolve(i, approved) ==
  /\ Counted
  /\ writes' = writes \cup
       {[call |-> operations', id |-> i, status |-> IF Expired(requests[i]) THEN "expired"
                                                    ELSE IF approved THEN "approved" ELSE "rejected"]}
  /\ UNCHANGED <<now, requests, marked>>

\* get_status has found a pending request past its expiry; else it writes nothing.
GetStatus(i) ==
  /\ Expired(requests[i]) /\ requests[i].status = "pending"
  /\ writes' = writes \cup {[call |-> 0, id |-> i, status |-> "expired"]}
  /\ UNCHANGED <<now, requests, marked, operations>>

\* resolve or get_status writes what it has decided on, whatever the request is by now.
WriteStatus(w) ==
  /\ requests' = [requests EXCEPT ![w.id].status = w.status]
  /\ writes' = writes \ {w}
  /\ marked' = IF w.status = "expired" THEN marked \cup {w.id} ELSE marked
  /\ UNCHANGED <<now, operations>>

Tick ==
  /\ now < MaxTime
  /\ now' = now + 1
  /\ UNCHANGED <<requests, writes, marked, operations>>

-----------------------------------------------------------------------------
(* Properties                                                              *)

\* "An expired request never counts as approved" (approval_service.py:87-88): once anybody
\* was told that a request is expired, is_approved lets no decision rest on it again, also
\* when a resolver that had looked at the clock in time writes "approved" after that.
ExpiredNeverCountsAgain == \A i \in marked : ~Counts(requests[i])

=============================================================================
