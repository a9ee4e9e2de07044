------------------------- MODULE Governance_proofs -------------------------
(***************************************************************************)
(* Proofs about Governance: for any subjects and lessons, any time to live *)
(* of an approval, any deployment and any bounds.                          *)
(***************************************************************************)
EXTENDS Governance, SequenceTheorems, FiniteSetTheorems, TLAPS

-----------------------------------------------------------------------------
(* Types                                                                   *)

Decisions == {"pending", "approved", "rejected", "expired"}
Scopes    == {"scope_budget_baseline_change", "promote_private_knowledge"}
Expiries  == IF TTL = Never THEN {Never} ELSE Nat
Requests  == [scope : Scopes, subject : Subjects, status : Decisions, expires : Expiries]
LimitNames == {Limits[i] : i \in DOMAIN Limits}
Events    == [type : {"policy_decision", "budget_threshold_reached", "human_escalation"},
              about : Nat \cup LimitNames \cup {"critical"}]

\* Whatever waits to be written is a decision about a request that is on file.
WritesTyped == \A w \in writes : w.id \in DOMAIN requests /\ w.status \in Decisions

RequestsTyped == now \in Nat /\ requests \in Seq(Requests) /\ WritesTyped

RecordsTyped ==
  /\ wired \in [ledger : BOOLEAN, metrics : BOOLEAN]
  /\ decisions \in Seq(BOOLEAN)
  /\ ledger \in Seq(Events)
  /\ answers \in Seq(Events)
  /\ metrics \in [denials : Nat, exhausted : Nat]

ClosureTyped ==
  closure \in [phase : {"idle", "running", "complete", "blocked"}, unowned : Nat,
               proposed : SUBSET Lessons, todo : SUBSET Lessons,
               promoted : SUBSET Lessons, valid : [Lessons -> SUBSET Nat], blockers : Nat]

\* A time to live is a number unless there is none.
LEMMA NeverIsNoTime == Never \notin Nat /\ (TTL # Never => TTL \in Nat)
  BY ApprovalBounds DEF Never

\* Whoever files, resolves, reads or waits leaves a sequence of requests in which the old
\* ones keep their place, their scope, their subject and their expiry.
RequestsKept ==
  /\ DOMAIN requests \subseteq DOMAIN requests'
  /\ \A i \in DOMAIN requests : /\ requests'[i].scope = requests[i].scope
                                /\ requests'[i].subject = requests[i].subject
                                /\ requests'[i].expires = requests[i].expires

\* request appends one pending request, and leaves the others.
LEMMA RequestStep ==
  ASSUME RequestsTyped, NEW action \in Scopes, NEW subject \in Subjects,
         Request(action, subject)
  PROVE  RequestsTyped' /\ RequestsKept
<1> DEFINE r == [scope |-> action, subject |-> subject, status |-> "pending",
                 expires |-> IF TTL = Never THEN Never ELSE now + TTL]
<1>1. r \in Requests
  <2>1. r.expires \in Expiries
    BY NeverIsNoTime DEF Expiries, RequestsTyped
  <2> QED
    BY <2>1 DEF Requests, Decisions
<1>2. requests' = Append(requests, r) /\ now' = now /\ writes' = writes
  BY DEF Request
<1> HIDE DEF r
<1>3. /\ requests' \in Seq(Requests)
      /\ Len(requests') = Len(requests) + 1
      /\ \A i \in 1 .. Len(requests) : requests'[i] = requests[i]
  BY <1>1, <1>2, AppendProperties DEF RequestsTyped
<1>4. DOMAIN requests \subseteq DOMAIN requests'
  BY <1>3, LenProperties DEF RequestsTyped
<1> QED
  BY <1>2, <1>3, <1>4, LenProperties DEF RequestsTyped, WritesTyped, RequestsKept

\* A status that is written changes nothing else about its request, nor about another.
LEMMA WriteStep ==
  ASSUME RequestsTyped, NEW w \in writes, WriteStatus(w)
  PROVE  RequestsTyped' /\ RequestsKept
<1> DEFINE r == [requests[w.id] EXCEPT !.status = w.status]
<1>1. w.id \in 1 .. Len(requests) /\ requests[w.id] \in Requests /\ w.status \in Decisions
  BY LenProperties, ElementOfSeq DEF RequestsTyped, WritesTyped
<1>2. /\ r \in Requests
      /\ r.scope = requests[w.id].scope
      /\ r.subject = requests[w.id].subject
      /\ r.expires = requests[w.id].expires
  BY <1>1 DEF Requests
<1>3. requests' = [requests EXCEPT ![w.id] = r] /\ now' = now /\ writes' \subseteq writes
  BY DEF WriteStatus
<1> HIDE DEF r
<1>4. /\ requests' \in Seq(Requests)
      /\ Len(requests') = Len(requests)
      /\ \A j \in 1 .. Len(requests) :
           requests'[j] = IF j = w.id THEN r ELSE requests[j]
  BY <1>1, <1>2, <1>3, ExceptSeq DEF RequestsTyped
<1>5. DOMAIN requests = DOMAIN requests' /\ DOMAIN requests = 1 .. Len(requests)
  BY <1>4, LenProperties DEF RequestsTyped
<1> QED
  BY <1>2, <1>3, <1>4, <1>5 DEF RequestsTyped, WritesTyped, RequestsKept

\* Whoever asks a human, in any of the flows, asks through request; who looks at a request
\* decides what is to be written about it.
LEMMA AskStep ==
  ASSUME RequestsTyped, Ask
  PROVE  RequestsTyped' /\ RequestsKept
<1>1. CASE \E s \in Subjects \ Lessons : Request("scope_budget_baseline_change", s)
  BY <1>1, RequestStep DEF Scopes
<1>2. CASE \E l \in Lessons : Request("promote_private_knowledge", l)
  BY <1>2, RequestStep, LessonsAreSubjects DEF Scopes
<1>3. CASE \E i \in DOMAIN requests, approved \in BOOLEAN : Resolve(i, approved)
  BY <1>3 DEF Resolve, Decisions, RequestsTyped, WritesTyped, RequestsKept
<1>4. CASE \E i \in DOMAIN requests : GetStatus(i)
  BY <1>4 DEF GetStatus, Decisions, RequestsTyped, WritesTyped, RequestsKept
<1>5. CASE \E w \in writes : WriteStatus(w)
  BY <1>5, WriteStep
<1>6. CASE Tick
  BY <1>6 DEF Tick, RequestsTyped, WritesTyped, RequestsKept
<1> QED
  BY <1>1, <1>2, <1>3, <1>4, <1>5, <1>6 DEF Ask

\* The other operations leave the approval service alone.
LEMMA OthersDoNotAsk ==
  ASSUME [Next]_vars
  PROVE  Ask \/ UNCHANGED approvalVars
  BY DEF Next, vars, EvaluateChange, ApplyChange, StartClosure, CheckLesson, EndClosure,
         EvaluatePolicy, Enforce, EscalateRisk, Call

\* Every step keeps the requests, and their types.
LEMMA RequestsStep ==
  ASSUME RequestsTyped, [Next]_vars
  PROVE  RequestsTyped' /\ RequestsKept
<1>1. CASE Ask
  BY <1>1, AskStep
<1>2. CASE UNCHANGED approvalVars
  BY <1>2 DEF approvalVars, RequestsTyped, WritesTyped, RequestsKept
<1> QED
  BY <1>1, <1>2, OthersDoNotAsk

\* The requests, the clock and what waits to be written are well typed in every state.
THEOREM RequestsAreTyped == Spec => []RequestsTyped
<1>1. Init => RequestsTyped
  BY EmptySeq DEF Init, ApprovalInit, RequestsTyped, WritesTyped
<1>2. RequestsTyped /\ [Next]_vars => RequestsTyped'
  BY RequestsStep
<1> QED
  BY <1>1, <1>2, PTL DEF Spec

-----------------------------------------------------------------------------
(* Approvals                                                               *)

RanOut(i) == i \in DOMAIN requests /\ Expired(requests[i])

\* What was marked as expired, and what is about to be, is past its expiry: whoever marks
\* has looked at the clock before, and the clock does not go back.
ExpiryInv ==
  /\ \A i \in marked : RanOut(i)
  /\ \A w \in writes : w.status = "expired" => RanOut(w.id)

\* A request that has run out stays so, whatever is done about it.
LEMMA RanOutStays ==
  ASSUME RequestsTyped, [Next]_vars, NEW i, RanOut(i)
  PROVE  RanOut(i)'
<1>1. RequestsTyped' /\ RequestsKept
  BY RequestsStep
<1>2. now' = now \/ now' = now + 1
  BY OthersDoNotAsk
  DEF approvalVars, Ask, Request, Resolve, GetStatus, WriteStatus, Tick
<1>3. i \in DOMAIN requests' /\ requests'[i].expires = requests[i].expires
  BY <1>1 DEF RequestsKept, RanOut
<1>4. requests[i] \in Requests
  BY LenProperties, ElementOfSeq DEF RequestsTyped, RanOut
<1>5. requests[i].expires # Never /\ requests[i].expires \in Nat /\ now > requests[i].expires
  BY <1>4, NeverIsNoTime DEF RanOut, Expired, Requests, Expiries
<1>6. now' > requests[i].expires
  BY <1>2, <1>5 DEF RequestsTyped
<1> QED
  BY <1>3, <1>5, <1>6 DEF RanOut, Expired

\* Only who found a request past its expiry marks it, now or later.
LEMMA ExpiryStep ==
  ASSUME RequestsTyped, ExpiryInv, [Next]_vars
  PROVE  ExpiryInv'
<1>1. \A i : RanOut(i) => RanOut(i)'
  BY RanOutStays
<1>2. CASE UNCHANGED <<writes, marked>>
  BY <1>1, <1>2 DEF ExpiryInv
<1>3. ASSUME NEW i \in DOMAIN requests, NEW approved \in BOOLEAN, Resolve(i, approved)
      PROVE  ExpiryInv'
  <2>1. PICK w : /\ writes' = writes \cup {w} /\ w.id = i
                 /\ w.status = "expired" => Expired(requests[i])
    <3> DEFINE w == [call |-> operations', id |-> i,
                     status |-> IF Expired(requests[i]) THEN "expired"
                                ELSE IF approved THEN "approved" ELSE "rejected"]
    <3>1. writes' = writes \cup {w}
      BY <1>3 DEF Resolve
    <3>2. w.id = i /\ (w.status = "expired" => Expired(requests[i]))
      OBVIOUS
    <3> HIDE DEF w
    <3> QED
      BY <3>1, <3>2
  <2>2. w.status = "expired" => RanOut(w.id)
    BY <2>1 DEF RanOut
  <2>3. marked' = marked
    BY <1>3 DEF Resolve
  <2> QED
    BY <1>1, <2>1, <2>2, <2>3 DEF ExpiryInv
<1>4. ASSUME NEW i \in DOMAIN requests, GetStatus(i)
      PROVE  ExpiryInv'
  <2>1. /\ RanOut(i) /\ marked' = marked
        /\ writes' = writes \cup {[call |-> 0, id |-> i, status |-> "expired"]}
    BY <1>4 DEF GetStatus, RanOut
  <2> QED
    BY <1>1, <2>1 DEF ExpiryInv
<1>5. ASSUME NEW w \in writes, WriteStatus(w)
      PROVE  ExpiryInv'
  <2>1. /\ writes' \subseteq writes
        /\ marked' = IF w.status = "expired" THEN marked \cup {w.id} ELSE marked
    BY <1>5 DEF WriteStatus
  <2>2. \A i \in marked' : RanOut(i)
    BY <2>1 DEF ExpiryInv
  <2> QED
    BY <1>1, <2>1, <2>2 DEF ExpiryInv
<1>6. \/ UNCHANGED <<writes, marked>>
      \/ \E i \in DOMAIN requests, approved \in BOOLEAN : Resolve(i, approved)
      \/ \E i \in DOMAIN requests : GetStatus(i)
      \/ \E w \in writes : WriteStatus(w)
  BY OthersDoNotAsk DEF approvalVars, Ask, Request, Tick
<1> QED
  BY <1>2, <1>3, <1>4, <1>5, <1>6

\* "An expired request never counts as approved" (approval_service.py:87-88): once anybody
\* was told that a request is expired, is_approved lets no decision rest on it again, also
\* when a resolver that had looked at the clock in time writes "approved" after that.
THEOREM MarkedNeverCounts == Spec => []ExpiredNeverCountsAgain
<1>1. Init => ExpiryInv
  BY DEF Init, ApprovalInit, ExpiryInv
<1>2. RequestsTyped /\ ExpiryInv /\ [Next]_vars => ExpiryInv'
  BY ExpiryStep
<1>3. ExpiryInv => ExpiredNeverCountsAgain
  BY DEF ExpiryInv, RanOut, ExpiredNeverCountsAgain, Counts
<1> QED
  BY <1>1, <1>2, <1>3, RequestsAreTyped, PTL DEF Spec

\* While a request has not run out, as the service tests it, its expiry is in the future.
LEMMA NotExpired ==
  ASSUME RequestsTyped, NEW i \in DOMAIN requests, ~Expired(requests[i])
  PROVE  TTL = Never \/ requests[i].expires >= now
<1>1. requests[i] \in Requests
  BY LenProperties, ElementOfSeq DEF RequestsTyped
<1> QED
  BY <1>1, NeverIsNoTime DEF Expired, Requests, Expiries, RequestsTyped

\* What a decision that asked for an approval may rely on: among the requests that were
\* valid then, one about that very subject.
Backed(valid, scope, subject) ==
  \E i \in valid : requests[i].scope = scope /\ requests[i].subject = subject

\* is_approved finds such a request.
LEMMA ApprovedIsBacked ==
  ASSUME RequestsTyped, NEW scope \in Scopes, NEW subject, Approved(scope, subject)
  PROVE  Backed(Valid, scope, subject)
<1>1. scope \in MandatoryActions
  BY DEF Scopes, MandatoryActions
<1>2. PICK i \in DOMAIN requests : /\ requests[i].scope = scope
                                   /\ requests[i].subject = subject
                                   /\ ~Expired(requests[i])
                                   /\ requests[i].status = "approved"
  BY <1>1 DEF Approved, Counts
<1>3. i \in Valid
  BY <1>2, NotExpired DEF Valid
<1> QED
  BY <1>2, <1>3 DEF Backed

\* What was backed stays backed, since requests are never removed or rewritten.
LEMMA BackedStays ==
  ASSUME RequestsKept, NEW valid \in SUBSET DOMAIN requests, NEW scope, NEW subject,
         Backed(valid, scope, subject)
  PROVE  valid \in SUBSET DOMAIN requests' /\ Backed(valid, scope, subject)'
  BY DEF RequestsKept, Backed

-----------------------------------------------------------------------------
(* Change requests                                                         *)

IsBackedChange(c) ==
  /\ c.valid \subseteq DOMAIN requests
  /\ Backed(c.valid, "scope_budget_baseline_change", c.subject)

\* The change that waits was decided like those that were applied, and the requests it
\* remembers are on file.
ChangesInv ==
  /\ change = NoChange \/ IsBackedChange(change)
  /\ \A c \in applied : IsBackedChange(c)

\* Change requests: what was applied was valid when it was evaluated.
LEMMA ChangesStep ==
  ASSUME RequestsTyped, ChangesInv, [Next]_vars
  PROVE  ChangesInv'
<1>1. RequestsKept
  BY RequestsStep
<1>2. ASSUME NEW c, IsBackedChange(c)
      PROVE  IsBackedChange(c)'
  BY <1>1, <1>2, BackedStays DEF IsBackedChange
<1>3. CASE UNCHANGED <<change, applied>>
  BY <1>2, <1>3 DEF ChangesInv, NoChange
<1>4. ASSUME NEW kind, NEW subject, EvaluateChange(kind, subject)
      PROVE  ChangesInv'
  <2>1. Backed(Valid, "scope_budget_baseline_change", subject)
    BY <1>4, ApprovedIsBacked DEF EvaluateChange, Scopes
  <2>2. /\ change' = [subject |-> subject, valid |-> Valid]
        /\ applied' = applied /\ requests' = requests
    BY <1>4 DEF EvaluateChange, approvalVars
  <2>3. change'.valid \in SUBSET DOMAIN requests'
    BY <2>2 DEF Valid
  <2>4. IsBackedChange(change)'
    BY <2>1, <2>2, <2>3 DEF IsBackedChange, Backed
  <2> QED
    BY <1>2, <2>2, <2>4 DEF ChangesInv
<1>5. CASE ApplyChange
  BY <1>2, <1>5 DEF ApplyChange, ChangesInv
<1>6. \/ UNCHANGED <<change, applied>>
      \/ \E kind, subject : EvaluateChange(kind, subject)
      \/ ApplyChange
  BY DEF Next, vars, StartClosure, CheckLesson, EndClosure, EvaluatePolicy, Enforce,
         EscalateRisk, Call
<1> QED
  BY <1>3, <1>4, <1>5, <1>6

\* Every applied change was decided while a human's approval of that very subject stood
\* and had not run out, though it may have run out since (evaluate_change_request).
THEOREM ChangesWereApproved == Spec => []AppliedChangesWereApproved
<1>1. Init => ChangesInv
  BY DEF Init, ChangesInv
<1>2. RequestsTyped /\ ChangesInv /\ [Next]_vars => ChangesInv'
  BY ChangesStep
<1>3. ChangesInv => AppliedChangesWereApproved
  BY DEF ChangesInv, IsBackedChange, Backed, AppliedChangesWereApproved
<1> QED
  BY <1>1, <1>2, <1>3, RequestsAreTyped, PTL DEF Spec

-----------------------------------------------------------------------------
(* Closure                                                                 *)

IsBackedLesson(l, valid) ==
  /\ valid \subseteq DOMAIN requests
  /\ Backed(valid, "promote_private_knowledge", l)

\* While lessons are looked at, what was looked at is either promoted or counted as a
\* blocker; a closure that ended looked at all of them, and is complete only without any.
ClosureInv ==
  /\ ClosureTyped
  /\ closure.todo \subseteq closure.proposed /\ closure.promoted \subseteq closure.proposed
  /\ closure.blockers = 0 =>
       closure.unowned = 0 /\ closure.proposed \ closure.todo \subseteq closure.promoted
  /\ closure.phase = "idle" => closure.promoted = {}
  /\ closure.phase = "complete" => closure.todo = {} /\ closure.blockers = 0
  /\ \A l \in closure.promoted : IsBackedLesson(l, closure.valid[l])

\* The closure complies with what it has been through: lessons, blockers and approvals.
LEMMA ClosureStep ==
  ASSUME RequestsTyped, ClosureInv, [Next]_vars
  PROVE  ClosureInv'
<1>1. RequestsKept
  BY RequestsStep
<1>2. \A l \in closure.promoted : IsBackedLesson(l, closure.valid[l])'
        \/ closure'.valid[l] # closure.valid[l]
  <2> SUFFICES ASSUME NEW l \in closure.promoted, closure'.valid[l] = closure.valid[l]
               PROVE  IsBackedLesson(l, closure.valid[l])'
    OBVIOUS
  <2>1. IsBackedLesson(l, closure.valid[l])
    BY DEF ClosureInv
  <2> QED
    BY <1>1, <2>1 DEF IsBackedLesson, RequestsKept, Backed
<1>3. CASE UNCHANGED closure
  BY <1>2, <1>3 DEF ClosureInv, ClosureTyped
<1>4. ASSUME NEW unowned \in 0 .. 1, NEW proposed \in SUBSET Lessons,
             StartClosure(unowned, proposed)
      PROVE  ClosureInv'
  <2>0. unowned \in Nat /\ closure.phase = "idle"
    BY <1>4 DEF StartClosure
  <2>1. /\ closure'.phase = "running" /\ closure'.unowned = unowned
        /\ closure'.proposed = proposed /\ closure'.todo = proposed
        /\ closure'.blockers = unowned /\ closure'.promoted = {}
        /\ ClosureTyped'
    BY <1>4, <2>0 DEF StartClosure, ClosureInv, ClosureTyped
  <2> QED
    BY <2>1 DEF ClosureInv
<1>5. ASSUME NEW l \in Lessons, CheckLesson(l)
      PROVE  ClosureInv'
  <2>1. requests' = requests /\ closure.phase = "running" /\ l \in closure.todo
    BY <1>5 DEF CheckLesson, approvalVars
  <2>2. CASE Approved("promote_private_knowledge", l)
    <3>1. Backed(Valid, "promote_private_knowledge", l)
      BY <2>2, ApprovedIsBacked DEF Scopes
    <3>2. closure' = [closure EXCEPT !.todo = closure.todo \ {l},
                                     !.promoted = closure.promoted \cup {l},
                                     !.valid = [closure.valid EXCEPT ![l] = Valid]]
      BY <1>5, <2>2 DEF CheckLesson, ClosureInv, ClosureTyped
    <3>3. Valid \in SUBSET DOMAIN requests /\ Valid \in SUBSET Nat
      BY LenProperties DEF Valid, RequestsTyped
    <3> HIDE DEF Valid
    <3>4. /\ closure'.todo = closure.todo \ {l} /\ closure'.promoted = closure.promoted \cup {l}
          /\ closure'.proposed = closure.proposed /\ closure'.blockers = closure.blockers
          /\ closure'.unowned = closure.unowned /\ closure'.phase = "running"
          /\ closure'.valid = [closure.valid EXCEPT ![l] = Valid]
      BY <2>1, <3>2 DEF ClosureInv, ClosureTyped
    <3>5. ClosureTyped'
      <4>1. [closure.valid EXCEPT ![l] = Valid] \in [Lessons -> SUBSET Nat]
        BY <3>3 DEF ClosureInv, ClosureTyped
      <4> QED
        BY <3>2, <4>1 DEF ClosureInv, ClosureTyped
    <3>6. \A k \in closure'.promoted : IsBackedLesson(k, closure.valid[k])'
      <4> SUFFICES ASSUME NEW k \in closure'.promoted
                   PROVE  IsBackedLesson(k, closure.valid[k])'
        OBVIOUS
      <4>1. k \in Lessons /\ closure.valid \in [Lessons -> SUBSET Nat]
        BY <3>5 DEF ClosureInv, ClosureTyped
      <4>2. CASE k = l
        <5>1. closure'.valid[k] = Valid
          BY <3>4, <4>1, <4>2
        <5> QED
          BY <2>1, <3>1, <3>3, <4>2, <5>1 DEF IsBackedLesson, Backed
      <4>3. CASE k # l
        <5>1. closure'.valid[k] = closure.valid[k] /\ k \in closure.promoted
          BY <3>4, <4>1, <4>3
        <5> QED
          BY <1>2, <5>1
      <4> QED
        BY <4>2, <4>3
    <3> QED
      BY <2>1, <3>4, <3>5, <3>6 DEF ClosureInv
  <2>3. CASE ~Approved("promote_private_knowledge", l)
    <3>0. closure.blockers + 1 \in Nat /\ closure.todo \ {l} \in SUBSET Lessons
      BY DEF ClosureInv, ClosureTyped
    <3>1. closure' = [closure EXCEPT !.todo = closure.todo \ {l}, !.blockers = closure.blockers + 1]
      <4>1. [closure.valid EXCEPT ![l] = closure.valid[l]] = closure.valid
        BY DEF ClosureInv, ClosureTyped
      <4> QED
        BY <1>5, <2>3, <4>1 DEF CheckLesson, ClosureInv, ClosureTyped
    <3>2. /\ closure'.phase = "running" /\ closure'.unowned = closure.unowned
          /\ closure'.proposed = closure.proposed /\ closure'.todo = closure.todo \ {l}
          /\ closure'.blockers = closure.blockers + 1 /\ closure'.promoted = closure.promoted
          /\ closure'.valid = closure.valid /\ ClosureTyped'
      BY <2>1, <3>0, <3>1 DEF ClosureInv, ClosureTyped
    <3>3. closure'.blockers # 0
      BY <3>2 DEF ClosureInv, ClosureTyped
    <3> QED
      BY <1>2, <3>2, <3>3 DEF ClosureInv
  <2> QED
    BY <2>2, <2>3
<1>6. CASE EndClosure
  <2>1. PICK p \in {"complete", "blocked"} :
          closure' = [closure EXCEPT !.phase = p] /\ (p = "complete" => closure.blockers = 0)
    BY <1>6 DEF EndClosure
  <2> QED
    BY <1>2, <1>6, <2>1 DEF EndClosure, ClosureInv, ClosureTyped
<1>7. \/ UNCHANGED closure
      \/ \E unowned \in 0 .. 1, proposed \in SUBSET Lessons : StartClosure(unowned, proposed)
      \/ \E l \in Lessons : CheckLesson(l)
      \/ EndClosure
  BY DEF Next, vars, EvaluateChange, ApplyChange, EvaluatePolicy, Enforce, EscalateRisk, Call
<1> QED
  BY <1>3, <1>4, <1>5, <1>6, <1>7

\* A closure is complete only when everything has an owner and every proposed lesson was
\* promoted, each on an approval valid when the lesson was looked at (run_project_closure).
THEOREM ClosureIsEarned == Spec => []CompleteClosureIsEarned
<1>1. Init => ClosureInv
  BY DEF Init, ClosureInv, ClosureTyped
<1>2. RequestsTyped /\ ClosureInv /\ [Next]_vars => ClosureInv'
  BY ClosureStep
<1>3. ClosureInv => CompleteClosureIsEarned
  BY DEF ClosureInv, ClosureTyped, IsBackedLesson, Backed, CompleteClosureIsEarned
<1> QED
  BY <1>1, <1>2, <1>3, RequestsAreTyped, PTL DEF Spec

-----------------------------------------------------------------------------
(* The record                                                              *)

\* Appending to a sequence adds at most its last place to the places that are counted.
LEMMA OneMore ==
  ASSUME NEW n \in Nat, NEW S \in SUBSET (1 .. n)
  PROVE  /\ Cardinality(S) \in Nat
         /\ Cardinality(S \cup {n + 1}) = Cardinality(S) + 1
<1>1. IsFiniteSet(S)
  <2>1. IsFiniteSet(1 .. n)
    BY FS_Interval
  <2> QED
    BY <2>1, FS_Subset
<1>2. n + 1 \notin S
  OBVIOUS
<1> QED
  BY <1>1, <1>2, FS_AddElement, FS_CardinalityType

Denials(s) == {d \in DOMAIN s : ~s[d]}

\* One more decision is at most one more denial.
LEMMA DenialsAppend ==
  ASSUME NEW s \in Seq(BOOLEAN), NEW b \in BOOLEAN
  PROVE  Cardinality(Denials(Append(s, b))) =
           Cardinality(Denials(s)) + (IF b THEN 0 ELSE 1)
<1>1. /\ Len(s) \in Nat /\ DOMAIN s = 1 .. Len(s)
      /\ DOMAIN Append(s, b) = 1 .. Len(s) + 1
      /\ \A i \in 1 .. Len(s) : Append(s, b)[i] = s[i]
      /\ Append(s, b)[Len(s) + 1] = b
  BY AppendProperties, LenProperties
<1>2. Denials(Append(s, b)) = IF b THEN Denials(s) ELSE Denials(s) \cup {Len(s) + 1}
  BY <1>1 DEF Denials
<1>3. Denials(s) \in SUBSET (1 .. Len(s))
  BY <1>1 DEF Denials
<1>4. /\ Cardinality(Denials(s)) \in Nat
      /\ Cardinality(Denials(s) \cup {Len(s) + 1}) = Cardinality(Denials(s)) + 1
  BY <1>1, <1>3, OneMore
<1> QED
  BY <1>2, <1>4

\* One more event is at most one more occurrence of an event.
LEMMA OccurrencesAppend ==
  ASSUME NEW s \in Seq(Events), NEW f \in Events, NEW e
  PROVE  /\ Cardinality(Occurrences(s, e)) \in Nat
         /\ Cardinality(Occurrences(Append(s, f), e)) =
              Cardinality(Occurrences(s, e)) + (IF f = e THEN 1 ELSE 0)
<1>1. /\ Len(s) \in Nat /\ DOMAIN s = 1 .. Len(s)
      /\ DOMAIN Append(s, f) = 1 .. Len(s) + 1
      /\ \A i \in 1 .. Len(s) : Append(s, f)[i] = s[i]
      /\ Append(s, f)[Len(s) + 1] = f
  BY AppendProperties, LenProperties
<1>2. Occurrences(Append(s, f), e) = IF f = e THEN Occurrences(s, e) \cup {Len(s) + 1}
                                              ELSE Occurrences(s, e)
  BY <1>1 DEF Occurrences
<1>3. Occurrences(s, e) \in SUBSET (1 .. Len(s))
  BY <1>1 DEF Occurrences
<1>4. /\ Cardinality(Occurrences(s, e)) \in Nat
      /\ Cardinality(Occurrences(s, e) \cup {Len(s) + 1}) = Cardinality(Occurrences(s, e)) + 1
  BY <1>1, <1>3, OneMore
<1> QED
  BY <1>2, <1>4

\* One more event is at most one more event of a type.
LEMMA OfTypeAppend ==
  ASSUME NEW s \in Seq(Events), NEW f \in Events, NEW type
  PROVE  /\ Cardinality(OfType(s, type)) \in Nat
         /\ Cardinality(OfType(Append(s, f), type)) =
              Cardinality(OfType(s, type)) + (IF f.type = type THEN 1 ELSE 0)
<1>1. /\ Len(s) \in Nat /\ DOMAIN s = 1 .. Len(s)
      /\ DOMAIN Append(s, f) = 1 .. Len(s) + 1
      /\ \A i \in 1 .. Len(s) : Append(s, f)[i] = s[i]
      /\ Append(s, f)[Len(s) + 1] = f
  BY AppendProperties, LenProperties
<1>2. OfType(Append(s, f), type) = IF f.type = type THEN OfType(s, type) \cup {Len(s) + 1}
                                                    ELSE OfType(s, type)
  BY <1>1 DEF OfType
<1>3. OfType(s, type) \in SUBSET (1 .. Len(s))
  BY <1>1 DEF OfType
<1>4. /\ Cardinality(OfType(s, type)) \in Nat
      /\ Cardinality(OfType(s, type) \cup {Len(s) + 1}) = Cardinality(OfType(s, type)) + 1
  BY <1>1, <1>3, OneMore
<1> QED
  BY <1>2, <1>4

\* The limit that enforce names is one of its limits.
LEMMA FirstIsALimit ==
  ASSUME NEW exceeded \in (SUBSET DOMAIN Limits) \ {{}}
  PROVE  FirstOf(exceeded) \in LimitNames
<1>1. exceeded \subseteq 1 .. 4 /\ exceeded # {}
  BY DEF Limits
<1>2. \E i \in exceeded : \A j \in exceeded : i <= j
  BY <1>1
<1>3. (CHOOSE i \in exceeded : \A j \in exceeded : i <= j) \in DOMAIN Limits
  BY <1>2
<1> QED
  BY <1>3 DEF FirstOf, LimitNames

\* No event was told more often than it was recorded, where there is a ledger.
OnRecord ==
  wired.ledger => \A e \in Events : Cardinality(Occurrences(answers, e))
                                      <= Cardinality(Occurrences(ledger, e))

Budget == "budget_threshold_reached"

RecordInv == RecordsTyped /\ OnRecord /\ CountersMatchRecords

\* What a call does to the ledger and to what callers know: it keeps them paired, and adds
\* the same to both unless the ledger raises.
LEMMA RecordStep ==
  ASSUME RecordInv, NEW type, NEW about, [type |-> type, about |-> about] \in Events,
         NEW broken \in BOOLEAN, RecordAndTell(type, about, broken), UNCHANGED wired
  PROVE  /\ ledger' \in Seq(Events) /\ answers' \in Seq(Events) /\ OnRecord'
         /\ Cardinality(OfType(answers', Budget)) =
              Cardinality(OfType(answers, Budget)) + (IF type = Budget /\ ~broken THEN 1 ELSE 0)
         /\ wired.ledger =>
              Cardinality(OfType(ledger', Budget)) =
                Cardinality(OfType(ledger, Budget)) + (IF type = Budget /\ ~broken THEN 1 ELSE 0)
<1> DEFINE f == [type |-> type, about |-> about]
<1>0. ledger \in Seq(Events) /\ answers \in Seq(Events) /\ f \in Events /\ f.type = type
  BY DEF RecordInv, RecordsTyped
<1>1. /\ \A e : /\ Cardinality(Occurrences(ledger, e)) \in Nat
                /\ Cardinality(Occurrences(answers, e)) \in Nat
      /\ Cardinality(OfType(ledger, Budget)) \in Nat
      /\ Cardinality(OfType(answers, Budget)) \in Nat
  BY <1>0, OccurrencesAppend, OfTypeAppend
<1>2. CASE broken
  <2>1. ledger' = ledger /\ answers' = answers
    BY <1>2 DEF RecordAndTell
  <2> QED
    BY <1>0, <1>1, <1>2, <2>1 DEF RecordInv, OnRecord
<1>3. CASE ~broken /\ wired.ledger
  <2>1. ledger' = Append(ledger, f) /\ answers' = Append(answers, f)
    BY <1>3 DEF RecordAndTell, Told
  <2> HIDE DEF f
  <2>2. ledger' \in Seq(Events) /\ answers' \in Seq(Events)
    BY <1>0, <2>1, AppendProperties
  <2>3. /\ Cardinality(OfType(answers', Budget)) =
             Cardinality(OfType(answers, Budget)) + (IF type = Budget THEN 1 ELSE 0)
        /\ Cardinality(OfType(ledger', Budget)) =
             Cardinality(OfType(ledger, Budget)) + (IF type = Budget THEN 1 ELSE 0)
    BY <1>0, <2>1, OfTypeAppend
  <2>4. ASSUME NEW e \in Events
        PROVE  Cardinality(Occurrences(answers', e)) <= Cardinality(Occurrences(ledger', e))
    <3>1. Cardinality(Occurrences(answers, e)) <= Cardinality(Occurrences(ledger, e))
      BY <1>3 DEF RecordInv, OnRecord
    <3>2. /\ Cardinality(Occurrences(answers', e)) =
               Cardinality(Occurrences(answers, e)) + (IF f = e THEN 1 ELSE 0)
          /\ Cardinality(Occurrences(ledger', e)) =
               Cardinality(Occurrences(ledger, e)) + (IF f = e THEN 1 ELSE 0)
      BY <1>0, <2>1, OccurrencesAppend
    <3> QED
      BY <1>1, <3>1, <3>2
  <2> QED
    BY <1>3, <2>2, <2>3, <2>4 DEF OnRecord
<1>4. CASE ~broken /\ ~wired.ledger
  <2>1. ledger' = ledger /\ answers' = Append(answers, f)
    BY <1>4 DEF RecordAndTell, Told
  <2> HIDE DEF f
  <2>2. answers' \in Seq(Events)
    BY <1>0, <2>1, AppendProperties
  <2>3. Cardinality(OfType(answers', Budget)) =
          Cardinality(OfType(answers, Budget)) + (IF type = Budget THEN 1 ELSE 0)
    BY <1>0, <2>1, OfTypeAppend
  <2> QED
    BY <1>0, <1>4, <2>1, <2>2, <2>3 DEF OnRecord
<1> QED
  BY <1>2, <1>3, <1>4

\* A counter goes up by one where there are metrics.
LEMMA CountStep ==
  ASSUME RecordInv, NEW counter \in {"denials", "exhausted"}, Count(counter)
  PROVE  /\ metrics' \in [denials : Nat, exhausted : Nat]
         /\ wired.metrics =>
              /\ metrics'.denials = metrics.denials + (IF counter = "denials" THEN 1 ELSE 0)
              /\ metrics'.exhausted = metrics.exhausted + (IF counter = "exhausted" THEN 1 ELSE 0)
<1>1. metrics \in [denials : Nat, exhausted : Nat]
  BY DEF RecordInv, RecordsTyped
<1>2. CASE ~wired.metrics
  BY <1>1, <1>2 DEF Count
<1>3. CASE wired.metrics /\ counter = "denials"
  BY <1>1, <1>3 DEF Count
<1>4. CASE wired.metrics /\ counter = "exhausted"
  BY <1>1, <1>4 DEF Count
<1> QED
  BY <1>2, <1>3, <1>4

\* A decision that cannot be logged is kept and counted, but nobody is told.
LEMMA PolicyStep ==
  ASSUME RecordInv, NEW action, NEW context, NEW broken \in BOOLEAN,
         EvaluatePolicy(action, context, broken)
  PROVE  RecordInv'
<1> DEFINE allowed == Allows(action, context)
<1>1. decisions \in Seq(BOOLEAN) /\ wired' = wired
  BY DEF RecordInv, RecordsTyped, EvaluatePolicy, Call
<1>2. PICK b \in BOOLEAN : /\ decisions' = Append(decisions, b)
                           /\ IF b THEN UNCHANGED metrics ELSE Count("denials")
  <2>1. allowed \in BOOLEAN
    BY DEF Allows
  <2>2. decisions' = Append(decisions, allowed)
    BY DEF EvaluatePolicy
  <2>3. IF allowed THEN UNCHANGED metrics ELSE Count("denials")
    BY DEF EvaluatePolicy
  <2> HIDE DEF allowed
  <2> QED
    BY <2>1, <2>2, <2>3
<1>3. decisions' \in Seq(BOOLEAN) /\ Len(decisions') \in Nat
  BY <1>1, <1>2, AppendProperties, LenProperties
<1>4. metrics \in [denials : Nat, exhausted : Nat]
  BY DEF RecordInv, RecordsTyped
<1>5. /\ metrics' \in [denials : Nat, exhausted : Nat]
      /\ wired.metrics => /\ metrics'.denials = metrics.denials + (IF b THEN 0 ELSE 1)
                          /\ metrics'.exhausted = metrics.exhausted
  <2>1. CASE b
    BY <1>2, <1>4, <2>1
  <2>2. CASE ~b
    BY <1>2, <1>4, <2>2, CountStep
  <2> QED
    BY <2>1, <2>2
<1>6. [type |-> "policy_decision", about |-> Len(decisions')] \in Events
  BY <1>3 DEF Events
<1>7. /\ ledger' \in Seq(Events) /\ answers' \in Seq(Events) /\ OnRecord'
      /\ Cardinality(OfType(answers', Budget)) = Cardinality(OfType(answers, Budget)) + 0
      /\ wired.ledger => Cardinality(OfType(ledger', Budget)) = Cardinality(OfType(ledger, Budget)) + 0
  <2>1. RecordAndTell("policy_decision", Len(decisions'), broken)
    BY DEF EvaluatePolicy
  <2> QED
    BY <1>1, <1>6, <2>1, RecordStep DEF Budget
<1>8. CountersMatchRecords'
  <2> SUFFICES ASSUME wired'.metrics
               PROVE  CountersMatchRecords'
    BY DEF CountersMatchRecords
  <2>1. /\ metrics.denials = Cardinality(Denials(decisions))
        /\ metrics.exhausted = Cardinality(OfType(answers, Budget))
        /\ wired.ledger => metrics.exhausted = Cardinality(OfType(ledger, Budget))
    BY <1>1 DEF RecordInv, CountersMatchRecords, Denials, Budget
  <2>2. Cardinality(Denials(decisions')) = metrics.denials + (IF b THEN 0 ELSE 1)
    BY <1>1, <1>2, <2>1, DenialsAppend
  <2>3. metrics.exhausted + 0 = metrics.exhausted
    BY <1>4
  <2>4. metrics'.denials = Cardinality(Denials(decisions'))
    BY <1>1, <1>5, <2>2
  <2>5. /\ metrics'.exhausted = Cardinality(OfType(answers', Budget))
        /\ wired'.ledger => metrics'.exhausted = Cardinality(OfType(ledger', Budget))
    BY <1>1, <1>5, <1>7, <2>1, <2>3
  <2> QED
    BY <2>4, <2>5 DEF CountersMatchRecords, Denials, Budget
<1> QED
  BY <1>1, <1>3, <1>5, <1>7, <1>8 DEF RecordInv, RecordsTyped

\* An exhausted budget is counted if and only if it is logged, where there is a ledger,
\* and the caller is told.
LEMMA EnforceStep ==
  ASSUME RecordInv, NEW exceeded \in (SUBSET DOMAIN Limits) \ {{}}, NEW broken \in BOOLEAN,
         Enforce(exceeded, broken)
  PROVE  RecordInv'
<1>1. decisions' = decisions /\ wired' = wired
  BY DEF Enforce, Call
<1>2. [type |-> Budget, about |-> FirstOf(exceeded)] \in Events
  BY FirstIsALimit DEF Events, Budget
<1>3. /\ RecordAndTell(Budget, FirstOf(exceeded), broken)
      /\ IF broken THEN UNCHANGED metrics ELSE Count("exhausted")
  BY DEF Enforce, Budget
<1>4. metrics \in [denials : Nat, exhausted : Nat]
  BY DEF RecordInv, RecordsTyped
<1>5. /\ metrics' \in [denials : Nat, exhausted : Nat]
      /\ wired.metrics => /\ metrics'.denials = metrics.denials
                          /\ metrics'.exhausted = metrics.exhausted + (IF broken THEN 0 ELSE 1)
  <2>1. CASE broken
    BY <1>3, <1>4, <2>1
  <2>2. CASE ~broken
    BY <1>3, <1>4, <2>2, CountStep
  <2> QED
    BY <2>1, <2>2
<1>6. /\ ledger' \in Seq(Events) /\ answers' \in Seq(Events) /\ OnRecord'
      /\ Cardinality(OfType(answers', Budget)) =
           Cardinality(OfType(answers, Budget)) + (IF broken THEN 0 ELSE 1)
      /\ wired.ledger =>
           Cardinality(OfType(ledger', Budget)) =
             Cardinality(OfType(ledger, Budget)) + (IF broken THEN 0 ELSE 1)
  BY <1>1, <1>2, <1>3, RecordStep
<1>7. CountersMatchRecords'
  <2> SUFFICES ASSUME wired'.metrics
               PROVE  CountersMatchRecords'
    BY DEF CountersMatchRecords
  <2>1. /\ metrics.denials = Cardinality(Denials(decisions))
        /\ metrics.exhausted = Cardinality(OfType(answers, Budget))
        /\ wired.ledger => metrics.exhausted = Cardinality(OfType(ledger, Budget))
    BY <1>1 DEF RecordInv, CountersMatchRecords, Denials, Budget
  <2>2. metrics'.denials = Cardinality(Denials(decisions'))
    BY <1>1, <1>5, <2>1
  <2>3. /\ metrics'.exhausted = Cardinality(OfType(answers', Budget))
        /\ wired'.ledger => metrics'.exhausted = Cardinality(OfType(ledger', Budget))
    BY <1>1, <1>5, <1>6, <2>1
  <2> QED
    BY <2>2, <2>3 DEF CountersMatchRecords, Denials, Budget
<1> QED
  BY <1>1, <1>5, <1>6, <1>7 DEF RecordInv, RecordsTyped

\* evaluate_risk appends its event before it answers, or raises.
LEMMA EscalateStep ==
  ASSUME RecordInv, NEW broken \in BOOLEAN, EscalateRisk(broken)
  PROVE  RecordInv'
<1>1. decisions' = decisions /\ metrics' = metrics /\ wired' = wired
  BY DEF EscalateRisk, Call
<1>2. [type |-> "human_escalation", about |-> "critical"] \in Events
  BY DEF Events
<1>3. metrics \in [denials : Nat, exhausted : Nat]
  BY DEF RecordInv, RecordsTyped
<1>4. /\ ledger' \in Seq(Events) /\ answers' \in Seq(Events) /\ OnRecord'
      /\ Cardinality(OfType(answers', Budget)) = Cardinality(OfType(answers, Budget)) + 0
      /\ wired.ledger => Cardinality(OfType(ledger', Budget)) = Cardinality(OfType(ledger, Budget)) + 0
  <2>1. RecordAndTell("human_escalation", "critical", broken)
    BY DEF EscalateRisk
  <2> QED
    BY <1>1, <1>2, <2>1, RecordStep DEF Budget
<1>5. CountersMatchRecords'
  <2> SUFFICES ASSUME wired'.metrics
               PROVE  CountersMatchRecords'
    BY DEF CountersMatchRecords
  <2>1. /\ metrics.denials = Cardinality(Denials(decisions))
        /\ metrics.exhausted = Cardinality(OfType(answers, Budget))
        /\ wired.ledger => metrics.exhausted = Cardinality(OfType(ledger, Budget))
    BY <1>1 DEF RecordInv, CountersMatchRecords, Denials, Budget
  <2>2. metrics.exhausted + 0 = metrics.exhausted
    BY <1>3
  <2>3. metrics'.denials = Cardinality(Denials(decisions'))
    BY <1>1, <2>1
  <2>4. /\ metrics'.exhausted = Cardinality(OfType(answers', Budget))
        /\ wired'.ledger => metrics'.exhausted = Cardinality(OfType(ledger', Budget))
    BY <1>1, <1>4, <2>1, <2>2
  <2> QED
    BY <2>3, <2>4 DEF CountersMatchRecords, Denials, Budget
<1> QED
  BY <1>1, <1>4, <1>5 DEF RecordInv, RecordsTyped

\* The policy engine, the budget enforcer and the escalation of risks keep the record, in
\* every deployment.
THEOREM RecordIsKept == Spec => []RecordInv
<1>1. Init => RecordInv
  <2> SUFFICES ASSUME Init PROVE RecordInv
    OBVIOUS
  <2>1. /\ decisions = <<>> /\ ledger = <<>> /\ answers = <<>>
        /\ metrics = [denials |-> 0, exhausted |-> 0]
        /\ wired \in [ledger : BOOLEAN, metrics : BOOLEAN]
    BY WiringAssumption DEF Init
  <2>2. \A e, type : Occurrences(<<>>, e) = {} /\ OfType(<<>>, type) = {} /\ Denials(<<>>) = {}
    BY DEF Occurrences, OfType, Denials
  <2>3. Cardinality({}) = 0
    BY FS_EmptySet
  <2>4. RecordsTyped
    BY <2>1, EmptySeq DEF RecordsTyped
  <2>5. OnRecord
    <3>1. \A e \in Events : /\ Cardinality(Occurrences(answers, e)) = 0
                            /\ Cardinality(Occurrences(ledger, e)) = 0
      BY ONLY <2>1, <2>2, <2>3
    <3> QED
      BY <3>1 DEF OnRecord
  <2>6. CountersMatchRecords
    BY <2>1, <2>2, <2>3 DEF CountersMatchRecords, Denials
  <2> QED
    BY <2>4, <2>5, <2>6 DEF RecordInv
<1>2. RecordInv /\ [Next]_vars => RecordInv'
  <2> SUFFICES ASSUME RecordInv, [Next]_vars
               PROVE  RecordInv'
    OBVIOUS
  <2>1. CASE UNCHANGED recordVars
    BY <2>1 DEF recordVars, RecordInv, RecordsTyped, OnRecord, CountersMatchRecords
  <2>2. CASE \E a \in Actions, c \in Contexts, broken \in BOOLEAN : EvaluatePolicy(a, c, broken)
    BY <2>2, PolicyStep
  <2>3. CASE \E exceeded \in (SUBSET DOMAIN Limits) \ {{}}, broken \in BOOLEAN :
               Enforce(exceeded, broken)
    BY <2>3, EnforceStep
  <2>4. CASE \E broken \in BOOLEAN : EscalateRisk(broken)
    BY <2>4, EscalateStep
  <2> QED
    BY <2>1, <2>2, <2>3, <2>4
    DEF Next, vars, EvaluateChange, ApplyChange, StartClosure, CheckLesson, EndClosure
<1> QED
  BY <1>1, <1>2, PTL DEF Spec

\* With a ledger, nobody acts on an answer that is not on it: every policy decision that
\* was returned, every budget error and every escalation has an event of its own
\* (evaluate, _violate, evaluate_risk).
THEOREM AnswersOnRecord == Spec => []AnswersAreOnRecord
<1>1. RecordInv => AnswersAreOnRecord
  BY ElementOfSeq, LenProperties DEF RecordInv, RecordsTyped, OnRecord, AnswersAreOnRecord
<1> QED
  BY <1>1, RecordIsKept, PTL

\* With metrics, the counters agree with the records they summarise also when the ledger
\* failed: the denials with the decisions kept, the exhausted budgets with the errors that
\* callers got, and with the events where there is a ledger.
THEOREM CountersAreExact == Spec => []CountersMatchRecords
<1>1. RecordInv => CountersMatchRecords
  BY DEF RecordInv
<1> QED
  BY <1>1, RecordIsKept, PTL

=============================================================================
