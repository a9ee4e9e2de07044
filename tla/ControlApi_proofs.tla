------------------------- MODULE ControlApi_proofs -------------------------
(***************************************************************************)
(* Proofs about ControlApi: for any number of threads and keys, any        *)
(* sequence of steps, and any bounds on requests and failures.             *)
(***************************************************************************)
EXTENDS ControlApi, SequenceTheorems, FiniteSetTheorems, TLAPS

-----------------------------------------------------------------------------
(* Types                                                                   *)

Snapshots == [status : Statuses, done : 0 .. Len(Sequence)]
Places    == {"idle", "start", "create", "cancel", "resume", "flow", "reply"}

TypeInv ==
  /\ run \in Snapshots \cup {NoRun}
  /\ answers \in [Keys -> Statuses \cup {NoAnswer}]
  /\ pc \in [Threads -> Places]
  /\ obj \in [Threads -> Snapshots \cup {NoRun}]
  /\ etag \in [Threads -> Snapshots \cup {NoRun}]
  /\ key \in [Threads -> Keys \cup {NoKey}]
  /\ requests \in Nat /\ raises \in Nat
  /\ stale \subseteq Threads
  /\ cancelled \in BOOLEAN
  /\ executions \in [Keys -> Nat] /\ duplicates \in [Keys -> Nat]

\* What a handler has in hand where it is: a copy to work on, a step left to take, a run
\* to resume; and only a start has a key.
PlacesInv ==
  \A t \in Threads :
    /\ pc[t] \in {"cancel", "flow", "reply"} => obj[t] \in Snapshots
    /\ pc[t] = "flow" => obj[t].done < Len(Sequence)
    /\ pc[t] = "resume" => run # NoRun
    /\ pc[t] \in {"idle", "cancel", "resume"} => key[t] = NoKey

\* The sequence of steps is not empty, and its positions are those of a sequence.
LEMMA SequenceHasSteps ==
  /\ Len(Sequence) \in Nat /\ Len(Sequence) > 0
  /\ \A n \in 0 .. Len(Sequence) - 1 : Sequence[n + 1] \in Steps
<1>1. Len(Sequence) \in Nat /\ \A n \in 1 .. Len(Sequence) : Sequence[n] \in Steps
  BY SequenceAssumption, LenProperties, ElementOfSeq
<1>2. Len(Sequence) # 0
  BY SequenceAssumption, EmptySeq
<1> QED
  BY <1>1, <1>2

\* What the store answers for a missing run is no snapshot.
LEMMA NoRunIsNone == NoRun \notin Snapshots
  BY NoneAssumption, SequenceHasSteps DEF Snapshots

\* A step leaves a status.
LEMMA OutcomeTyped ==
  ASSUME NEW k \in Steps, NEW s \in Statuses, NEW o \in Lifecycle!Outcome(k, s)
  PROVE  o \in Statuses
  BY DEF Lifecycle!Outcome, Statuses, Steps, Preflight, PlanApproval, Execute, QaValidation,
         Acceptance, Finalize

\* The step a handler is about to take leaves a snapshot with one more completed.
LEMMA NextTyped ==
  ASSUME TypeInv, PlacesInv, NEW t \in Threads, pc[t] = "flow",
         NEW s \in Lifecycle!Outcome(Sequence[obj[t].done + 1], obj[t].status)
  PROVE  /\ [status |-> s, done |-> obj[t].done + 1] \in Snapshots
         /\ [status |-> s, done |-> obj[t].done + 1].done = obj[t].done + 1
<1>1. obj[t] \in Snapshots /\ obj[t].done < Len(Sequence)
  BY DEF PlacesInv
<1>2. obj[t].done \in 0 .. Len(Sequence) - 1 /\ obj[t].done + 1 \in 0 .. Len(Sequence)
  BY <1>1, SequenceHasSteps DEF Snapshots
<1>3. s \in Statuses
  BY <1>1, <1>2, SequenceHasSteps, OutcomeTyped DEF Snapshots
<1> QED
  BY <1>2, <1>3 DEF Snapshots

\* Entering the flow reopens a cancelled run and changes nothing else.
LEMMA ReopenedTyped ==
  ASSUME NEW s \in Snapshots
  PROVE  /\ [s EXCEPT !.status = Reopened(@)] \in Snapshots
         /\ [s EXCEPT !.status = Reopened(@)].done = s.done
         /\ [s EXCEPT !.status = "cancelled"] \in Snapshots
         /\ [s EXCEPT !.status = "cancelled"].done = s.done
         /\ [s EXCEPT !.status = "cancelled"].status = "cancelled"
         /\ [s EXCEPT !.status = Reopened(@)] = s \/ s = [[s EXCEPT !.status = Reopened(@)] EXCEPT !.status = "cancelled"]
  BY DEF Snapshots, Reopened, Statuses

\* A request that arrives (post, cancel, resume) keeps the types.
LEMMA RequestTyped ==
  ASSUME TypeInv, PlacesInv, NEW t \in Threads,
         GetRun(t) \/ (\E k \in Keys \cup {NoKey} : PostRun(t, k)) \/ PostCancel(t) \/ PostResume(t)
  PROVE  TypeInv' /\ PlacesInv'
<1>1. CASE GetRun(t)
  BY <1>1 DEF GetRun, TypeInv, PlacesInv, store, history
<1>2. ASSUME NEW k \in Keys \cup {NoKey}, PostRun(t, k)
      PROVE  TypeInv' /\ PlacesInv'
  <2>1. duplicates' \in [Keys -> Nat]
    BY <1>2 DEF PostRun, TypeInv
  <2>2. /\ pc' = [pc EXCEPT ![t] = "start"] /\ key' = [key EXCEPT ![t] = k]
        /\ requests' = requests + 1
        /\ UNCHANGED <<store, obj, etag, raises, stale, cancelled, executions>>
    BY <1>2 DEF PostRun, Request
  <2> QED
    BY <2>1, <2>2 DEF TypeInv, PlacesInv, store, Places
<1>3. CASE PostCancel(t)
  <2>1. run \in Snapshots
    BY <1>3 DEF PostCancel, IfMatch, TypeInv
  <2> QED
    BY <1>3, <2>1 DEF PostCancel, Request, TypeInv, PlacesInv, store, history, Places
<1>4. CASE PostResume(t)
  BY <1>4 DEF PostResume, Request, IfMatch, TypeInv, PlacesInv, store, history, Places
<1> QED
  BY <1>1, <1>2, <1>3, <1>4

\* Saving replaces the snapshot, and nothing else of what the types are about.
LEMMA SaveTyped ==
  ASSUME TypeInv, NEW t \in Threads, NEW s \in Snapshots, Save(t, s)
  PROVE  run' = s /\ stale' \subseteq Threads
  BY DEF Save, TypeInv

\* A handler that answers leaves its place, copy and key typed, and is idle.
LEMMA RespondTyped ==
  ASSUME TypeInv, NEW t \in Threads, Respond(t)
  PROVE  /\ pc' \in [Threads -> Places] /\ obj' \in [Threads -> Snapshots \cup {NoRun}]
         /\ key' \in [Threads -> Keys \cup {NoKey}]
         /\ pc'[t] = "idle" /\ key'[t] = NoKey
         /\ \A u \in Threads \ {t} : pc'[u] = pc[u] /\ obj'[u] = obj[u] /\ key'[u] = key[u]
  BY DEF TypeInv, Respond, Places

\* Entering the flow on a snapshot.
LEMMA EnterTyped ==
  ASSUME TypeInv, NEW t \in Threads, NEW s \in Snapshots, EnterFlow(t, s)
  PROVE  /\ pc' \in [Threads -> Places] /\ obj' \in [Threads -> Snapshots \cup {NoRun}]
         /\ obj'[t] = [s EXCEPT !.status = Reopened(@)]
         /\ obj'[t] \in Snapshots /\ obj'[t].done = s.done
         /\ pc'[t] = IF s.done = Len(Sequence) THEN "reply" ELSE "flow"
         /\ \A u \in Threads \ {t} : pc'[u] = pc[u] /\ obj'[u] = obj[u]
         /\ stale' = stale \ {t} /\ cancelled' = FALSE
         /\ pc'[t] = "flow" => obj'[t].done < Len(Sequence)
<1>1. /\ pc' \in [Threads -> Places] /\ obj' \in [Threads -> Snapshots \cup {NoRun}]
      /\ obj'[t] = [s EXCEPT !.status = Reopened(@)]
      /\ obj'[t] \in Snapshots /\ obj'[t].done = s.done
      /\ pc'[t] = IF s.done = Len(Sequence) THEN "reply" ELSE "flow"
      /\ \A u \in Threads \ {t} : pc'[u] = pc[u] /\ obj'[u] = obj[u]
      /\ stale' = stale \ {t} /\ cancelled' = FALSE
  BY ReopenedTyped DEF TypeInv, EnterFlow, Places
<1>2. s.done # Len(Sequence) => s.done < Len(Sequence)
  BY SequenceHasSteps DEF Snapshots
<1> QED
  BY <1>1, <1>2

\* What a handler does next keeps the types, whichever part of it runs.
LEMMA HandleTyped ==
  ASSUME TypeInv, PlacesInv, NEW t \in Threads, Handle(t) \/ FlowRaises(t)
  PROVE  TypeInv' /\ PlacesInv'
<1>1. CASE SaveCancel(t)
  <2>1. [obj[t] EXCEPT !.status = "cancelled"] \in Snapshots
    BY <1>1, ReopenedTyped DEF SaveCancel, PlacesInv
  <2>2. run' \in Snapshots /\ stale' \subseteq Threads
    BY <1>1, <2>1, SaveTyped DEF SaveCancel
  <2> QED
    BY <1>1, <2>2, RespondTyped, NoRunIsNone DEF SaveCancel, TypeInv, PlacesInv
<1>2. CASE StartFlow(t)
  <2>1. executions' \in [Keys -> Nat]
    BY <1>2 DEF StartFlow, TypeInv
  <2>2. CASE run = NoRun
    BY <1>2, <2>1, <2>2 DEF StartFlow, TypeInv, PlacesInv, store, Places, EnterFlow
  <2>3. CASE run # NoRun
    <3>1. run \in Snapshots /\ EnterFlow(t, run)
      BY <1>2, <2>3 DEF StartFlow, TypeInv
    <3>2. pc'[t] \in {"reply", "flow"}
      BY <3>1, EnterTyped
    <3> QED
      BY <1>2, <2>1, <3>1, <3>2, EnterTyped DEF StartFlow, TypeInv, PlacesInv, store
  <2> QED
    BY <2>2, <2>3
<1>3. CASE CreateRun(t)
  <2> DEFINE s == [status |-> "leased", done |-> 0]
  <2>1. s \in Snapshots /\ s.done < Len(Sequence)
    BY SequenceHasSteps DEF Snapshots, Statuses
  <2>2. /\ obj' = [obj EXCEPT ![t] = s] /\ pc' = [pc EXCEPT ![t] = "flow"] /\ Save(t, s)
        /\ UNCHANGED <<answers, etag, key, requests, raises, executions, duplicates>>
        /\ cancelled' \in BOOLEAN
    BY <1>3 DEF CreateRun, SaveRun, TypeInv
  <2> HIDE DEF s
  <2>3. run' = s /\ stale' \subseteq Threads
    BY <2>1, <2>2, SaveTyped
  <2> QED
    BY <2>1, <2>2, <2>3, NoRunIsNone DEF TypeInv, PlacesInv, Places
<1>4. CASE ResumeFlow(t)
  <2>1. run \in Snapshots /\ EnterFlow(t, run)
    BY <1>4 DEF ResumeFlow, TypeInv, PlacesInv
  <2>2. pc'[t] \in {"reply", "flow"}
    BY <2>1, EnterTyped
  <2> QED
    BY <1>4, <2>1, <2>2, EnterTyped DEF ResumeFlow, TypeInv, PlacesInv, store
<1>5. CASE FlowStep(t)
  <2>1. PICK s \in Lifecycle!Outcome(Sequence[obj[t].done + 1], obj[t].status) :
          LET next == [status |-> s, done |-> obj[t].done + 1]
          IN  /\ obj' = [obj EXCEPT ![t] = next]
              /\ SaveRun(t, next)
              /\ pc' = [pc EXCEPT ![t] =
                         IF s \in EarlyExitStatuses \/ next.done = Len(Sequence) THEN "reply" ELSE "flow"]
    BY <1>5 DEF FlowStep
  <2> DEFINE next == [status |-> s, done |-> obj[t].done + 1]
  <2>2. next \in Snapshots
    BY <1>5, NextTyped DEF FlowStep
  <2>3. /\ obj' = [obj EXCEPT ![t] = next] /\ Save(t, next) /\ cancelled' \in BOOLEAN
        /\ \/ pc' = [pc EXCEPT ![t] = "reply"]
           \/ pc' = [pc EXCEPT ![t] = "flow"] /\ next.done # Len(Sequence)
    BY <2>1 DEF SaveRun, TypeInv
  <2> HIDE DEF next
  <2>4. next.done # Len(Sequence) => next.done < Len(Sequence)
    BY <2>2, SequenceHasSteps DEF Snapshots
  <2>5. run' = next /\ stale' \subseteq Threads
    BY <2>2, <2>3, SaveTyped
  <2> QED
    BY <1>5, <2>2, <2>3, <2>4, <2>5, NoRunIsNone DEF FlowStep, TypeInv, PlacesInv, Places
<1>6. CASE Reply(t)
  <2>1. answers' \in [Keys -> Statuses \cup {NoAnswer}]
    BY <1>6 DEF Reply, TypeInv, PlacesInv, Snapshots
  <2> QED
    BY <1>6, <2>1, RespondTyped DEF Reply, TypeInv, PlacesInv, history
<1>7. CASE FlowRaises(t)
  BY <1>7, RespondTyped DEF FlowRaises, TypeInv, PlacesInv, store, history
<1> QED
  BY <1>1, <1>2, <1>3, <1>4, <1>5, <1>6, <1>7 DEF Handle

\* Snapshots, copies and answers keep their types, and each handler has what it needs.
THEOREM TypesHold == Spec => [](TypeInv /\ PlacesInv)
<1>1. Init => TypeInv /\ PlacesInv
  <2>1. Init => TypeInv
    <3> SUFFICES ASSUME Init
                 PROVE  TypeInv
      OBVIOUS
    <3>1. pc \in [Threads -> Places] /\ key \in [Threads -> Keys \cup {NoKey}]
      BY DEF Init, Places
    <3>2. /\ obj \in [Threads -> Snapshots \cup {NoRun}]
          /\ etag \in [Threads -> Snapshots \cup {NoRun}]
      BY DEF Init
    <3>3. executions \in [Keys -> Nat] /\ duplicates \in [Keys -> Nat]
      BY DEF Init
    <3>4. answers \in [Keys -> Statuses \cup {NoAnswer}]
      BY DEF Init
    <3> QED
      BY <3>1, <3>2, <3>3, <3>4 DEF Init, TypeInv
  <2>2. Init => PlacesInv
    BY DEF Init, PlacesInv
  <2> QED
    BY <2>1, <2>2
<1>2. TypeInv /\ PlacesInv /\ [Next]_vars => (TypeInv /\ PlacesInv)'
  <2> SUFFICES ASSUME TypeInv, PlacesInv, [Next]_vars
               PROVE  (TypeInv /\ PlacesInv)'
    OBVIOUS
  <2>1. CASE UNCHANGED vars
    BY <2>1 DEF vars, store, handler, history, TypeInv, PlacesInv
  <2> QED
    BY <2>1, RequestTyped, HandleTyped DEF Next
<1> QED
  BY <1>1, <1>2, PTL DEF Spec

-----------------------------------------------------------------------------
(* Copies and the snapshot                                                 *)

\* The copy of a handler that is not stale is the snapshot, or the snapshot reopened.
CopyAgrees(t) ==
  /\ pc[t] = "create" => run = NoRun
  /\ pc[t] = "cancel" => run = obj[t]
  /\ pc[t] = "flow"   => run = obj[t] \/ run = [obj[t] EXCEPT !.status = "cancelled"]
  /\ pc[t] = "reply"  =>
       \/ run = obj[t]
       \/ run = [obj[t] EXCEPT !.status = "cancelled"] /\ run.done = Len(Sequence)

CopiesInv == \A t \in Threads \ stale : CopyAgrees(t)

\* A cancelled run stays cancelled as long as whoever could save something else is stale.
CancelInv ==
  cancelled =>
    /\ run # NoRun /\ run.status = "cancelled"
    /\ \A t \in Threads : pc[t] \in {"create", "flow"} => t \in stale

\* After a save every other handler that holds a copy is stale.
LEMMA SavedCopies ==
  ASSUME TypeInv, NEW t \in Threads, NEW s, Save(t, s), CopyAgrees(t)',
         \A u \in Threads \ {t} : pc'[u] = pc[u]
  PROVE  CopiesInv'
<1>1. \A u \in Threads \ {t} : u \notin stale' => pc'[u] \notin {"create", "cancel", "flow", "reply"}
  BY DEF Save, Holding
<1> QED
  BY <1>1 DEF CopiesInv, CopyAgrees

\* What a handler does next keeps the copies in order: its own is fresh or marked stale.
LEMMA HandleCopies ==
  ASSUME TypeInv, PlacesInv, CopiesInv, NEW t \in Threads, Handle(t) \/ FlowRaises(t)
  PROVE  CopiesInv'
<1>1. CASE SaveCancel(t)
  <2>1. CopyAgrees(t)' /\ \A u \in Threads \ {t} : pc'[u] = pc[u]
    BY <1>1, RespondTyped DEF SaveCancel, CopyAgrees
  <2> QED
    BY <1>1, <2>1, SavedCopies DEF SaveCancel
<1>2. ASSUME NEW s \in Snapshots, EnterFlow(t, s), s = run, run' = run
      PROVE  CopiesInv'
  <2>1. /\ obj'[t] = [run EXCEPT !.status = Reopened(@)] /\ stale' = stale \ {t}
        /\ pc'[t] = IF run.done = Len(Sequence) THEN "reply" ELSE "flow"
        /\ \A u \in Threads \ {t} : pc'[u] = pc[u] /\ obj'[u] = obj[u]
    BY <1>2, EnterTyped
  <2>2. run = obj'[t] \/ run = [obj'[t] EXCEPT !.status = "cancelled"]
    BY <1>2, <2>1, ReopenedTyped
  <2>3. CopyAgrees(t)'
    BY <1>2, <2>1, <2>2 DEF CopyAgrees
  <2> QED
    BY <1>2, <2>1, <2>3 DEF CopiesInv, CopyAgrees
<1>3. CASE StartFlow(t)
  <2>1. run' = run
    BY <1>3 DEF StartFlow, store
  <2>2. CASE run = NoRun
    <3>1. pc' = [pc EXCEPT ![t] = "create"] /\ stale' = stale \ {t} /\ obj' = obj
      BY <1>3, <2>2 DEF StartFlow
    <3> QED
      BY <2>1, <2>2, <3>1 DEF CopiesInv, CopyAgrees, TypeInv
  <2>3. CASE run # NoRun
    BY <1>2, <1>3, <2>1, <2>3 DEF StartFlow, TypeInv
  <2> QED
    BY <2>2, <2>3
<1>4. CASE CreateRun(t)
  <2> DEFINE s == [status |-> "leased", done |-> 0]
  <2>1. Save(t, s) /\ obj' = [obj EXCEPT ![t] = s] /\ pc' = [pc EXCEPT ![t] = "flow"]
    BY <1>4 DEF CreateRun, SaveRun
  <2>2. run' = s
    BY <2>1 DEF Save
  <2> HIDE DEF s
  <2>3. CopyAgrees(t)' /\ \A u \in Threads \ {t} : pc'[u] = pc[u]
    BY <2>1, <2>2 DEF CopyAgrees, TypeInv
  <2> QED
    BY <2>1, <2>3, SavedCopies
<1>5. CASE ResumeFlow(t)
  BY <1>2, <1>5 DEF ResumeFlow, TypeInv, PlacesInv, store
<1>6. CASE FlowStep(t)
  <2>1. PICK s : /\ Save(t, s) /\ obj' = [obj EXCEPT ![t] = s]
                 /\ pc' = [pc EXCEPT ![t] = "reply"] \/ pc' = [pc EXCEPT ![t] = "flow"]
    BY <1>6 DEF FlowStep, SaveRun
  <2>2. run' = s
    BY <2>1 DEF Save
  <2>3. CopyAgrees(t)' /\ \A u \in Threads \ {t} : pc'[u] = pc[u]
    BY <2>1, <2>2 DEF CopyAgrees, TypeInv
  <2> QED
    BY <2>1, <2>3, SavedCopies
<1>7. CASE Reply(t) \/ FlowRaises(t)
  <2>1. /\ run' = run /\ stale' = stale
        /\ pc'[t] = "idle" /\ \A u \in Threads \ {t} : pc'[u] = pc[u] /\ obj'[u] = obj[u]
    BY <1>7, RespondTyped DEF Reply, FlowRaises, store, history
  <2> QED
    BY <2>1 DEF CopiesInv, CopyAgrees
<1> QED
  BY <1>1, <1>3, <1>4, <1>5, <1>6, <1>7 DEF Handle

\* A request that arrives takes its copy, and disturbs no other.
LEMMA RequestCopies ==
  ASSUME TypeInv, PlacesInv, CopiesInv, NEW t \in Threads,
         GetRun(t) \/ (\E k \in Keys \cup {NoKey} : PostRun(t, k)) \/ PostCancel(t) \/ PostResume(t)
  PROVE  CopiesInv'
<1>1. /\ run' = run /\ stale' = stale
      /\ \A u \in Threads \ {t} : pc'[u] = pc[u] /\ obj'[u] = obj[u]
      /\ \/ pc'[t] \in {"idle", "start", "resume"}
         \/ pc'[t] = "cancel" /\ obj'[t] = run
  BY DEF GetRun, PostRun, PostCancel, PostResume, store, history, TypeInv
<1> QED
  BY <1>1 DEF CopiesInv, CopyAgrees

\* Every step of handlers, clients and runs keeps the copies in order.
LEMMA CopiesStep ==
  ASSUME TypeInv, PlacesInv, CopiesInv, [Next]_vars
  PROVE  CopiesInv'
<1>1. CASE UNCHANGED vars
  BY <1>1 DEF vars, store, handler, history, CopiesInv, CopyAgrees
<1> QED
  BY <1>1, HandleCopies, RequestCopies DEF Next

\* Whoever holds a copy that is not marked stale holds what is stored.
LEMMA CopiesHold == Spec => []CopiesInv
<1>1. Init => CopiesInv
  BY DEF Init, CopiesInv, CopyAgrees
<1>2. TypeInv /\ PlacesInv /\ CopiesInv /\ [Next]_vars => CopiesInv'
  BY CopiesStep
<1> QED
  BY <1>1, <1>2, TypesHold, PTL DEF Spec

\* What a start or resume is about to answer is what the store holds, unless its copy has
\* become stale in between, or the run was cancelled after its last step (start_run and
\* resume_run answer with the object the flow returned, not with what is stored).
THEOREM RepliesMatch == Spec => []ReplyMatchesStore
<1>1. CopiesInv /\ TypeInv => ReplyMatchesStore
  BY DEF CopiesInv, CopyAgrees, ReplyMatchesStore
<1> QED
  BY <1>1, CopiesHold, TypesHold, PTL

-----------------------------------------------------------------------------
(* Progress                                                                *)

\* A handler that saves over a snapshot another has saved since it took its copy.
SavesStale(t) == t \in stale \ stale' /\ pc[t] \in {"create", "cancel", "flow"}

\* Saving a copy that is not stale loses nothing.
LEMMA SaveKeepsProgress ==
  ASSUME TypeInv, PlacesInv, CopiesInv, NEW t \in Threads, Handle(t) \/ FlowRaises(t),
         run # NoRun, ~SavesStale(t)
  PROVE  ~(run'.done < run.done)
<1>0. run \in Snapshots /\ run.done \in Nat /\ ~(run.done < run.done)
  BY SequenceHasSteps DEF TypeInv, Snapshots
<1>1. CASE SaveCancel(t)
  <2>1. obj[t] \in Snapshots /\ pc[t] = "cancel"
    BY <1>1 DEF SaveCancel, PlacesInv
  <2>2. run'.done = obj[t].done /\ t \notin stale'
    BY <1>1, <2>1, ReopenedTyped DEF SaveCancel, Save
  <2>3. run = obj[t]
    BY <2>1, <2>2 DEF SavesStale, CopiesInv, CopyAgrees
  <2> QED
    BY <1>0, <2>2, <2>3
<1>2. CASE CreateRun(t)
  <2>1. t \in stale /\ t \notin stale' /\ pc[t] = "create"
    BY <1>2 DEF CreateRun, SaveRun, Save, CopiesInv, CopyAgrees
  <2> QED
    BY <2>1 DEF SavesStale
<1>3. CASE FlowStep(t)
  <2>1. PICK s \in Lifecycle!Outcome(Sequence[obj[t].done + 1], obj[t].status) :
          Save(t, [status |-> s, done |-> obj[t].done + 1])
    BY <1>3 DEF FlowStep, SaveRun
  <2>2. run'.done = obj[t].done + 1 /\ t \notin stale'
    BY <2>1 DEF Save
  <2>3. obj[t] \in Snapshots /\ pc[t] = "flow"
    BY <1>3 DEF FlowStep, PlacesInv
  <2>4. run.done = obj[t].done
    BY <2>2, <2>3, ReopenedTyped DEF SavesStale, CopiesInv, CopyAgrees
  <2>5. \A n \in Nat : ~(n + 1 < n)
    OBVIOUS
  <2> QED
    BY <1>0, <2>2, <2>4, <2>5
<1>4. CASE StartFlow(t) \/ ResumeFlow(t) \/ Reply(t) \/ FlowRaises(t)
  BY <1>0, <1>4 DEF StartFlow, ResumeFlow, Reply, FlowRaises, store
<1> QED
  BY <1>1, <1>2, <1>3, <1>4 DEF Handle

\* Completed steps are lost only in the save of a handler whose copy another handler has
\* saved over since it took it (start, cancel and resume check a copy once and save it
\* later): each loss has a stale save of its own.
THEOREM ProgressIsKept == Spec => ProgressIsLostOnlyToStaleSaves
<1>1. TypeInv /\ PlacesInv /\ CopiesInv /\ [Next]_vars =>
        [(run # NoRun /\ run'.done < run.done) =>
           \E t \in stale \ stale' : pc[t] \in {"create", "cancel", "flow"}]_vars
  <2> SUFFICES ASSUME TypeInv, PlacesInv, CopiesInv, Next, run # NoRun, run'.done < run.done
               PROVE  \E t \in Threads : SavesStale(t)
    BY DEF SavesStale, TypeInv
  <2>1. PICK t \in Threads :
          \/ GetRun(t) \/ (\E k \in Keys \cup {NoKey} : PostRun(t, k)) \/ PostCancel(t) \/ PostResume(t)
          \/ Handle(t) \/ FlowRaises(t)
    BY DEF Next
  <2>2. run.done \in Nat
    BY SequenceHasSteps DEF TypeInv, Snapshots
  <2>3. CASE Handle(t) \/ FlowRaises(t)
    BY <2>3, SaveKeepsProgress
  <2>4. CASE GetRun(t) \/ (\E k \in Keys \cup {NoKey} : PostRun(t, k)) \/ PostCancel(t) \/ PostResume(t)
    <3>1. run' = run
      BY <2>4 DEF GetRun, PostRun, PostCancel, PostResume, store
    <3> QED
      BY <2>2, <3>1
  <2> QED
    BY <2>1, <2>3, <2>4
<1> QED
  BY <1>1, TypesHold, CopiesHold, PTL DEF Spec, ProgressIsLostOnlyToStaleSaves

-----------------------------------------------------------------------------
(* Cancels                                                                 *)

\* A confirmed cancel survives every step that the exception does not name.
LEMMA CancelStep ==
  ASSUME TypeInv, PlacesInv, CopiesInv, CancelInv, NEW t \in Threads, Handle(t) \/ FlowRaises(t)
  PROVE  CancelInv'
<1>1. CASE SaveCancel(t)
  <2> DEFINE s == [obj[t] EXCEPT !.status = "cancelled"]
  <2>1. s \in Snapshots /\ s.status = "cancelled"
    BY <1>1, ReopenedTyped DEF SaveCancel, PlacesInv
  <2>2. Save(t, s) /\ Respond(t)
    BY <1>1 DEF SaveCancel
  <2> HIDE DEF s
  <2>3. run' # NoRun /\ run'.status = "cancelled"
    BY <2>1, <2>2, NoRunIsNone DEF Save
  <2>4. \A u \in Threads : pc'[u] \in {"create", "flow"} => u \in stale'
    <3>1. SUFFICES ASSUME NEW u \in Threads, pc'[u] \in {"create", "flow"}
                   PROVE  u \in stale'
      OBVIOUS
    <3>2. u # t /\ pc[u] = pc'[u]
      BY <2>2, <3>1, RespondTyped
    <3> QED
      BY <2>2, <3>1, <3>2 DEF Save, Holding
  <2> QED
    BY <2>3, <2>4 DEF CancelInv
<1>2. CASE StartFlow(t)
  <2>1. run' = run
    BY <1>2 DEF StartFlow, store
  <2>2. CASE run = NoRun
    BY <1>2, <2>2 DEF StartFlow, CancelInv
  <2>3. CASE run # NoRun
    BY <1>2, <2>3 DEF StartFlow, EnterFlow, CancelInv
  <2> QED
    BY <2>2, <2>3
<1>3. CASE ResumeFlow(t)
  BY <1>3 DEF ResumeFlow, EnterFlow, CancelInv
<1>4. ASSUME NEW s \in Snapshots, SaveRun(t, s), pc[t] \in {"create", "flow"}
      PROVE  CancelInv'
  <2>1. cancelled => t \in stale
    BY <1>4 DEF CancelInv
  <2>2. ~cancelled'
    BY <1>4, <2>1 DEF SaveRun
  <2> QED
    BY <2>2 DEF CancelInv
<1>5. CASE CreateRun(t)
  <2>1. [status |-> "leased", done |-> 0] \in Snapshots
    BY SequenceHasSteps DEF Snapshots, Statuses
  <2> QED
    BY <1>4, <1>5, <2>1 DEF CreateRun
<1>6. CASE FlowStep(t)
  <2>1. PICK s \in Lifecycle!Outcome(Sequence[obj[t].done + 1], obj[t].status) :
          SaveRun(t, [status |-> s, done |-> obj[t].done + 1])
    BY <1>6 DEF FlowStep
  <2>2. [status |-> s, done |-> obj[t].done + 1] \in Snapshots
    BY <1>6, NextTyped DEF FlowStep
  <2> QED
    BY <1>4, <1>6, <2>1, <2>2 DEF FlowStep
<1>7. CASE Reply(t) \/ FlowRaises(t)
  <2>1. /\ run' = run /\ stale' = stale /\ cancelled' = cancelled
        /\ pc'[t] = "idle" /\ \A u \in Threads \ {t} : pc'[u] = pc[u]
    BY <1>7, RespondTyped DEF Reply, FlowRaises, store, history
  <2> QED
    BY <2>1 DEF CancelInv
<1> QED
  BY <1>1, <1>2, <1>3, <1>5, <1>6, <1>7 DEF Handle

\* A cancelled run is overwritten by no handler whose copy is fresh.
LEMMA CancelInvHolds == Spec => []CancelInv
<1>1. Init => CancelInv
  BY DEF Init, CancelInv
<1>2. TypeInv /\ PlacesInv /\ CopiesInv /\ CancelInv /\ [Next]_vars => CancelInv'
  <2> SUFFICES ASSUME TypeInv, PlacesInv, CopiesInv, CancelInv, [Next]_vars
               PROVE  CancelInv'
    OBVIOUS
  <2>1. CASE UNCHANGED vars
    BY <2>1 DEF vars, store, handler, history, CancelInv
  <2>2. ASSUME NEW t \in Threads,
               GetRun(t) \/ (\E k \in Keys \cup {NoKey} : PostRun(t, k)) \/ PostCancel(t) \/ PostResume(t)
        PROVE  CancelInv'
    <3>1. /\ run' = run /\ stale' = stale /\ cancelled' = cancelled
          /\ \A u \in Threads : pc'[u] \in {"create", "flow"} => pc[u] = pc'[u]
      BY <2>2 DEF GetRun, PostRun, PostCancel, PostResume, store, history, TypeInv
    <3> QED
      BY <3>1 DEF CancelInv
  <2> QED
    BY <2>1, <2>2, CancelStep DEF Next
<1> QED
  BY <1>1, <1>2, TypesHold, CopiesHold, PTL DEF Spec

\* A confirmed cancel (cancel_run has saved and answered) stands until a start or resume
\* enters the flow or a handler saves a copy that has become stale, whatever handlers are
\* in progress.
THEOREM CancelsStand == Spec => []CancelStandsUnlessOverwritten
<1>1. CancelInv => CancelStandsUnlessOverwritten
  BY DEF CancelInv, CancelStandsUnlessOverwritten
<1> QED
  BY <1>1, CancelInvHolds, PTL

-----------------------------------------------------------------------------
(* Keys                                                                    *)

\* The starts with a key that have been let in and have not entered the flow yet.
Starting(k) == {t \in Threads : pc[t] = "start" /\ key[t] = k}

\* A start that was let in counts before it executes; a key nobody answered and nobody
\* works on has executed only as often as it failed or was duplicated.
KeyInv(k) ==
  /\ IsFiniteSet(Starting(k))
  /\ executions[k] + Cardinality(Starting(k)) <= 1 + raises + duplicates[k]
  /\ (answers[k] = NoAnswer /\ ~InFlight(k)) => executions[k] <= raises + duplicates[k]

KeysInv == \A k \in Keys : KeyInv(k)

\* What is counted for a key is a number.
LEMMA KeyNumbers ==
  ASSUME TypeInv, NEW k \in Keys
  PROVE  executions[k] \in Nat /\ duplicates[k] \in Nat /\ raises \in Nat
  BY DEF TypeInv

\* A step that starts, answers and counts nothing for a key.
LEMMA OtherKeyStep ==
  ASSUME NEW k \in Keys, KeyInv(k), Starting(k)' = Starting(k), InFlight(k) => InFlight(k)',
         UNCHANGED <<raises, answers[k], executions[k], duplicates[k]>>
  PROVE  KeyInv(k)'
  BY DEF KeyInv

\* start_run before the flow: the key is looked up, and is in flight from here on.
LEMMA PostRunKeys ==
  ASSUME TypeInv, PlacesInv, KeysInv, NEW t \in Threads, NEW j \in Keys \cup {NoKey}, PostRun(t, j)
  PROVE  KeysInv'
<1>1. /\ pc[t] = "idle" /\ key[t] = NoKey /\ pc' = [pc EXCEPT ![t] = "start"]
      /\ key' = [key EXCEPT ![t] = j] /\ UNCHANGED <<raises, answers, executions>>
      /\ duplicates' = IF j \in Keys /\ InFlight(j) THEN [duplicates EXCEPT ![j] = @ + 1] ELSE duplicates
  BY DEF PostRun, Request, store, PlacesInv
<1> SUFFICES ASSUME NEW k \in Keys
             PROVE  KeyInv(k)'
  BY DEF KeysInv
<1>2. pc'[t] = "start" /\ key'[t] = j /\ \A u \in Threads \ {t} : pc'[u] = pc[u] /\ key'[u] = key[u]
  BY <1>1 DEF TypeInv
<1>3. KeyInv(k)
  BY DEF KeysInv
<1>4. CASE j # k
  <2>1. Starting(k)' = Starting(k) /\ (InFlight(k) => InFlight(k)')
    BY <1>1, <1>2, <1>4 DEF Starting, InFlight
  <2>2. duplicates'[k] = duplicates[k]
    BY <1>1, <1>4 DEF TypeInv
  <2> QED
    BY <1>1, <1>3, <2>1, <2>2, OtherKeyStep
<1>5. CASE j = k
  <2>1. Starting(k)' = Starting(k) \cup {t} /\ t \notin Starting(k)
    BY <1>1, <1>2, <1>5 DEF Starting
  <2>2. /\ IsFiniteSet(Starting(k)') /\ Cardinality(Starting(k)') = Cardinality(Starting(k)) + 1
        /\ Cardinality(Starting(k)) \in Nat
    BY <1>3, <2>1, FS_AddElement, FS_CardinalityType DEF KeyInv
  <2>3. InFlight(k)'
    BY <1>2, <1>5 DEF InFlight
  <2>4. CASE InFlight(k)
    <3>1. duplicates'[k] = duplicates[k] + 1
      BY <1>1, <1>5, <2>4 DEF TypeInv
    <3>2. executions'[k] + Cardinality(Starting(k)') <= 1 + raises' + duplicates'[k]
      <4>1. \A e, c, r, d \in Nat : e + c <= 1 + r + d => e + (c + 1) <= 1 + r + (d + 1)
        OBVIOUS
      <4>2. /\ executions[k] \in Nat /\ duplicates[k] \in Nat /\ raises \in Nat
            /\ executions[k] + Cardinality(Starting(k)) <= 1 + raises + duplicates[k]
        BY <1>3, KeyNumbers DEF KeyInv
      <4> QED
        BY <1>1, <2>2, <3>1, <4>1, <4>2
    <3> QED
      BY <2>2, <2>3, <3>2 DEF KeyInv
  <2>5. CASE ~InFlight(k)
    <3>1. duplicates'[k] = duplicates[k] /\ answers[k] = NoAnswer
      BY <1>1, <1>5, <2>5 DEF PostRun
    <3>2. Starting(k) = {}
      BY <2>5 DEF Starting, InFlight
    <3>3. executions'[k] + Cardinality(Starting(k)') <= 1 + raises' + duplicates'[k]
      <4>1. \A e, r, d \in Nat : e <= r + d => e + (0 + 1) <= 1 + r + d
        OBVIOUS
      <4>2. executions[k] <= raises + duplicates[k] /\ Cardinality(Starting(k)) = 0
        BY <1>3, <2>5, <3>1, <3>2, FS_EmptySet DEF KeyInv
      <4> QED
        BY <1>1, <2>2, <3>1, <4>1, <4>2, KeyNumbers
    <3> QED
      BY <2>2, <2>3, <3>3 DEF KeyInv
  <2> QED
    BY <2>4, <2>5
<1> QED
  BY <1>4, <1>5

\* start_run enters the flow: the one place where a key starts anything.
LEMMA StartFlowKeys ==
  ASSUME TypeInv, PlacesInv, KeysInv, NEW t \in Threads, StartFlow(t)
  PROVE  KeysInv'
<1>1. /\ pc[t] = "start" /\ UNCHANGED <<answers, key, raises, duplicates>>
      /\ executions' = IF key[t] \in Keys THEN [executions EXCEPT ![key[t]] = @ + 1] ELSE executions
  BY DEF StartFlow, store
<1>2. pc'[t] \in {"create", "flow", "reply"} /\ \A u \in Threads \ {t} : pc'[u] = pc[u]
  BY DEF StartFlow, EnterFlow, TypeInv
<1> SUFFICES ASSUME NEW k \in Keys
             PROVE  KeyInv(k)'
  BY DEF KeysInv
<1>3. KeyInv(k) /\ (InFlight(k) => InFlight(k)')
  BY <1>1, <1>2 DEF KeysInv, InFlight
<1>4. CASE key[t] # k
  <2>1. Starting(k)' = Starting(k)
    BY <1>1, <1>2, <1>4 DEF Starting
  <2>2. executions'[k] = executions[k]
    BY <1>1, <1>4 DEF TypeInv
  <2> QED
    BY <1>1, <1>3, <2>1, <2>2, OtherKeyStep
<1>5. CASE key[t] = k
  <2>1. Starting(k)' = Starting(k) \ {t} /\ t \in Starting(k)
    BY <1>1, <1>2, <1>5 DEF Starting
  <2>2. /\ IsFiniteSet(Starting(k)') /\ Cardinality(Starting(k)') = Cardinality(Starting(k)) - 1
        /\ Cardinality(Starting(k)) \in Nat
    BY <1>3, <2>1, FS_RemoveElement, FS_CardinalityType DEF KeyInv
  <2>3. InFlight(k)'
    BY <1>1, <1>2, <1>5 DEF InFlight
  <2>4. executions'[k] = executions[k] + 1
    BY <1>1, <1>5 DEF TypeInv
  <2>5. executions'[k] + Cardinality(Starting(k)') <= 1 + raises' + duplicates'[k]
    <3>1. \A e, c, b \in Nat : e + c <= b => (e + 1) + (c - 1) <= b
      OBVIOUS
    <3>2. /\ executions[k] \in Nat /\ 1 + raises + duplicates[k] \in Nat
          /\ executions[k] + Cardinality(Starting(k)) <= 1 + raises + duplicates[k]
      BY <1>3, KeyNumbers DEF KeyInv
    <3> QED
      BY <1>1, <2>2, <2>4, <3>1, <3>2
  <2> QED
    BY <2>2, <2>3, <2>5 DEF KeyInv
<1> QED
  BY <1>4, <1>5

\* start_run answers: the key is stored, and in flight no more.
LEMMA ReplyKeys ==
  ASSUME TypeInv, PlacesInv, KeysInv, NEW t \in Threads, Reply(t)
  PROVE  KeysInv'
<1>1. /\ pc[t] = "reply" /\ UNCHANGED <<raises, executions, duplicates>>
      /\ answers' = IF key[t] \in Keys THEN [answers EXCEPT ![key[t]] = obj[t].status] ELSE answers
      /\ pc'[t] = "idle" /\ \A u \in Threads \ {t} : pc'[u] = pc[u] /\ key'[u] = key[u]
  BY RespondTyped DEF Reply, history
<1> SUFFICES ASSUME NEW k \in Keys
             PROVE  KeyInv(k)'
  BY DEF KeysInv
<1>2. KeyInv(k) /\ Starting(k)' = Starting(k)
  BY <1>1 DEF KeysInv, Starting
<1>3. CASE key[t] # k
  BY <1>1, <1>2, <1>3, OtherKeyStep DEF InFlight, TypeInv
<1>4. CASE key[t] = k
  <2>1. answers'[k] # NoAnswer
    BY <1>1, <1>4, NoneAssumption DEF TypeInv, PlacesInv, Snapshots
  <2> QED
    BY <1>1, <1>2, <2>1 DEF KeyInv
<1> QED
  BY <1>3, <1>4

\* A flow that raises leaves its key unanswered: its request may be repeated.
LEMMA FlowRaisesKeys ==
  ASSUME TypeInv, PlacesInv, KeysInv, NEW t \in Threads, FlowRaises(t)
  PROVE  KeysInv'
<1>1. /\ pc[t] = "flow" /\ raises' = raises + 1 /\ UNCHANGED <<answers, executions, duplicates>>
      /\ pc'[t] = "idle" /\ \A u \in Threads \ {t} : pc'[u] = pc[u] /\ key'[u] = key[u]
  BY RespondTyped DEF FlowRaises, store, history
<1> SUFFICES ASSUME NEW k \in Keys
             PROVE  KeyInv(k)'
  BY DEF KeysInv
<1>2. KeyInv(k) /\ Starting(k)' = Starting(k)
  BY <1>1 DEF KeysInv, Starting
<1>3. /\ executions[k] \in Nat /\ duplicates[k] \in Nat /\ raises \in Nat
      /\ Cardinality(Starting(k)) \in Nat
  BY <1>2, KeyNumbers, FS_CardinalityType DEF KeyInv
<1>4. \A e, c, r, d \in Nat : e + c <= 1 + r + d => /\ e + c <= 1 + (r + 1) + d
                                                   /\ e <= (r + 1) + d
  OBVIOUS
<1> QED
  BY <1>1, <1>2, <1>3, <1>4 DEF KeyInv

\* The steps that neither let a start in, nor let it into the flow, nor answer one.
LEMMA QuietKeys ==
  ASSUME TypeInv, PlacesInv, KeysInv, NEW t \in Threads,
         \/ GetRun(t) \/ PostCancel(t) \/ PostResume(t)
         \/ SaveCancel(t) \/ CreateRun(t) \/ ResumeFlow(t) \/ FlowStep(t)
  PROVE  KeysInv'
<1> SUFFICES ASSUME NEW k \in Keys
             PROVE  KeyInv(k)'
  BY DEF KeysInv
<1>1. UNCHANGED <<raises, answers, executions, duplicates>>
  BY DEF GetRun, PostCancel, PostResume, SaveCancel, CreateRun, ResumeFlow, FlowStep, store, history
<1>2. /\ \A u \in Threads \ {t} : pc'[u] = pc[u] /\ key'[u] = key[u]
      /\ pc[t] # "start" /\ pc'[t] # "start"
      /\ key[t] = NoKey \/ (pc'[t] # "idle" /\ key'[t] = key[t])
  <2>1. CASE SaveCancel(t)
    BY <2>1, RespondTyped DEF SaveCancel, PlacesInv
  <2>2. CASE GetRun(t) \/ PostCancel(t) \/ PostResume(t)
    BY <2>2 DEF GetRun, PostCancel, PostResume, Request, TypeInv, PlacesInv
  <2>3. CASE CreateRun(t) \/ ResumeFlow(t)
    BY <2>3 DEF CreateRun, ResumeFlow, EnterFlow, TypeInv
  <2>4. CASE FlowStep(t)
    <3>1. /\ pc[t] = "flow" /\ key' = key
          /\ pc' = [pc EXCEPT ![t] = "reply"] \/ pc' = [pc EXCEPT ![t] = "flow"]
      BY <2>4 DEF FlowStep
    <3> QED
      BY <3>1 DEF TypeInv
  <2> QED
    BY <2>1, <2>2, <2>3, <2>4
<1>3. k # NoKey
  BY NoneAssumption
<1>4. Starting(k)' = Starting(k)
  BY <1>2 DEF Starting
<1>5. InFlight(k) => InFlight(k)'
  BY <1>2, <1>3 DEF InFlight
<1> QED
  BY <1>1, <1>4, <1>5, OtherKeyStep DEF KeysInv

\* A start whose request fails may be repeated, and one that arrives while another with its
\* key is in flight is not recognised (start_run looks its key up before and stores the
\* result after the flow); apart from these, a key starts the flow once.
THEOREM KeysStartOnce == Spec => []KeyStartsOnceUnlessInFlight
<1>1. Init => KeysInv
  <2> SUFFICES ASSUME Init, NEW k \in Keys
               PROVE  KeyInv(k)
    BY DEF KeysInv
  <2>1. Starting(k) = {} /\ executions[k] = 0 /\ raises = 0 /\ duplicates[k] = 0
    BY DEF Init, Starting
  <2>2. IsFiniteSet(Starting(k)) /\ Cardinality(Starting(k)) = 0
    BY <2>1, FS_EmptySet
  <2> QED
    BY <2>1, <2>2 DEF KeyInv
<1>2. TypeInv /\ PlacesInv /\ KeysInv /\ [Next]_vars => KeysInv'
  <2> SUFFICES ASSUME TypeInv, PlacesInv, KeysInv, [Next]_vars
               PROVE  KeysInv'
    OBVIOUS
  <2>1. CASE UNCHANGED vars
    BY <2>1 DEF vars, store, handler, history, KeysInv, KeyInv, Starting, InFlight
  <2> QED
    BY <2>1, PostRunKeys, StartFlowKeys, ReplyKeys, FlowRaisesKeys, QuietKeys DEF Next, Handle
<1>3. TypeInv /\ KeysInv => KeyStartsOnceUnlessInFlight
  <2> SUFFICES ASSUME TypeInv, KeysInv, NEW k \in Keys
               PROVE  executions[k] <= 1 + raises + duplicates[k]
    BY DEF KeyStartsOnceUnlessInFlight
  <2>1. KeyInv(k) /\ Cardinality(Starting(k)) \in Nat
    BY FS_CardinalityType DEF KeysInv, KeyInv
  <2>2. \A e, c, b \in Nat : e + c <= b => e <= b
    OBVIOUS
  <2>3. 1 + raises + duplicates[k] \in Nat /\ executions[k] \in Nat
    BY KeyNumbers
  <2> QED
    BY <2>1, <2>2, <2>3 DEF KeyInv
<1> QED
  BY <1>1, <1>2, <1>3, TypesHold, PTL DEF Spec

=============================================================================
