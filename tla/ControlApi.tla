----------------------------- MODULE ControlApi -----------------------------
(***************************************************************************)
(* The run endpoints of the control plane (api/app.py): start with an      *)
(* Idempotency-Key, get, cancel and resume with If-Match.                  *)
(*                                                                         *)
(* The handlers are synchronous functions, each request on a thread of the *)
(* server's pool, with no lock around what they read and write.  A handler *)
(* that changes the run reads its snapshot, works on its own copy and      *)
(* saves the whole copy; between its store calls the others act.           *)
(*                                                                         *)
(* flow.start and flow.resume are ProjectExecutionFlow: here they load the *)
(* run, and each step of Sequence changes the status as the run lifecycle  *)
(* lets that step, and saves.  A step before its save touches the copy     *)
(* only, so step and save are one action.  One run with one attempt: no    *)
(* endpoint starts another.  A snapshot is what an ETag hashes: its status *)
(* and how many steps it has completed.                                    *)
(***************************************************************************)
EXTENDS RunTypes, Sequences, FiniteSets

CONSTANTS
  Threads,          \* threads that handle requests, each for a client of its own
  Keys,             \* idempotency keys of start requests
  NoKey,            \* a start request without one
  NoRun,            \* the run has no snapshot
  NoAnswer,         \* the idempotency store has no result for a key
  Sequence,         \* the steps of the flow whose outcomes matter, in order
  MaxRequests,      \* bound: starts, cancels and resumes
  MaxRaises         \* bound: ports that raise inside the flow

ASSUME SequenceAssumption == Sequence \in Seq(Steps) /\ Sequence # <<>>
ASSUME BoundsAssumption   == {MaxRequests, MaxRaises} \subseteq Nat
ASSUME NoneAssumption     == /\ NoKey \notin Keys /\ NoAnswer \notin Statuses
                             /\ NoRun \notin [status : Statuses, done : Nat]

VARIABLES
  run,              \* RunStateStore: the snapshot [status, done], or NoRun
  answers,          \* IdempotencyStore: the status a key was answered with
  pc,               \* where each handler is
  obj,              \* the handler's own copy of the snapshot
  etag,             \* the snapshot whose ETag the client has
  key,              \* idempotency-key of the request
  requests,         \* requests so far
  raises,           \* ports that have raised so far
  stale,            \* history: handlers whose copy another has since overwritten
  cancelled,        \* history: a cancel was confirmed, and since then nobody entered the
                    \*   flow and no stale copy was saved
  executions,       \* history: how often a start with each key has entered the flow
  duplicates        \* history: starts let in while one with their key was in flight

store   == <<run, answers>>
handler == <<pc, obj, etag, key>>
history == <<stale, cancelled, executions, duplicates>>
vars    == <<store, handler, requests, raises, history>>

Lifecycle == INSTANCE RunLifecycle WITH
  Attempts <- {1}, status <- <<run>>, progress <- <<run>>

Init ==
  /\ run = NoRun
  /\ answers = [k \in Keys |-> NoAnswer]
  /\ pc = [t \in Threads |-> "idle"]
  /\ obj = [t \in Threads |-> NoRun]
  /\ etag = [t \in Threads |-> NoRun]
  /\ key = [t \in Threads |-> NoKey]
  /\ requests = 0
  /\ raises = 0
  /\ stale = {}
  /\ cancelled = FALSE
  /\ executions = [k \in Keys |-> 0]
  /\ duplicates = [k \in Keys |-> 0]

-----------------------------------------------------------------------------
(* Requests                                                                *)

\* GET: the client learns the ETag of the latest snapshot.
GetRun(t) ==
  /\ pc[t] = "idle"
  /\ run # NoRun
  /\ etag' = [etag EXCEPT ![t] = run]
  /\ UNCHANGED <<store, pc, obj, key, requests, raises, history>>

\* A request that is turned down (404, 409), or answered with the result stored
\* for its key, changes nothing and is no action.
Request(t) ==
  /\ pc[t] = "idle"
  /\ requests < MaxRequests
  /\ requests' = requests + 1

InFlight(k) == \E u \in Threads : pc[u] # "idle" /\ key[u] = k

PostRun(t, k) ==
  /\ Request(t)
  /\ k \in Keys => answers[k] = NoAnswer
  /\ pc' = [pc EXCEPT ![t] = "start"]
  /\ key' = [key EXCEPT ![t] = k]
  /\ duplicates' = IF k \in Keys /\ InFlight(k) THEN [duplicates EXCEPT ![k] = @ + 1]
                                                ELSE duplicates
  /\ UNCHANGED <<store, obj, etag, raises, stale, cancelled, executions>>

\* _require_if_match, on the snapshot the handler has just loaded.
IfMatch(t) == run # NoRun /\ etag[t] = run

PostCancel(t) ==
  /\ Request(t)
  /\ IfMatch(t)
  /\ obj' = [obj EXCEPT ![t] = run]
  /\ pc' = [pc EXCEPT ![t] = "cancel"]
  /\ UNCHANGED <<store, etag, key, raises, history>>

PostResume(t) ==
  /\ Request(t)
  /\ IfMatch(t)
  /\ pc' = [pc EXCEPT ![t] = "resume"]
  /\ UNCHANGED <<store, obj, etag, key, raises, history>>

-----------------------------------------------------------------------------
(* Handlers                                                                *)

Holding(u) == pc[u] \in {"create", "cancel", "flow", "reply"}

\* run_state_store.save: the copy replaces the snapshot, whatever it is by now.
Save(t, snapshot) ==
  /\ run' = snapshot
  /\ stale' = (stale \cup {u \in Threads : Holding(u)}) \ {t}

Respond(t) ==
  /\ pc' = [pc EXCEPT ![t] = "idle"]
  /\ obj' = [obj EXCEPT ![t] = NoRun]
  /\ key' = [key EXCEPT ![t] = NoKey]

\* Slip: the cancelled status stays in the handler's copy.
SaveCancelNot(t) ==
  /\ pc[t] = "cancel"
  /\ cancelled' = TRUE
  /\ Respond(t)
  /\ UNCHANGED <<store, etag, requests, raises, stale, executions, duplicates>>

SaveCancel(t) ==
  /\ pc[t] = "cancel"
  /\ Save(t, [obj[t] EXCEPT !.status = "cancelled"])
  /\ cancelled' = TRUE
  /\ Respond(t)
  /\ UNCHANGED <<answers, etag, requests, raises, executions, duplicates>>

\* A save of the flow; of a stale copy, it may undo the cancel that was confirmed.
SaveRun(t, snapshot) ==
  /\ Save(t, snapshot)
  /\ cancelled' = (cancelled /\ t \notin stale)

\* _reset_if_cancelled, then past the steps that are done.
EnterFlow(t, snapshot) ==
  /\ obj' = [obj EXCEPT ![t] = [snapshot EXCEPT !.status = Reopened(@)]]
  /\ pc' = [pc EXCEPT ![t] = IF snapshot.done = Len(Sequence) THEN "reply" ELSE "flow"]
  /\ stale' = stale \ {t}
  /\ cancelled' = FALSE

\* Slip: the flow does not look for an existing snapshot.
StartFlowAfresh(t) ==
  /\ pc[t] = "start"
  /\ executions' = IF key[t] \in Keys THEN [executions EXCEPT ![key[t]] = @ + 1] ELSE executions
  /\ pc' = [pc EXCEPT ![t] = "create"]
  /\ stale' = stale \ {t}
  /\ UNCHANGED <<store, obj, etag, key, requests, raises, cancelled, duplicates>>

\* flow.start loads.
StartFlow(t) ==
  /\ pc[t] = "start"
  /\ executions' = IF key[t] \in Keys THEN [executions EXCEPT ![key[t]] = @ + 1] ELSE executions
  /\ \/ /\ run = NoRun
        /\ pc' = [pc EXCEPT ![t] = "create"]
        /\ stale' = stale \ {t}
        /\ UNCHANGED <<obj, cancelled>>
     \/ /\ run # NoRun
        /\ EnterFlow(t, run)
  /\ UNCHANGED <<store, etag, key, requests, raises, duplicates>>

CreateRun(t) ==
  /\ pc[t] = "create"
  /\ obj' = [obj EXCEPT ![t] = [status |-> "leased", done |-> 0]]
  /\ SaveRun(t, [status |-> "leased", done |-> 0])
  /\ pc' = [pc EXCEPT ![t] = "flow"]
  /\ UNCHANGED <<answers, etag, key, requests, raises, executions, duplicates>>

\* flow.resume loads again.
ResumeFlow(t) ==
  /\ pc[t] = "resume"
  /\ EnterFlow(t, run)
  /\ UNCHANGED <<store, etag, key, requests, raises, executions, duplicates>>

\* Slip: a step is recorded after the save.
FlowStepUnsaved(t) ==
  /\ pc[t] = "flow"
  /\ \E s \in Lifecycle!Outcome(Sequence[obj[t].done + 1], obj[t].status) :
       LET next == [status |-> s, done |-> obj[t].done + 1]
       IN  /\ obj' = [obj EXCEPT ![t] = next]
           /\ SaveRun(t, [obj[t] EXCEPT !.status = s])
           /\ pc' = [pc EXCEPT ![t] =
                       IF s \in EarlyExitStatuses \/ next.done = Len(Sequence) THEN "reply" ELSE "flow"]
  /\ UNCHANGED <<answers, etag, key, requests, raises, executions, duplicates>>

FlowStep(t) ==
  /\ pc[t] = "flow"
  /\ \E s \in Lifecycle!Outcome(Sequence[obj[t].done + 1], obj[t].status) :
       LET next == [status |-> s, done |-> obj[t].done + 1]
       IN  /\ obj' = [obj EXCEPT ![t] = next]
           /\ SaveRun(t, next)
           /\ pc' = [pc EXCEPT ![t] =
                       IF s \in EarlyExitStatuses \/ next.done = Len(Sequence) THEN "reply" ELSE "flow"]
  /\ UNCHANGED <<answers, etag, key, requests, raises, executions, duplicates>>

\* Slip: the result of a start is not stored under its key.
ReplyUnstored(t) ==
  /\ pc[t] = "reply"
  /\ Respond(t)
  /\ UNCHANGED <<store, etag, requests, raises, history>>

Reply(t) ==
  /\ pc[t] = "reply"
  /\ answers' = IF key[t] \in Keys THEN [answers EXCEPT ![key[t]] = obj[t].status] ELSE answers
  /\ Respond(t)
  /\ UNCHANGED <<run, etag, requests, raises, history>>

\* A port raises inside the flow: the request fails, nothing is stored for its key.
FlowRaises(t) ==
  /\ pc[t] = "flow"
  /\ raises < MaxRaises
  /\ raises' = raises + 1
  /\ Respond(t)
  /\ UNCHANGED <<store, etag, requests, history>>

-----------------------------------------------------------------------------

Handle(t) ==
  \/ SaveCancel(t)
  \/ StartFlow(t)
  \/ CreateRun(t)
  \/ ResumeFlow(t)
  \/ FlowStep(t)
  \/ Reply(t)

Next ==
  \E t \in Threads :
    \/ GetRun(t)
    \/ \E k \in Keys \cup {NoKey} : PostRun(t, k)
    \/ PostCancel(t)
    \/ PostResume(t)
    \/ Handle(t)
    \/ FlowRaises(t)

Spec == Init /\ [][Next]_vars

-----------------------------------------------------------------------------
(* Properties                                                              *)

\* Completed steps are lost only in the save of a handler whose copy another handler has
\* saved over since it took it: each loss has a stale save of its own, and handlers that
\* follow each other lose nothing.
ProgressIsLostOnlyToStaleSaves ==
  [][(run # NoRun /\ run'.done < run.done) =>
       \E t \in stale \ stale' : pc[t] \in {"create", "cancel", "flow"}]_vars

\* A confirmed cancel stands until a start or a resume enters the flow, or a handler saves
\* a copy that has become stale.
CancelStandsUnlessOverwritten == cancelled => run # NoRun /\ run.status = "cancelled"

\* A start whose request fails may be repeated, and one that arrives while another
\* with its key is in flight is not recognised; apart from these, a key starts
\* the flow once.
KeyStartsOnceUnlessInFlight ==
  \A k \in Keys : executions[k] <= 1 + raises + duplicates[k]

\* What a start or resume is about to answer is what the store holds, unless the
\* handler's copy has become stale.  One exception: a run that was cancelled
\* after its last step is answered as running, and stays cancelled in the store.
ReplyMatchesStore ==
  \A t \in Threads : (pc[t] = "reply" /\ t \notin stale) =>
    \/ run = obj[t]
    \/ run = [obj[t] EXCEPT !.status = "cancelled"] /\ run.done = Len(Sequence)

=============================================================================
