---------------------------- MODULE LeaseWorker ----------------------------
(***************************************************************************)
(* Workers that execute one run under a time-limited lease (worker.py).    *)
(*                                                                         *)
(* A worker looks at the lease, acquires it, records a reconciliation when *)
(* it saw that it was taking over an expired one, executes the flow and    *)
(* releases the lease.  Between any two of these the other workers act and *)
(* time passes: nothing in the code renews a lease while its run executes. *)
(*                                                                         *)
(* flow.start() is ProjectExecutionFlow, of which the checkpoint and the   *)
(* effects matter here: load the checkpoint, then leave the effect of each *)
(* remaining step and save, step by step.  The lease store takes no lock:  *)
(* acquire() and release() each look at the lease in one step and write it *)
(* in a later one.  Time is kept as what is left of each lease.  The clock *)
(* reading that acquire() is called with belongs to its look; an older one *)
(* could only refuse more, or shorten the term as a tick after it does.    *)
(***************************************************************************)
EXTENDS Integers

CONSTANTS
  Workers,           \* threads that call run_once
  Owner,             \* Worker.owner of each worker
  Ttl,               \* ttl_seconds, in ticks
  NumSteps,          \* steps of the flow
  MaxDeaths,         \* bound: workers that die
  MaxRaises,         \* bound: ports that raise
  NoLease            \* _leases.get(run_id) returned None

ASSUME OwnerAssumption == DOMAIN Owner = Workers
ASSUME BoundsAssumption ==
  NumSteps \in Nat \ {0} /\ {Ttl, MaxDeaths, MaxRaises} \subseteq Nat
ASSUME NoLeaseIsNone == NoLease \notin [owner : {Owner[w] : w \in Workers}, left : Int]

VARIABLES
  lease,          \* the lease record of the run: [owner, left], or NoLease
  checkpoint,     \* steps the run-state store calls completed
  effects,        \* history: how often the effect of each step was left
  reconciliations,\* checkpoints that reconciliation events have recorded
  pc,             \* where each worker is
  sawExpired,     \* took_over_expired
  progress,       \* completed steps of the worker's state object
  left,           \* what is left of the lease the worker was granted
  deaths,         \* workers that have died so far
  raises,         \* ports that have raised so far
  raced,          \* history: the worker was granted its lease while another one was
                  \*   between a look at the lease and the write that follows it
  trespass        \* history: since the worker loaded, another one saved outside a term

local == <<pc, sawExpired, progress, left>>
counters == <<deaths, raises>>
history == <<raced, trespass>>
vars == <<lease, checkpoint, effects, reconciliations, local, counters, history>>

Init ==
  /\ lease = NoLease
  /\ checkpoint = 0
  /\ effects = [s \in 1 .. NumSteps |-> 0]
  /\ reconciliations = {}
  /\ pc = [w \in Workers |-> "idle"]
  /\ sawExpired = [w \in Workers |-> FALSE]
  /\ progress = [w \in Workers |-> 0]
  /\ left = [w \in Workers |-> -1]
  /\ deaths = 0
  /\ raises = 0
  /\ raced = [w \in Workers |-> FALSE]
  /\ trespass = [w \in Workers |-> FALSE]

-----------------------------------------------------------------------------
(* The lease store                                                         *)

IsExpired(l) == l.left < 0

\* Slip: Held lets a lease go in the last instant of its term.
HeldTooBriefly == lease # NoLease /\ lease.left > 0

\* acquire() is refused while the lease has time left, to its own owner too.
Held == lease # NoLease /\ ~IsExpired(lease)

\* Slip: release() does not compare owners.
ReleasesAnyones(w) == lease # NoLease

ReleasesOwn(w) == lease # NoLease /\ lease.owner = Owner[w]

-----------------------------------------------------------------------------
(* run_once                                                                *)

Look(w) ==
  /\ pc[w] = "idle"
  /\ sawExpired' = [sawExpired EXCEPT ![w] = lease # NoLease /\ IsExpired(lease)]
  /\ pc' = [pc EXCEPT ![w] = "acquire"]
  /\ UNCHANGED <<lease, checkpoint, effects, reconciliations, progress, left, counters, history>>

\* acquire() has found no lease, or an expired one: the term runs from here.
CheckLease(w) ==
  /\ pc[w] = "acquire"
  /\ ~Held
  /\ left' = [left EXCEPT ![w] = Ttl]
  /\ pc' = [pc EXCEPT ![w] = "set"]
  /\ UNCHANGED <<lease, checkpoint, effects, reconciliations, sawExpired, progress, counters,
                 history>>

\* Workers that have looked at the lease and are about to write or delete it.
Writing == {w \in Workers : pc[w] \in {"set", "delete"}}

\* acquire() writes the lease, whatever it has become since it looked.
SetLease(w) ==
  /\ pc[w] = "set"
  /\ lease' = [owner |-> Owner[w], left |-> left[w]]
  /\ raced' = [raced EXCEPT ![w] = Writing # {w}]
  /\ pc' = [pc EXCEPT ![w] = IF sawExpired[w] THEN "reconcile" ELSE "load"]
  /\ UNCHANGED <<checkpoint, effects, reconciliations, sawExpired, progress, left, counters,
                 trespass>>

\* Slip: a refused worker prolongs the lease it was refused.
RefuseAndRenew(w) ==
  /\ pc[w] = "acquire"
  /\ Held
  /\ lease' = [lease EXCEPT !.left = Ttl]
  /\ pc' = [pc EXCEPT ![w] = "idle"]
  /\ sawExpired' = [sawExpired EXCEPT ![w] = FALSE]
  /\ UNCHANGED <<checkpoint, effects, reconciliations, progress, left, counters, history>>

\* LeaseUnavailableError
Refuse(w) ==
  /\ pc[w] = "acquire"
  /\ Held
  /\ pc' = [pc EXCEPT ![w] = "idle"]
  /\ sawExpired' = [sawExpired EXCEPT ![w] = FALSE]
  /\ UNCHANGED <<lease, checkpoint, effects, reconciliations, progress, left, counters, history>>

\* _reconcile: one event that lists what was completed, if anything was.
Reconcile(w) ==
  /\ pc[w] = "reconcile"
  /\ reconciliations' = IF checkpoint > 0 THEN reconciliations \cup {checkpoint}
                                          ELSE reconciliations
  /\ pc' = [pc EXCEPT ![w] = "load"]
  /\ UNCHANGED <<lease, checkpoint, effects, sawExpired, progress, left, counters, history>>

Leave(w) ==
  /\ pc' = [pc EXCEPT ![w] = "idle"]
  /\ sawExpired' = [sawExpired EXCEPT ![w] = FALSE]
  /\ progress' = [progress EXCEPT ![w] = 0]
  /\ left' = [left EXCEPT ![w] = -1]
  /\ raced' = [raced EXCEPT ![w] = FALSE]
  /\ trespass' = [trespass EXCEPT ![w] = FALSE]

\* Slip: the flow starts over instead of from the checkpoint.
LoadNothing(w) ==
  /\ pc[w] = "load"
  /\ pc' = [pc EXCEPT ![w] = "step"]
  /\ UNCHANGED <<lease, checkpoint, effects, reconciliations, sawExpired, progress, left,
                 counters, history>>

Load(w) ==
  /\ pc[w] = "load"
  /\ progress' = [progress EXCEPT ![w] = checkpoint]
  /\ pc' = [pc EXCEPT ![w] = IF checkpoint < NumSteps THEN "step" ELSE "release"]
  /\ UNCHANGED <<lease, checkpoint, effects, reconciliations, sawExpired, left, counters, history>>

ExecuteStep(w) ==
  /\ pc[w] = "step"
  /\ effects' = [effects EXCEPT ![progress[w] + 1] = @ + 1]
  /\ pc' = [pc EXCEPT ![w] = "save"]
  /\ UNCHANGED <<lease, checkpoint, reconciliations, sawExpired, progress, left, counters, history>>

InFlow == {"step", "save"}

\* The worker is past the term it was granted, or was granted it in a race.
Outside(w) == left[w] < 0 \/ raced[w]

SaveStep(w) ==
  /\ pc[w] = "save"
  /\ progress' = [progress EXCEPT ![w] = @ + 1]
  /\ checkpoint' = progress[w] + 1
  /\ pc' = [pc EXCEPT ![w] = IF progress[w] + 1 < NumSteps THEN "step" ELSE "release"]
  /\ trespass' = [v \in Workers |->
                    trespass[v] \/ (v # w /\ pc[v] \in InFlow /\ Outside(w))]
  /\ UNCHANGED <<lease, effects, reconciliations, sawExpired, left, counters, raced>>

\* The finally block, after the flow returned or raised: release() finds its own lease.
CheckOwner(w) ==
  /\ pc[w] = "release"
  /\ ReleasesOwn(w)
  /\ pc' = [pc EXCEPT ![w] = "delete"]
  /\ UNCHANGED <<lease, checkpoint, effects, reconciliations, sawExpired, progress, left,
                 counters, history>>

\* release() finds no lease or somebody else's.
PassBy(w) ==
  /\ pc[w] = "release"
  /\ ~ReleasesOwn(w)
  /\ Leave(w)
  /\ UNCHANGED <<lease, checkpoint, effects, reconciliations, counters>>

\* release() deletes the lease, whoever's it has become (or raises, when it is gone).
DeleteLease(w) ==
  /\ pc[w] = "delete"
  /\ lease' = NoLease
  /\ Leave(w)
  /\ UNCHANGED <<checkpoint, effects, reconciliations, counters>>

-----------------------------------------------------------------------------
(* What can go wrong                                                       *)

Raise ==
  /\ raises < MaxRaises
  /\ raises' = raises + 1
  /\ UNCHANGED deaths

\* A port raises inside the flow: the finally block still runs.
FlowRaises(w) ==
  /\ pc[w] \in {"load", "step", "save"}
  /\ Raise
  /\ pc' = [pc EXCEPT ![w] = "release"]
  /\ UNCHANGED <<lease, checkpoint, effects, reconciliations, sawExpired, progress, left, history>>

\* A port raises inside _reconcile: the try block has not begun.
ReconcileRaises(w) ==
  /\ pc[w] = "reconcile"
  /\ Raise
  /\ Leave(w)
  /\ UNCHANGED <<lease, checkpoint, effects, reconciliations>>

\* The worker dies anywhere in run_once.
Die(w) ==
  /\ pc[w] # "idle"
  /\ deaths < MaxDeaths
  /\ deaths' = deaths + 1
  /\ Leave(w)
  /\ UNCHANGED <<lease, checkpoint, effects, reconciliations, raises>>

Elapsed(l) == IF l < 0 THEN l ELSE l - 1

Tick ==
  /\ lease' = IF lease = NoLease THEN lease ELSE [lease EXCEPT !.left = Elapsed(@)]
  /\ left' = [w \in Workers |-> Elapsed(left[w])]
  /\ UNCHANGED <<checkpoint, effects, reconciliations, pc, sawExpired, progress, counters,
                 history>>

-----------------------------------------------------------------------------

WorkerStep(w) ==
  \/ CheckLease(w)
  \/ SetLease(w)
  \/ Refuse(w)
  \/ Reconcile(w)
  \/ Load(w)
  \/ ExecuteStep(w)
  \/ SaveStep(w)
  \/ CheckOwner(w)
  \/ PassBy(w)
  \/ DeleteLease(w)

Next ==
  \/ \E w \in Workers : Look(w) \/ WorkerStep(w)
  \/ \E w \in Workers : FlowRaises(w) \/ ReconcileRaises(w) \/ Die(w)
  \/ Tick

Spec == Init /\ [][Next]_vars

\* Time passes and a running worker runs; nobody has to call run_once.
FairSpec == Spec /\ WF_vars(Tick) /\ \A w \in Workers : WF_vars(WorkerStep(w))

-----------------------------------------------------------------------------
(* Properties                                                              *)

Executing == {"reconcile", "load", "step", "save", "release", "delete"}

\* With an owner name of its own for each worker, two workers are both inside the terms
\* they were granted only if one of them was granted its term while another worker was
\* between acquire()'s or release()'s look at the lease and the write that follows it.
ExclusiveUnlessRaced ==
  \A v, w \in Workers :
    (v # w /\ pc[v] \in Executing /\ pc[w] \in Executing) => Outside(v) \/ Outside(w)

\* A save takes completed steps back only if its worker is outside a term of its own, or
\* another worker saved from outside one after it had loaded the checkpoint.
RollbackComesFromOutside ==
  [][checkpoint' < checkpoint =>
       \E w \in Workers : pc[w] = "save" /\ pc'[w] # "save" /\ (Outside(w) \/ trespass[w])]_vars

\* The effect of a step that the checkpoint calls completed is left again only by a worker
\* that is outside a term of its own, or into whose execution such a worker saved.
CompletedEffectsStay ==
  [][\A s \in 1 .. checkpoint : effects'[s] # effects[s] =>
       \E w \in Workers :
         pc[w] = "step" /\ progress[w] + 1 = s /\ (Outside(w) \/ trespass[w])]_vars

\* A lease never blocks the run for good: whatever its owner does, and however
\* many workers are refused, it is released or expires.
LeaseFreesItself == Held ~> ~Held

=============================================================================
