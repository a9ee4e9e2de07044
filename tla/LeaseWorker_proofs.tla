------------------------- MODULE LeaseWorker_proofs -------------------------
(***************************************************************************)
(* Proofs about LeaseWorker: for any number of workers, any term of the    *)
(* lease, any number of steps, and any bounds on deaths and failures.      *)
(***************************************************************************)
EXTENDS LeaseWorker, TLAPS

\* Each worker has an owner name of its own.  The code does not see to it (the default is
\* the same for all), so it is a hypothesis of the theorems that need it.
DistinctOwners == \A v, w \in Workers : Owner[v] = Owner[w] => v = w

-----------------------------------------------------------------------------
(* Types                                                                   *)

Owners == {Owner[w] : w \in Workers}
Terms  == Nat \cup {-1}
Leases == [owner : Owners, left : Terms]
Places == Executing \cup {"idle", "acquire", "set"}

TypeInv ==
  /\ lease \in Leases \cup {NoLease}
  /\ checkpoint \in Nat
  /\ effects \in [1 .. NumSteps -> Nat]
  /\ reconciliations \subseteq Nat
  /\ pc \in [Workers -> Places]
  /\ sawExpired \in [Workers -> BOOLEAN]
  /\ progress \in [Workers -> Nat]
  /\ left \in [Workers -> Terms]
  /\ raced \in [Workers -> BOOLEAN]
  /\ trespass \in [Workers -> BOOLEAN]
  /\ deaths \in Nat /\ raises \in Nat

\* What is loaded or saved is never past the last step, and a step is executed only when
\* one is left to execute.
PlacesInv ==
  /\ checkpoint <= NumSteps
  /\ \A w \in Workers : pc[w] \in InFlow => progress[w] + 1 <= NumSteps

\* A step of one worker: everything it does but look at the clock.
Acts(w) == Look(w) \/ WorkerStep(w) \/ FlowRaises(w) \/ ReconcileRaises(w) \/ Die(w)

\* What stands for no lease is no lease.
LEMMA NoLeaseIsNoRecord == NoLease \notin Leases
  BY NoLeaseIsNone DEF Leases, Terms, Owners

\* Time passes, but a term that is over stays over.
LEMMA ElapsedTyped ==
  ASSUME NEW l \in Terms
  PROVE  Elapsed(l) \in Terms /\ Elapsed(l) <= l /\ (Elapsed(l) >= 0 => l >= 0)
  BY DEF Terms, Elapsed

\* What a worker does keeps the types.
LEMMA WorkerTyped ==
  ASSUME TypeInv, PlacesInv, NEW w \in Workers, Acts(w)
  PROVE  TypeInv' /\ PlacesInv'
<1> USE BoundsAssumption DEF TypeInv, PlacesInv, Places, Executing, InFlow, counters, history
<1>1. CASE Look(w)
  BY <1>1 DEF Look
<1>2. CASE CheckLease(w)
  BY <1>2 DEF CheckLease, Terms
<1>3. CASE SetLease(w)
  <2>1. lease' \in Leases
    BY <1>3 DEF SetLease, Leases, Owners
  <2> QED
    BY <1>3, <2>1 DEF SetLease
<1>4. CASE Refuse(w)
  BY <1>4 DEF Refuse
<1>5. CASE Reconcile(w)
  BY <1>5 DEF Reconcile
<1>6. CASE Load(w)
  BY <1>6 DEF Load
<1>7. CASE ExecuteStep(w)
  BY <1>7 DEF ExecuteStep
<1>8. CASE SaveStep(w)
  <2>1. trespass' \in [Workers -> BOOLEAN]
    BY <1>8 DEF SaveStep
  <2> QED
    BY <1>8, <2>1 DEF SaveStep
<1>9. CASE CheckOwner(w)
  BY <1>9 DEF CheckOwner
<1>10. CASE PassBy(w)
  BY <1>10 DEF PassBy, Leave, Terms
<1>11. CASE DeleteLease(w)
  BY <1>11 DEF DeleteLease, Leave, Terms
<1>12. CASE FlowRaises(w)
  BY <1>12 DEF FlowRaises, Raise
<1>13. CASE ReconcileRaises(w)
  BY <1>13 DEF ReconcileRaises, Raise, Leave, Terms
<1>14. CASE Die(w)
  BY <1>14 DEF Die, Leave, Terms
<1> QED
  BY <1>1, <1>2, <1>3, <1>4, <1>5, <1>6, <1>7, <1>8, <1>9, <1>10, <1>11, <1>12, <1>13, <1>14
  DEF Acts, WorkerStep

\* Time keeps the types.
LEMMA TickTyped ==
  ASSUME TypeInv, PlacesInv, Tick
  PROVE  TypeInv' /\ PlacesInv'
<1>1. lease' \in Leases \cup {NoLease}
  BY ElapsedTyped DEF Tick, TypeInv, Leases
<1>2. left' \in [Workers -> Terms]
  BY ElapsedTyped DEF Tick, TypeInv
<1> QED
  BY <1>1, <1>2 DEF Tick, TypeInv, PlacesInv, counters, history

\* Types, and never a step past the last one, whatever the owners are called.
THEOREM TypesHold == Spec => [](TypeInv /\ PlacesInv)
<1>1. Init => TypeInv /\ PlacesInv
  <2>1. ASSUME Init
        PROVE  /\ pc \in [Workers -> Places]
               /\ left \in [Workers -> Terms]
               /\ effects \in [1 .. NumSteps -> Nat]
               /\ sawExpired \in [Workers -> BOOLEAN]
               /\ progress \in [Workers -> Nat]
               /\ raced \in [Workers -> BOOLEAN]
               /\ trespass \in [Workers -> BOOLEAN]
    BY <2>1 DEF Init, Terms, Places
  <2>2. ASSUME Init
        PROVE  \A w \in Workers : pc[w] = "idle"
    BY <2>2 DEF Init
  <2>3. ASSUME Init
        PROVE  TypeInv
    BY <2>1, <2>3 DEF Init, TypeInv
  <2>4. ASSUME Init
        PROVE  PlacesInv
    BY <2>2, <2>4, BoundsAssumption DEF Init, PlacesInv, InFlow
  <2> QED
    BY <2>3, <2>4
<1>2. TypeInv /\ PlacesInv /\ [Next]_vars => (TypeInv /\ PlacesInv)'
  <2> SUFFICES ASSUME TypeInv, PlacesInv, [Next]_vars
               PROVE  (TypeInv /\ PlacesInv)'
    OBVIOUS
  <2>1. CASE UNCHANGED vars
    BY <2>1 DEF vars, local, counters, history, TypeInv, PlacesInv
  <2> QED
    BY <2>1, WorkerTyped, TickTyped DEF Next, Acts
<1> QED
  BY <1>1, <1>2, PTL DEF Spec

-----------------------------------------------------------------------------
(* Exclusion                                                               *)

\* A worker that executes inside a term it was granted without a race.
Inside(w) == pc[w] \in Executing /\ left[w] >= 0 /\ ~raced[w]

\* Such a worker holds the lease, with exactly the rest of its term, and no other worker
\* has looked at the lease and is still to write or to delete it.
LeaseInv ==
  \A w \in Workers : Inside(w) =>
    /\ lease = [owner |-> Owner[w], left |-> left[w]]
    /\ Writing \subseteq {w}

\* While nobody holds the lease, nobody executes inside a term.
LEMMA FreeLease ==
  ASSUME TypeInv, LeaseInv, ~Held, NEW w \in Workers
  PROVE  ~Inside(w)
<1> SUFFICES ASSUME Inside(w)
             PROVE  FALSE
  OBVIOUS
<1>1. left[w] \in Terms /\ left[w] >= 0
  BY DEF TypeInv, Inside
<1>2. lease = [owner |-> Owner[w], left |-> left[w]]
  BY DEF LeaseInv
<1>3. lease \in Leases /\ lease.left >= 0
  BY <1>1, <1>2 DEF Leases, Owners
<1> QED
  BY <1>3, NoLeaseIsNoRecord DEF Held, IsExpired, Leases, Terms

\* Two workers that execute inside their terms are one, if their owners are.
LEMMA OneInside ==
  ASSUME DistinctOwners, LeaseInv, NEW v \in Workers, NEW w \in Workers, Inside(v), Inside(w)
  PROVE  v = w
<1>1. [owner |-> Owner[v], left |-> left[v]] = [owner |-> Owner[w], left |-> left[w]]
  BY DEF LeaseInv
<1> QED
  BY <1>1 DEF DistinctOwners

\* What a worker does keeps the lease with the one it was granted to.
LEMMA WorkerLease ==
  ASSUME DistinctOwners, TypeInv, LeaseInv, NEW w \in Workers, Acts(w)
  PROVE  LeaseInv'
<1>1. CASE CheckLease(w)
  <2>1. /\ \A v \in Workers \ {w} : pc'[v] = pc[v] /\ left'[v] = left[v]
        /\ raced' = raced /\ pc'[w] = "set"
    BY <1>1 DEF CheckLease, TypeInv, history
  <2>2. \A v \in Workers : ~Inside(v)
    BY <1>1, FreeLease DEF CheckLease
  <2> QED
    BY <2>1, <2>2 DEF LeaseInv, Inside, Executing
<1>2. CASE SetLease(w)
  <2>1. /\ \A v \in Workers \ {w} : pc'[v] = pc[v] /\ raced'[v] = raced[v]
        /\ left' = left /\ lease' = [owner |-> Owner[w], left |-> left[w]]
        /\ raced'[w] = (Writing # {w}) /\ w \in Writing /\ pc'[w] \in {"reconcile", "load"}
    BY <1>2 DEF SetLease, TypeInv, Writing
  <2>2. \A v \in Workers \ {w} : ~Inside(v)
    BY <2>1 DEF LeaseInv
  <2>3. Writing' \subseteq Writing
    BY <2>1 DEF Writing
  <2>4. \A v \in Workers \ {w} : ~Inside(v)'
    BY <2>1, <2>2 DEF Inside
  <2>5. Inside(w)' => Writing' \subseteq {w}
    BY <2>1, <2>3 DEF Inside
  <2> QED
    BY <2>1, <2>4, <2>5 DEF LeaseInv
<1>3. CASE CheckOwner(w)
  <2>1. /\ pc' = [pc EXCEPT ![w] = "delete"] /\ UNCHANGED <<lease, left, raced>>
        /\ pc[w] = "release" /\ lease.owner = Owner[w]
    BY <1>3 DEF CheckOwner, ReleasesOwn, history
  <2>2. \A v \in Workers : Inside(v)' <=> Inside(v)
    BY <2>1 DEF Inside, Executing, TypeInv
  <2>3. Writing' \subseteq Writing \cup {w}
    BY <2>1 DEF Writing, TypeInv
  <2>4. \A v \in Workers : Inside(v) => v = w
    BY <2>1 DEF LeaseInv, DistinctOwners
  <2> QED
    BY <2>1, <2>2, <2>3, <2>4 DEF LeaseInv
<1>4. CASE DeleteLease(w)
  <2>1. /\ \A v \in Workers \ {w} : pc'[v] = pc[v] /\ left'[v] = left[v] /\ raced'[v] = raced[v]
        /\ pc'[w] = "idle" /\ w \in Writing
    BY <1>4 DEF DeleteLease, Leave, TypeInv, Writing
  <2>2. \A v \in Workers \ {w} : ~Inside(v)
    BY <2>1 DEF LeaseInv
  <2> QED
    BY <2>1, <2>2 DEF LeaseInv, Inside, Executing
<1>5. CASE /\ lease' = lease /\ Writing' \subseteq Writing
           /\ \A v \in Workers : Inside(v)' => Inside(v) /\ left'[v] = left[v]
  BY <1>5 DEF LeaseInv
<1>6. CASE Look(w) \/ Refuse(w) \/ Reconcile(w) \/ Load(w) \/ ExecuteStep(w) \/ SaveStep(w)
             \/ FlowRaises(w)
  <2>1. /\ UNCHANGED <<lease, left, raced>> /\ pc'[w] # "set" /\ pc'[w] # "delete"
        /\ \A v \in Workers \ {w} : pc'[v] = pc[v]
        /\ pc'[w] \in Executing => pc[w] \in Executing
    BY <1>6 DEF Look, Refuse, Reconcile, Load, ExecuteStep, SaveStep, FlowRaises, Executing,
                TypeInv, history
  <2> QED
    BY <1>5, <2>1 DEF Inside, Writing
<1>7. CASE PassBy(w) \/ ReconcileRaises(w) \/ Die(w)
  <2>1. /\ lease' = lease /\ pc'[w] = "idle"
        /\ \A v \in Workers \ {w} : pc'[v] = pc[v] /\ left'[v] = left[v] /\ raced'[v] = raced[v]
    BY <1>7 DEF PassBy, ReconcileRaises, Die, Leave, TypeInv
  <2>2. \A v \in Workers : Inside(v)' => Inside(v) /\ left'[v] = left[v]
    BY <2>1 DEF Inside, Executing
  <2>3. Writing' \subseteq Writing
    BY <2>1 DEF Writing
  <2> QED
    BY <1>5, <2>1, <2>2, <2>3
<1> QED
  BY <1>1, <1>2, <1>3, <1>4, <1>6, <1>7 DEF Acts, WorkerStep

\* Time ends leases and terms together.
LEMMA TickLease ==
  ASSUME TypeInv, LeaseInv, Tick
  PROVE  LeaseInv'
<1>1. Writing' = Writing /\ raced' = raced /\ pc' = pc
  BY DEF Tick, Writing, history
<1> SUFFICES ASSUME NEW w \in Workers, Inside(w)'
             PROVE  lease' = [owner |-> Owner[w], left |-> left'[w]] /\ Writing' \subseteq {w}
  BY DEF LeaseInv
<1>2. left[w] \in Terms /\ left'[w] = Elapsed(left[w])
  BY DEF Tick, TypeInv
<1>3. Inside(w)
  BY <1>1, <1>2, ElapsedTyped DEF Inside
<1>4. lease = [owner |-> Owner[w], left |-> left[w]] /\ Writing \subseteq {w}
  BY <1>3 DEF LeaseInv
<1>5. lease \in Leases
  BY <1>2, <1>4 DEF Leases, Owners
<1>6. lease' = [lease EXCEPT !.left = Elapsed(@)]
  BY <1>5, NoLeaseIsNoRecord DEF Tick
<1> QED
  BY <1>1, <1>2, <1>4, <1>6

\* Every step keeps terms and lease in agreement.
LEMMA LeaseStep ==
  ASSUME DistinctOwners, TypeInv, LeaseInv, [Next]_vars
  PROVE  LeaseInv'
<1>1. CASE UNCHANGED vars
  BY <1>1 DEF vars, local, history, LeaseInv, Inside, Writing
<1> QED
  BY <1>1, WorkerLease, TickLease DEF Next, Acts

\* With an owner name of its own for each worker, two workers are both inside the terms
\* they were granted only if one of them was granted its term while another worker was
\* between acquire()'s or release()'s look at the lease and the write that follows it.
THEOREM ExclusionWithoutRaces ==
  ASSUME DistinctOwners
  PROVE  Spec => []ExclusiveUnlessRaced
<1>1. Init => LeaseInv
  BY DEF Init, LeaseInv, Inside, Executing
<1>2. TypeInv /\ LeaseInv /\ [Next]_vars => LeaseInv'
  BY LeaseStep
<1>3. TypeInv /\ LeaseInv => ExclusiveUnlessRaced
  <2> SUFFICES ASSUME TypeInv, LeaseInv, NEW v \in Workers, NEW w \in Workers,
                      v # w, pc[v] \in Executing, pc[w] \in Executing
               PROVE  Outside(v) \/ Outside(w)
    BY DEF ExclusiveUnlessRaced
  <2>1. left[v] \in Terms /\ left[w] \in Terms
    BY DEF TypeInv
  <2>2. (~Outside(v) => Inside(v)) /\ (~Outside(w) => Inside(w))
    BY <2>1 DEF Outside, Inside, Terms
  <2> QED
    BY <2>2, OneInside
<1> QED
  BY <1>1, <1>2, <1>3, TypesHold, PTL DEF Spec

-----------------------------------------------------------------------------
(* Saves and effects                                                       *)

\* A worker in the flow inside its term continues from the checkpoint there is, unless
\* somebody outside a term has saved since it loaded.
Strayed(w) == Outside(w) \/ trespass[w]

ProgressInv ==
  \A w \in Workers : pc[w] \in InFlow /\ ~Strayed(w) => progress[w] = checkpoint

\* Only a worker that strayed takes the checkpoint back.
OnlyStrayedRollBack ==
  checkpoint' < checkpoint => \E w \in Workers : pc[w] = "save" /\ pc'[w] # "save" /\ Strayed(w)

\* Only a worker that strayed leaves the effect of a completed step.
OnlyStrayedRepeat ==
  \A s \in 1 .. checkpoint : effects'[s] # effects[s] =>
    \E w \in Workers : pc[w] = "step" /\ progress[w] + 1 = s /\ Strayed(w)

\* A worker inside its term, with nobody's stray save under it, saves forward and leaves
\* the effects of new steps only.
LEMMA WorkerProgress ==
  ASSUME DistinctOwners, TypeInv, PlacesInv, LeaseInv, ProgressInv, NEW w \in Workers, Acts(w)
  PROVE  ProgressInv' /\ OnlyStrayedRollBack /\ OnlyStrayedRepeat
<1>1. CASE SaveStep(w)
  <2>1. /\ checkpoint' = progress[w] + 1 /\ progress'[w] = progress[w] + 1
        /\ UNCHANGED <<left, raced, effects>> /\ pc[w] = "save" /\ pc'[w] # "save"
        /\ \A v \in Workers \ {w} : /\ pc'[v] = pc[v] /\ progress'[v] = progress[v]
                                    /\ pc[v] \in InFlow /\ Outside(w) => trespass'[v]
    BY <1>1 DEF SaveStep, TypeInv
  <2>2. ~Strayed(w) => checkpoint' = checkpoint + 1
    BY <2>1 DEF ProgressInv, InFlow
  <2>3. OnlyStrayedRollBack
    BY <2>1, <2>2 DEF OnlyStrayedRollBack, TypeInv
  <2>4. OnlyStrayedRepeat
    BY <2>1 DEF OnlyStrayedRepeat
  <2>5. ASSUME NEW v \in Workers \ {w}, pc'[v] \in InFlow, ~Strayed(v)'
        PROVE  FALSE
    <3>1. pc[v] \in InFlow /\ ~Outside(w) /\ ~Outside(v)
      BY <2>1, <2>5 DEF Strayed, Outside
    <3>2. left[v] \in Terms /\ left[w] \in Terms
      BY DEF TypeInv
    <3>3. Inside(v) /\ Inside(w)
      BY <2>1, <3>1, <3>2 DEF Inside, Outside, InFlow, Executing, Terms
    <3> QED
      BY <3>3, OneInside
  <2> QED
    BY <2>1, <2>3, <2>4, <2>5 DEF ProgressInv
<1>2. CASE ExecuteStep(w)
  <2>1. /\ UNCHANGED <<checkpoint, progress, left, raced, trespass>> /\ pc[w] = "step"
        /\ pc' = [pc EXCEPT ![w] = "save"]
        /\ effects' = [effects EXCEPT ![progress[w] + 1] = @ + 1]
    BY <1>2 DEF ExecuteStep, history
  <2>2. ProgressInv'
    BY <2>1 DEF ProgressInv, Strayed, Outside, TypeInv, InFlow
  <2>3. OnlyStrayedRollBack
    BY <2>1 DEF OnlyStrayedRollBack, TypeInv
  <2>4. ASSUME NEW s \in 1 .. checkpoint, effects'[s] # effects[s]
        PROVE  progress[w] + 1 = s /\ Strayed(w)
    <3>1. s \in 1 .. NumSteps /\ checkpoint \in Nat
      BY BoundsAssumption DEF TypeInv, PlacesInv
    <3>2. progress[w] + 1 = s
      BY <2>1, <2>4, <3>1 DEF TypeInv
    <3> QED
      BY <2>1, <3>1, <3>2 DEF ProgressInv, InFlow
  <2> QED
    BY <2>1, <2>2, <2>3, <2>4 DEF OnlyStrayedRepeat
<1>3. CASE Load(w)
  BY <1>3 DEF Load, history, ProgressInv, OnlyStrayedRollBack, OnlyStrayedRepeat, TypeInv,
              Strayed, Outside
<1>4. CASE /\ UNCHANGED <<checkpoint, effects>>
           /\ \A v \in Workers : pc'[v] \in InFlow =>
                /\ pc[v] \in InFlow /\ left'[v] = left[v] /\ progress'[v] = progress[v]
                /\ raced'[v] = raced[v] /\ trespass'[v] = trespass[v]
  BY <1>4 DEF ProgressInv, OnlyStrayedRollBack, OnlyStrayedRepeat, TypeInv, Strayed, Outside
<1>5. CASE Look(w) \/ CheckLease(w) \/ SetLease(w) \/ Refuse(w) \/ Reconcile(w) \/ CheckOwner(w)
  BY <1>4, <1>5
  DEF Look, CheckLease, SetLease, Refuse, Reconcile, CheckOwner, history, TypeInv, InFlow
<1>6. CASE FlowRaises(w) \/ PassBy(w) \/ DeleteLease(w) \/ ReconcileRaises(w) \/ Die(w)
  BY <1>4, <1>6
  DEF FlowRaises, PassBy, DeleteLease, ReconcileRaises, Die, Leave, history, TypeInv, InFlow
<1> QED
  BY <1>1, <1>2, <1>3, <1>5, <1>6 DEF Acts, WorkerStep

\* Time changes no progress.
LEMMA TickProgress ==
  ASSUME TypeInv, ProgressInv, Tick
  PROVE  ProgressInv' /\ OnlyStrayedRollBack /\ OnlyStrayedRepeat
<1>1. /\ UNCHANGED <<checkpoint, effects, pc, progress, raced, trespass>>
      /\ \A w \in Workers : left[w] < 0 => left'[w] < 0
  BY ElapsedTyped DEF Tick, TypeInv, history, Terms, Elapsed
<1>2. \A w \in Workers : Strayed(w) => Strayed(w)'
  BY <1>1 DEF Strayed, Outside
<1> QED
  BY <1>1, <1>2 DEF ProgressInv, OnlyStrayedRollBack, OnlyStrayedRepeat, TypeInv

\* Every step keeps the state of a worker inside its term in agreement with the checkpoint.
LEMMA ProgressStep ==
  ASSUME DistinctOwners, TypeInv, PlacesInv, LeaseInv, ProgressInv, [Next]_vars
  PROVE  ProgressInv' /\ OnlyStrayedRollBack /\ OnlyStrayedRepeat
<1>1. CASE UNCHANGED vars
  <2>1. ProgressInv'
    BY <1>1 DEF vars, local, history, ProgressInv, Strayed, Outside
  <2> QED
    BY <1>1, <2>1 DEF vars, OnlyStrayedRollBack, OnlyStrayedRepeat, TypeInv
<1> QED
  BY <1>1, WorkerProgress, TickProgress DEF Next, Acts

\* The two invariants on leases and progress hold in every state.
LEMMA LeaseAndProgress ==
  ASSUME DistinctOwners
  PROVE  Spec => [](LeaseInv /\ ProgressInv)
<1>1. Init => LeaseInv /\ ProgressInv
  BY DEF Init, LeaseInv, ProgressInv, Inside, InFlow, Executing
<1>2. TypeInv /\ PlacesInv /\ LeaseInv /\ ProgressInv /\ [Next]_vars => (LeaseInv /\ ProgressInv)'
  BY LeaseStep, ProgressStep
<1> QED
  BY <1>1, <1>2, TypesHold, PTL DEF Spec

\* A save takes completed steps back only if its worker is outside a term of its own, or
\* another worker saved from outside one after it had loaded the checkpoint.
THEOREM SavesGoForward ==
  ASSUME DistinctOwners
  PROVE  Spec => RollbackComesFromOutside
<1>1. TypeInv /\ PlacesInv /\ LeaseInv /\ ProgressInv /\ [Next]_vars => OnlyStrayedRollBack
  BY ProgressStep
<1> QED
  BY <1>1, TypesHold, LeaseAndProgress, PTL
  DEF Spec, RollbackComesFromOutside, OnlyStrayedRollBack, Strayed

\* The effect of a step that the checkpoint calls completed is left again only by a worker
\* that is outside a term of its own, or into whose execution such a worker saved.
THEOREM CompletedEffectsAreLeftAlone ==
  ASSUME DistinctOwners
  PROVE  Spec => CompletedEffectsStay
<1>1. TypeInv /\ PlacesInv /\ LeaseInv /\ ProgressInv /\ [Next]_vars => OnlyStrayedRepeat
  BY ProgressStep
<1> QED
  BY <1>1, TypesHold, LeaseAndProgress, PTL
  DEF Spec, CompletedEffectsStay, OnlyStrayedRepeat, Strayed

=============================================================================
