------------------------- MODULE ProjectFlow_proofs -------------------------
(***************************************************************************)
(* Proofs about ProjectFlow, for any number of callers and any bounds.     *)
(***************************************************************************)
EXTENDS ProjectFlow, FiniteSetsExt, SequenceTheorems, FiniteSetTheorems, WellFoundedInduction, TLAPS

-----------------------------------------------------------------------------
(* Sums over a finite set: what MapThenSumSet computes exists, is a number *)
(* and rises with the numbers it adds.  Where an argument would go by      *)
(* induction on a set, it takes a counterexample that is as small as it    *)
(* can be.                                                                 *)

\* What MapThenSumSet computes: the sums of e over all subsets of N, each from the sum of
\* a smaller one.
Smaller(s) == s \ {CHOOSE x \in s : TRUE}
SumFrom(f, e, s) == IF s = {} THEN 0 ELSE e[CHOOSE x \in s : TRUE] + f[Smaller(s)]
IsSum(f, N, e) == f = [s \in SUBSET N |-> SumFrom(f, e, s)]
Sums(N, e) == CHOOSE f : IsSum(f, N, e)

\* The fold of the community modules is the recursive function of the subsets.
LEMMA SumIsSums ==
  ASSUME NEW e, NEW N
  PROVE  MapThenSumSet(LAMBDA k : e[k], N) = Sums(N, e)[N]
  BY DEF MapThenSumSet, MapThenFoldSet, Sums, IsSum, SumFrom, Smaller

\* Some member of a set of numbers is the least.
LEMMA Least ==
  ASSUME NEW S \in SUBSET Nat, S # {}
  PROVE  \E n \in S : \A m \in S : ~(m < n)
<1>1. PICK n \in S : \A m \in S : <<m, n>> \notin OpToRel(<, Nat)
  BY NatLessThanWellFounded, WFMin
<1>2. ASSUME NEW m \in S, m < n
      PROVE  <<m, n>> \in OpToRel(<, Nat)
  BY <1>2 DEF OpToRel
<1> QED
  BY <1>1, <1>2

\* Subsets are finite, and taking out the chosen element makes them smaller.
LEMMA SmallerIsSmaller ==
  ASSUME NEW N, IsFiniteSet(N), NEW s \in SUBSET N
  PROVE  /\ IsFiniteSet(s) /\ Cardinality(s) \in Nat /\ Cardinality(s) <= Cardinality(N)
         /\ Cardinality(s) = 0 <=> s = {}
         /\ s # {} => /\ (CHOOSE x \in s : TRUE) \in s
                      /\ Smaller(s) \in SUBSET N
                      /\ Cardinality(Smaller(s)) = Cardinality(s) - 1
<1>1. IsFiniteSet(s) /\ Cardinality(s) <= Cardinality(N)
  BY FS_Subset
<1>2. Cardinality(s) \in Nat /\ (Cardinality(s) = 0 <=> s = {})
  BY <1>1, FS_CardinalityType, FS_EmptySet
<1>3. ASSUME s # {}
      PROVE  (CHOOSE x \in s : TRUE) \in s
  BY <1>3
<1>4. ASSUME s # {}
      PROVE  Cardinality(Smaller(s)) = Cardinality(s) - 1
  BY <1>1, <1>3, <1>4, FS_RemoveElement DEF Smaller
<1> QED
  BY <1>1, <1>2, <1>3, <1>4 DEF Smaller

\* Of the sets that are a counterexample, one is minimal: taking an element away leaves no
\* counterexample.
LEMMA MinimalSet ==
  ASSUME NEW N, IsFiniteSet(N), NEW T \in SUBSET SUBSET N, T # {}
  PROVE  \E s \in T : s # {} => Smaller(s) \in (SUBSET N) \ T
<1> DEFINE S == {Cardinality(s) : s \in T}
<1>1. S \in SUBSET Nat /\ S # {}
  BY SmallerIsSmaller
<1>2. PICK n \in S : \A m \in S : ~(m < n)
  BY <1>1, Least
<1>3. PICK s \in T : n = Cardinality(s)
  BY <1>2
<1>4. ASSUME s # {}, Smaller(s) \in T
      PROVE  FALSE
  <2>1. Cardinality(Smaller(s)) = n - 1 /\ n \in Nat
    BY <1>3, <1>4, SmallerIsSmaller
  <2>2. Cardinality(Smaller(s)) \in S
    BY <1>4
  <2> QED
    BY <1>2, <2>1, <2>2
<1>5. s # {} => Smaller(s) \in SUBSET N
  BY SmallerIsSmaller
<1> HIDE DEF S
<1> QED
  BY <1>4, <1>5

\* The sums exist.
LEMMA SumsExist ==
  ASSUME NEW N, IsFiniteSet(N), NEW e
  PROVE  IsSum(Sums(N, e), N, e)
<1> DEFINE UpTo(n) == {s \in SUBSET N : Cardinality(s) <= n}
           IsPart(f, n) == f = [s \in UpTo(n) |-> SumFrom(f, e, s)]
           Bad == {n \in Nat : ~ \E f : IsPart(f, n)}
<1>1. Bad = {}
  <2> SUFFICES ASSUME Bad # {}
               PROVE  FALSE
    OBVIOUS
  <2>1. PICK n \in Bad : \A m \in Bad : ~(m < n)
    BY Least
  <2>2. \E f : IsPart(f, n)
    <3>1. CASE n = 0
      <4> DEFINE f == [s \in UpTo(0) |-> 0]
      <4>1. \A s \in UpTo(0) : s = {}
        BY SmallerIsSmaller
      <4>2. IsPart(f, 0)
        BY <4>1 DEF SumFrom
      <4> QED
        BY <3>1, <4>2
    <3>2. CASE n # 0
      <4>1. n \in Nat /\ n - 1 \in Nat /\ n - 1 < n
        BY <3>2
      <4>2. PICK f : IsPart(f, n - 1)
        BY <2>1, <4>1
      <4> DEFINE g == [s \in UpTo(n) |-> SumFrom(f, e, s)]
      <4>3. \A s \in UpTo(n) : s # {} => Smaller(s) \in UpTo(n - 1)
        BY <4>1, SmallerIsSmaller
      <4>4. \A s \in UpTo(n - 1) : s \in UpTo(n)
        BY <4>1, SmallerIsSmaller
      <4>5. \A s \in UpTo(n - 1) : f[s] = SumFrom(f, e, s) /\ g[s] = SumFrom(f, e, s)
        BY <4>2, <4>4
      <4>6. \A s \in UpTo(n) : SumFrom(f, e, s) = SumFrom(g, e, s)
        <5> SUFFICES ASSUME NEW s \in UpTo(n)
                     PROVE  SumFrom(f, e, s) = SumFrom(g, e, s)
          OBVIOUS
        <5>1. s # {} => f[Smaller(s)] = g[Smaller(s)]
          BY <4>3, <4>5
        <5> HIDE DEF g
        <5> QED
          BY <5>1 DEF SumFrom
      <4>7. IsPart(g, n)
        BY <4>6
      <4> QED
        BY <4>7
    <3> QED
      BY <3>1, <3>2
  <2> QED
    BY <2>1, <2>2
<1>2. Cardinality(N) \in Nat
  BY FS_CardinalityType
<1>3. PICK f : IsPart(f, Cardinality(N))
  BY <1>1, <1>2
<1>4. UpTo(Cardinality(N)) = SUBSET N
  BY SmallerIsSmaller
<1>5. IsSum(f, N, e)
  BY <1>3, <1>4 DEF IsSum
<1> QED
  BY <1>5 DEF Sums

\* Sums of numbers are numbers, and sums of nothing but zeros are zero.
LEMMA SumsTyped ==
  ASSUME NEW N, IsFiniteSet(N), NEW e \in [N -> Nat]
  PROVE  /\ \A s \in SUBSET N : Sums(N, e)[s] \in Nat
         /\ (\A k \in N : e[k] = 0) => \A s \in SUBSET N : Sums(N, e)[s] = 0
<1> DEFINE f == Sums(N, e)
           Odd == {s \in SUBSET N : f[s] \notin Nat}
           NonZero == {s \in SUBSET N : f[s] # 0}
<1>1. IsSum(f, N, e)
  BY SumsExist
<1> HIDE DEF f
<1>2. \A s \in SUBSET N : f[s] = SumFrom(f, e, s)
  BY <1>1 DEF IsSum
<1>3. \A s \in SUBSET N : s # {} => /\ (CHOOSE x \in s : TRUE) \in N
                                    /\ f[s] = e[CHOOSE x \in s : TRUE] + f[Smaller(s)]
  BY <1>2, SmallerIsSmaller DEF SumFrom
<1>4. f[{}] = 0
  BY <1>2 DEF SumFrom
<1>5. ASSUME Odd # {}
      PROVE  FALSE
  <2>1. PICK s \in Odd : s # {} => Smaller(s) \in (SUBSET N) \ Odd
    BY <1>5, MinimalSet
  <2>2. s # {} => f[Smaller(s)] \in Nat
    BY <2>1
  <2>3. s \in SUBSET N /\ f[s] \notin Nat
    OBVIOUS
  <2>4. CASE s = {}
    BY <1>4, <2>3, <2>4
  <2>5. CASE s # {}
    <3>1. e[CHOOSE x \in s : TRUE] \in Nat
      BY <1>3, <2>3, <2>5
    <3> QED
      BY <1>3, <2>2, <2>3, <2>5, <3>1
  <2> QED
    BY <2>4, <2>5
<1>6. ASSUME \A k \in N : e[k] = 0, NonZero # {}
      PROVE  FALSE
  <2>1. PICK s \in NonZero : s # {} => Smaller(s) \in (SUBSET N) \ NonZero
    BY <1>6, MinimalSet
  <2>2. s # {} => f[Smaller(s)] = 0
    BY <2>1
  <2>3. s \in SUBSET N /\ f[s] # 0
    OBVIOUS
  <2>4. CASE s = {}
    BY <1>4, <2>3, <2>4
  <2>5. CASE s # {}
    <3>1. e[CHOOSE x \in s : TRUE] = 0
      BY <1>3, <1>6, <2>3, <2>5
    <3> QED
      BY <1>3, <2>2, <2>3, <2>5, <3>1
  <2> QED
    BY <2>4, <2>5
<1> QED
  BY <1>5, <1>6 DEF f

\* Raising one number by one raises the sums it takes part in by one.
LEMMA SumsRaised ==
  ASSUME NEW N, IsFiniteSet(N), NEW e \in [N -> Nat], NEW j \in N
  PROVE  Sums(N, [e EXCEPT ![j] = @ + 1])[N] = Sums(N, e)[N] + 1
<1> DEFINE d == [e EXCEPT ![j] = @ + 1]
           f == Sums(N, e)
           g == Sums(N, d)
           Off == {s \in SUBSET N : g[s] # f[s] + (IF j \in s THEN 1 ELSE 0)}
<1>1. d \in [N -> Nat] /\ \A k \in N : d[k] = e[k] + (IF k = j THEN 1 ELSE 0)
  OBVIOUS
<1> HIDE DEF d
<1>2. IsSum(f, N, e) /\ IsSum(g, N, d)
  BY SumsExist
<1>3. \A s \in SUBSET N : f[s] \in Nat /\ g[s] \in Nat
  BY <1>1, SumsTyped
<1> HIDE DEF f, g
<1>4. \A s \in SUBSET N : f[s] = SumFrom(f, e, s) /\ g[s] = SumFrom(g, d, s)
  BY <1>2 DEF IsSum
<1>5. f[{}] = 0 /\ g[{}] = 0
  BY <1>4 DEF SumFrom
<1>6. ASSUME Off # {}
      PROVE  FALSE
  <2>1. PICK s \in Off : s # {} => Smaller(s) \in (SUBSET N) \ Off
    BY <1>6, MinimalSet
  <2>2. s # {}
    BY <1>5
  <2> DEFINE x == CHOOSE y \in s : TRUE
  <2>3. x \in s /\ x \in N /\ Smaller(s) = s \ {x} /\ Smaller(s) \in SUBSET N
    BY <2>2 DEF Smaller
  <2>4. /\ f[s] = e[x] + f[Smaller(s)]
        /\ g[s] = d[x] + g[Smaller(s)]
    BY <1>4, <2>2 DEF SumFrom
  <2>5. g[Smaller(s)] = f[Smaller(s)] + (IF j \in Smaller(s) THEN 1 ELSE 0)
    BY <2>1, <2>2
  <2>6. /\ d[x] = e[x] + (IF x = j THEN 1 ELSE 0)
        /\ e[x] \in Nat /\ f[Smaller(s)] \in Nat
    BY <1>1, <1>3, <2>3
  <2>7. s \in Off
    OBVIOUS
  <2> HIDE DEF x
  <2>8. g[s] = f[s] + (IF j \in s THEN 1 ELSE 0)
    BY <2>3, <2>4, <2>5, <2>6
  <2> QED
    BY <2>7, <2>8
<1>7. N \notin Off
  BY <1>6
<1> QED
  BY <1>7 DEF d, f, g

\* The same for one column of a table of numbers.
Column(N, t, v) == [k \in N |-> t[k][v]]

\* A column of a table sums to what its own function sums to.
LEMMA ColumnSum ==
  ASSUME NEW N, IsFiniteSet(N), NEW t, NEW v
  PROVE  MapThenSumSet(LAMBDA k : t[k][v], N) = Sums(N, Column(N, t, v))[N]
<1> DEFINE Entry(f, s) == IF s = {} THEN 0 ELSE t[CHOOSE x \in s : TRUE][v] + f[Smaller(s)]
           IsColumnSum(f) == f = [s \in SUBSET N |-> Entry(f, s)]
           e == Column(N, t, v)
<1>1. MapThenSumSet(LAMBDA k : t[k][v], N) = (CHOOSE f : IsColumnSum(f))[N]
  BY DEF MapThenSumSet, MapThenFoldSet, Smaller
<1>2. ASSUME NEW f, NEW s \in SUBSET N
      PROVE  Entry(f, s) = SumFrom(f, e, s)
  <2>1. s # {} => (CHOOSE x \in s : TRUE) \in N
    BY SmallerIsSmaller
  <2> QED
    BY <2>1 DEF SumFrom, Column
<1> HIDE DEF e, Entry
<1>3. \A f : IsColumnSum(f) <=> IsSum(f, N, e)
  BY <1>2 DEF IsSum
<1> HIDE DEF IsColumnSum
<1>4. (CHOOSE f : IsColumnSum(f)) = (CHOOSE f : IsSum(f, N, e))
  BY <1>3
<1> QED
  BY <1>1, <1>4 DEF Sums, e

-----------------------------------------------------------------------------
(* Types                                                                   *)

\* Where a call stands inside a step, it is at a step of the sequence, and a
\* plan approval it waits to decide is one the gateway knows.
WellPlaced(c) ==
  /\ pc[c] \in {"plan", "approved", "qa", "escalate", "save"} => step[c] \in Steps
  /\ pc[c] \in {"plan", "approved"} => live[c].approvalId \in 1..Len(gateway)

TypeInv == TypeOK /\ \A c \in Callers : WellPlaced(c)

\* A new run's state object is a state.
LEMMA FreshStateTyped == FreshState \in State
  BY DEF FreshState, State, Statuses, Steps

\* Changing one field of a state within its range leaves a state.
LEMMA FieldTyped ==
  ASSUME NEW s \in State
  PROVE  /\ \A x \in Statuses : [s EXCEPT !.status = x] \in State
         /\ \A x \in SUBSET Steps : [s EXCEPT !.done = x] \in State
         /\ \A x \in Nat : [s EXCEPT !.approvalId = x] \in State
         /\ \A x \in {"none", "pending", "approved"} : [s EXCEPT !.approval = x] \in State
         /\ \A x \in {"none", "passed", "failed"} : [s EXCEPT !.validation = x] \in State
         /\ \A x \in Statuses : [s EXCEPT !.approval = "pending", !.status = x] \in State
         /\ \A x \in Statuses : [s EXCEPT !.status = x, !.denied = TRUE] \in State
         /\ \A x \in Statuses : [s EXCEPT !.outputs = TRUE, !.status = x] \in State
         /\ \A n \in Nat, x \in Statuses : [s EXCEPT !.rework = n, !.status = x] \in State
  BY DEF State

\* The state a call continues from is a state when the persisted one is.
LEMMA ReopenedTyped ==
  ASSUME NEW s \in State
  PROVE  ResetIfCancelled(s) \in State
  BY DEF ResetIfCancelled, Reopened, State, Statuses

\* Appending an event keeps the ledger a table of counts.
LEMMA EmitTyped ==
  ASSUME TypeOK, NEW c \in Callers, NEW e \in EventTypes, Emit(c, e)
  PROVE  ledger' \in [Attempts -> [EventTypes -> Nat]]
  BY DEF TypeOK, Emit

\* Leaving a call resets the caller to well-typed idle values.
LEMMA EndCallTyped ==
  ASSUME TypeInv, NEW c \in Callers, EndCall(c), UNCHANGED gateway
  PROVE  /\ pc' \in [Callers -> Pcs]
         /\ cur' \in [Callers -> Attempts]
         /\ wasTerminal' \in [Callers -> BOOLEAN]
         /\ step' \in [Callers -> 1..15]
         /\ live' \in [Callers -> State]
         /\ qa' \in [Callers -> [left : 0..MaxTests, failed : BOOLEAN]]
         /\ token' \in [Callers -> BOOLEAN]
         /\ \A d \in Callers : WellPlaced(d)'
  <1>1. /\ pc' \in [Callers -> Pcs]
        /\ cur' \in [Callers -> Attempts]
        /\ wasTerminal' \in [Callers -> BOOLEAN]
        /\ step' \in [Callers -> 1..15]
        /\ live' \in [Callers -> State]
        /\ qa' \in [Callers -> [left : 0..MaxTests, failed : BOOLEAN]]
        /\ token' \in [Callers -> BOOLEAN]
    BY FreshStateTyped, BoundsAssumption
    DEF TypeInv, TypeOK, EndCall, Pcs, IdleQa, FirstAttempt, Attempts
  <1>2. WellPlaced(c)'
    BY DEF TypeInv, TypeOK, EndCall, WellPlaced
  <1>3. \A d \in Callers \ {c} : WellPlaced(d)'
    BY DEF TypeInv, TypeOK, EndCall, WellPlaced
  <1>4. QED
    BY <1>1, <1>2, <1>3

\* Entering a call with a state object makes a well-typed call.
LEMMA BeginTyped ==
  ASSUME TypeInv, NEW c \in Callers, NEW a \in Attempts, NEW s \in State,
         entries[a] < MaxEntries, NEW p \in {"create", "loop"}, Begin(c, a, s, p)
  PROVE  TypeInv'
  <1>1. TypeOK'
    BY BoundsAssumption DEF TypeInv, TypeOK, Begin, Pcs, durable
  <1>2. WellPlaced(c)'
    BY DEF TypeInv, TypeOK, Begin, WellPlaced
  <1>3. \A d \in Callers \ {c} : WellPlaced(d)'
    BY DEF TypeInv, TypeOK, Begin, WellPlaced, durable
  <1>4. QED
    BY <1>1, <1>2, <1>3 DEF TypeInv

\* A step function that leaves a state behind and logs a known event.
LEMMA PerformTyped ==
  ASSUME TypeInv, NEW c \in Callers, NEW s \in Steps, NEW e \in EventTypes, NEW t \in State,
         Perform(c, s, e, t)
  PROVE  TypeInv'
  <1>1. ledger' \in [Attempts -> [EventTypes -> Nat]]
    BY EmitTyped DEF TypeInv, Perform
  <1>2. QED
    BY <1>1 DEF TypeInv, TypeOK, Perform, AtStep, counts, Pcs, WellPlaced

\* Every step a caller takes by itself keeps the types.
LEMMA CallStepTyped ==
  ASSUME TypeInv, NEW c \in Callers, CallStep(c)
  PROVE  TypeInv'
  <1> USE DEF TypeInv
  <1> DEFINE s == live[c]
  <1>a. s \in State
    BY DEF TypeOK
  <1>b. /\ s.status \in Statuses
        /\ s.done \subseteq Steps
        /\ s.rework \in Nat
    BY <1>a DEF State
  <1>1. CASE SkipCompleted(c)
    <2>1. step[c] + 1 \in 1..15
      BY <1>1, <1>b DEF SkipCompleted, Steps
    <2>2. QED
      BY <1>1, <2>1 DEF SkipCompleted, TypeOK, WellPlaced, durable, counts
  <1>2. CASE ObserveCancellation(c)
    <2>1. ledger' \in [Attempts -> [EventTypes -> Nat]]
      BY <1>2, EmitTyped DEF ObserveCancellation, EventTypes
    <2>a. [s EXCEPT !.status = "cancelled"] \in State
      BY <1>a, FieldTyped DEF Statuses
    <2>2. live' \in [Callers -> State]
      BY <1>2, <2>a DEF ObserveCancellation, TypeOK
    <2>3. QED
      BY <1>2, <2>1, <2>2 DEF ObserveCancellation, TypeOK, WellPlaced, counts, Pcs
  <1>3. CASE SaveCancelled(c)
    BY <1>3 DEF SaveCancelled, TypeOK, WellPlaced, inCall, counts, Pcs
  <1>4. CASE SaveStep(c)
    <2>a. s.done \cup {step[c]} \in SUBSET Steps
      BY <1>4, <1>b DEF SaveStep, WellPlaced
    <2>1. [s EXCEPT !.done = @ \cup {step[c]}] \in State
      BY <2>a, <1>a, FieldTyped
    <2>b. step[c] \in Steps
      BY <1>4 DEF SaveStep, WellPlaced
    <2>2. step[c] + 1 \in 1..15
      BY <2>b DEF Steps
    <2>3. QED
      BY <1>4, <2>1, <2>2 DEF SaveStep, TypeOK, WellPlaced, counts, Pcs
  <1>5. CASE \/ LoadRunManifest(c) \/ HydrateTypedState(c) \/ CreateExecutionPlan(c)
             \/ RemediateIfAllowed(c) \/ StageChanges(c) \/ CreateCommit(c)
             \/ UpdateProjectIndexes(c) \/ SkipPlanApproval(c)
    <2>1. live[c] \in State
      BY DEF TypeOK
    <2>2. QED
      BY <1>5, <2>1, PerformTyped
      DEF LoadRunManifest, HydrateTypedState, CreateExecutionPlan, RemediateIfAllowed,
          StageChanges, CreateCommit, UpdateProjectIndexes, SkipPlanApproval,
          Steps, LoadManifest, Hydrate, Plan, Remediate, Stage, Commit, UpdateIndexes,
          PlanApproval, EventTypes
  <1>6. CASE PreflightPolicyCheck(c)
    <2>1. s \in State /\ [s EXCEPT !.status = "blocked", !.denied = TRUE] \in State
      BY <1>a, FieldTyped DEF Statuses
    <2>2. QED
      BY <1>6, <2>1, PerformTyped DEF PreflightPolicyCheck, Steps, Preflight, EventTypes
  <1>7. CASE RequestPlanApproval(c)
    <2>1. gateway' \in Seq({"pending", "approved", "rejected"}) /\ Len(gateway') = Len(gateway) + 1
      BY <1>7 DEF RequestPlanApproval, TypeOK
    <2>2. Len(gateway) \in Nat /\ Len(gateway) + 1 \in Nat
      BY DEF TypeOK
    <2>a. [s EXCEPT !.approvalId = Len(gateway) + 1] \in State
      BY <1>a, <2>2, FieldTyped
    <2>b. [s EXCEPT !.approvalId = Len(gateway) + 1].approvalId = Len(gateway) + 1
      BY <1>a DEF State
    <2>3. live' \in [Callers -> State] /\ live'[c].approvalId = Len(gateway) + 1
      BY <1>7, <2>a, <2>b DEF RequestPlanApproval, TypeOK
    <2>4. \A d \in Callers : WellPlaced(d)'
      BY <1>7, <2>1, <2>2, <2>3
      DEF RequestPlanApproval, AtStep, TypeOK, WellPlaced, Steps, PlanApproval
    <2>5. QED
      BY <1>7, <2>1, <2>3, <2>4 DEF RequestPlanApproval, TypeOK, counts, Pcs
  <1>8. CASE DecidePlanApproval(c)
    <2>b. gateway \in Seq({"pending", "approved", "rejected"}) /\ s.approvalId \in 1..Len(gateway)
      BY <1>8 DEF DecidePlanApproval, TypeOK, WellPlaced
    <2>c. gateway' = gateway \/ gateway' = [gateway EXCEPT ![s.approvalId] = "approved"]
      BY <1>8 DEF DecidePlanApproval
    <2>1. gateway' \in Seq({"pending", "approved", "rejected"}) /\ Len(gateway') = Len(gateway)
      BY <2>b, <2>c, ExceptSeq
    <2>a. /\ [s EXCEPT !.approval = "approved"] \in State
          /\ [s EXCEPT !.approval = "pending", !.status = "waiting_for_human"] \in State
      BY <1>a, FieldTyped DEF Statuses
    <2>2. live' \in [Callers -> State]
      BY <1>8, <2>a DEF DecidePlanApproval, TypeOK
    <2>3. ledger' \in [Attempts -> [EventTypes -> Nat]]
      <3>1. ledger' = ledger \/ Emit(c, "plan_approval_pending")
        BY <1>8 DEF DecidePlanApproval
      <3>2. QED
        BY <3>1, EmitTyped DEF TypeOK, EventTypes
    <2>4. \A d \in Callers : WellPlaced(d)'
      BY <1>8, <2>1 DEF DecidePlanApproval, TypeOK, WellPlaced
    <2>5. QED
      BY <1>8, <2>1, <2>2, <2>3, <2>4 DEF DecidePlanApproval, TypeOK, counts, Pcs
  <1>9. CASE ExecuteBoundedCrews(c)
    <2>1. [s EXCEPT !.outputs = TRUE, !.status = "running"] \in State
      BY <1>a, FieldTyped DEF Statuses
    <2>2. QED
      BY <1>9, <2>1, PerformTyped DEF ExecuteBoundedCrews, Steps, Execute, EventTypes
  <1>10. CASE ValidateOutputs(c)
    <2>1. [s EXCEPT !.validation = IF s.outputs /\ OutputsDeclared
                                     THEN "passed" ELSE "failed"] \in State
      BY <1>a, FieldTyped
    <2>2. QED
      BY <1>10, <2>1, PerformTyped DEF ValidateOutputs, Steps, Validate, EventTypes
  <1>11. CASE RefuseSelfApproval(c)
    <2>1. EndCall(c) /\ UNCHANGED <<durable, metrics, counts>>
      BY <1>11 DEF RefuseSelfApproval
    <2>2. QED
      BY <2>1, EndCallTyped DEF TypeOK, durable, counts
  <1>12. CASE BeginQa(c)
    BY <1>12 DEF BeginQa, AtStep, TypeOK, WellPlaced, durable, counts, Pcs, Steps, QaValidation
  <1>13. CASE RunTestCase(c)
    <2>1. ledger' \in [Attempts -> [EventTypes -> Nat]]
      BY <1>13, EmitTyped DEF RunTestCase, EventTypes
    <2>2. qa' \in [Callers -> [left : 0..MaxTests, failed : BOOLEAN]]
      BY <1>13, BoundsAssumption DEF RunTestCase, TypeOK
    <2>3. QED
      BY <1>13, <2>1, <2>2 DEF RunTestCase, TypeOK, WellPlaced, counts
  <1>14. CASE PassQa(c)
    <2>1. ledger' \in [Attempts -> [EventTypes -> Nat]]
      BY <1>14, EmitTyped DEF PassQa, EventTypes
    <2>a. [s EXCEPT !.status = "review"] \in State
      BY <1>a, FieldTyped DEF Statuses
    <2>2. live' \in [Callers -> State]
      BY <1>14, <2>a DEF PassQa, TypeOK
    <2>3. QED
      BY <1>14, <2>1, <2>2 DEF PassQa, TypeOK, WellPlaced, counts, Pcs
  <1>15. CASE RejectQa(c)
    <2>1. ledger' \in [Attempts -> [EventTypes -> Nat]]
      BY <1>15, EmitTyped DEF RejectQa, EventTypes
    <2>b. s.rework + 1 \in Nat /\ {"rejected", "dead_letter"} \subseteq Statuses
      BY <1>b DEF Statuses
    <2>a. \A x \in {"rejected", "dead_letter"} :
            [s EXCEPT !.rework = s.rework + 1, !.status = x] \in State
      BY <1>a, <2>b, FieldTyped
    <2>2. live' \in [Callers -> State]
      BY <1>15, <2>a DEF RejectQa, TypeOK
    <2>c. pc' = [pc EXCEPT ![c] = "save"] \/ pc' = [pc EXCEPT ![c] = "escalate"]
      BY <1>15 DEF RejectQa
    <2>d. \A d \in Callers \ {c} : live'[d] = live[d]
      BY <1>15 DEF RejectQa, TypeOK
    <2>e. pc' \in [Callers -> Pcs]
      BY <2>c DEF TypeOK, Pcs
    <2>f. \A d \in Callers : WellPlaced(d)'
      BY <1>15, <2>c, <2>d DEF RejectQa, TypeOK, WellPlaced
    <2>3. QED
      BY <1>15, <2>1, <2>2, <2>e, <2>f DEF RejectQa, TypeOK, counts
  <1>16. CASE Escalate(c)
    <2>1. ledger' \in [Attempts -> [EventTypes -> Nat]]
      BY <1>16, EmitTyped DEF Escalate, EventTypes
    <2>2. QED
      BY <1>16, <2>1 DEF Escalate, TypeOK, WellPlaced, inCall, counts, Pcs
  <1>17. CASE HumanAcceptance(c)
    <2>1. /\ s \in State
          /\ [s EXCEPT !.status = "accepted"] \in State
          /\ [s EXCEPT !.status = "waiting_for_human"] \in State
      BY <1>a, FieldTyped DEF Statuses
    <2>2. QED
      BY <1>17, <2>1, PerformTyped DEF HumanAcceptance, Steps, Acceptance, EventTypes
  <1>18. CASE FinalizeRunSummary(c)
    <2>1. (IF s.status = "accepted" THEN "closed" ELSE s.status) \in Statuses
      BY <1>b DEF Statuses
    <2>2. [s EXCEPT !.status = IF @ = "accepted" THEN "closed" ELSE @] \in State
      BY <2>1, <1>a, FieldTyped
    <2>3. QED
      BY <1>18, <2>2, PerformTyped DEF FinalizeRunSummary, Steps, Finalize, EventTypes
  <1>19. CASE Return(c)
    <2>1. EndCall(c) /\ UNCHANGED <<durable, counts>>
      BY <1>19 DEF Return
    <2>2. metrics' \in [TerminalStatuses -> Nat]
      BY <1>19 DEF Return, TypeOK
    <2>3. QED
      BY <2>1, <2>2, EndCallTyped DEF TypeOK, durable, counts
  <1>20. CASE SaveNew(c)
    BY <1>20 DEF SaveNew, TypeOK, WellPlaced, inCall, counts, Pcs
  <1>21. CASE RecordPlanApproval(c)
    <2>1. ledger' \in [Attempts -> [EventTypes -> Nat]]
      BY <1>21, EmitTyped DEF RecordPlanApproval, EventTypes
    <2>a. [s EXCEPT !.approval = "approved"] \in State
      BY <1>a, FieldTyped
    <2>2. live' \in [Callers -> State]
      BY <1>21, <2>a DEF RecordPlanApproval, TypeOK
    <2>3. QED
      BY <1>21, <2>1, <2>2 DEF RecordPlanApproval, TypeOK, WellPlaced, counts, Pcs
  <1>22. CASE SaveApiCancel(c)
    <2>1. EndCall(c) /\ UNCHANGED <<ledger, gateway, metrics, entries, aborts>>
      BY <1>22 DEF SaveApiCancel
    <2>2. store' \in [Attempts -> State \cup {NoState}] /\ cancels' \in [Attempts -> Nat]
      BY <1>22 DEF SaveApiCancel, TypeOK
    <2>3. QED
      BY <2>1, <2>2, EndCallTyped DEF TypeOK
  <1>23. QED
    BY <1>1, <1>2, <1>3, <1>4, <1>5, <1>6, <1>7, <1>8, <1>9, <1>10, <1>11, <1>12, <1>13,
       <1>14, <1>15, <1>16, <1>17, <1>18, <1>19, <1>20, <1>21, <1>22 DEF CallStep

\* Whatever happens around the calls keeps the types too.
LEMMA NextTyped ==
  ASSUME TypeInv, [Next]_vars
  PROVE  TypeInv'
  <1> USE DEF TypeInv
  <1>1. CASE UNCHANGED vars
    BY <1>1 DEF vars, TypeOK, WellPlaced
  <1>2. ASSUME NEW c \in Callers, CallStep(c) PROVE TypeInv'
    BY <1>2, CallStepTyped
  <1>3. ASSUME NEW c \in Callers, Abort(c) PROVE TypeInv'
    <2>1. EndCall(c) /\ UNCHANGED <<durable, metrics, entries, cancels>>
      BY <1>3 DEF Abort
    <2>2. aborts' \in 0..MaxAborts
      BY <1>3, BoundsAssumption DEF Abort, TypeOK
    <2>3. QED
      BY <2>1, <2>2, EndCallTyped DEF TypeOK, durable
  <1>4. ASSUME NEW c \in Callers, RequestCancel(c) PROVE TypeInv'
    BY <1>4 DEF RequestCancel, TypeOK, WellPlaced, durable, counts
  <1>5. ASSUME NEW c \in Callers, StartNew(c) PROVE TypeInv'
    <2>1. FirstAttempt \in Attempts
      BY BoundsAssumption DEF FirstAttempt, Attempts
    <2>2. QED
      BY <1>5, <2>1, FreshStateTyped, BeginTyped DEF StartNew, MayEnter
  <1>6. ASSUME NEW c \in Callers, NEW a \in Attempts, Continue(c, a) PROVE TypeInv'
    <2>1. store[a] \in State
      BY <1>6 DEF Continue, TypeOK
    <2>2. ResetIfCancelled(store[a]) \in State
      BY <2>1, ReopenedTyped
    <2>3. QED
      BY <1>6, <2>2, BeginTyped DEF Continue, MayEnter, TypeOK
  <1>7. ASSUME NEW a \in Attempts, NEW b \in Attempts \ {FirstAttempt}, StartNewAttempt(a, b)
        PROVE TypeInv'
    <2>1. store[a] \in State
      BY <1>7 DEF StartNewAttempt, TypeOK
    <2>2. NewAttemptState(store[a]) \in State
      BY <2>1, FreshStateTyped DEF NewAttemptState, State, Statuses
    <2>3. QED
      BY <1>7, <2>2 DEF StartNewAttempt, TypeOK, WellPlaced, inCall, counts
  <1>8. ASSUME NEW i \in DOMAIN gateway, HumanResolve(i) PROVE TypeInv'
    <2>1. gateway' \in Seq({"pending", "approved", "rejected"}) /\ Len(gateway') = Len(gateway)
      BY <1>8, ExceptSeq DEF HumanResolve, TypeOK
    <2>2. QED
      BY <1>8, <2>1 DEF HumanResolve, TypeOK, WellPlaced, inCall, counts
  <1>9. ASSUME NEW c \in Callers, NEW a \in Attempts, LoadToCancel(c, a) PROVE TypeInv'
    <2>1. store[a] \in State
      BY <1>9 DEF LoadToCancel, TypeOK
    <2>2. [store[a] EXCEPT !.status = "cancelled"] \in State
      BY <2>1, FieldTyped DEF Statuses
    <2>3. QED
      BY <1>9, <2>2 DEF LoadToCancel, TypeOK, WellPlaced, durable, counts, Pcs
  <1>10. QED
    BY <1>1, <1>2, <1>3, <1>4, <1>5, <1>6, <1>7, <1>8, <1>9 DEF Next

\* The initial state has the types.
LEMMA InitTyped == Init => TypeInv
  BY FreshStateTyped, BoundsAssumption
  DEF Init, TypeInv, TypeOK, WellPlaced, Pcs, IdleQa, FirstAttempt, Attempts

\* In every reachable state, the stores, the ledger and every call have their
\* types, and a call that is inside a step is at a step of the sequence.
THEOREM TypeCorrect == Spec => []TypeInv
  BY InitTyped, NextTyped, PTL DEF Spec

\* Stores, ledger, gateway, metrics and calls keep their types.
THEOREM TypesHold == Spec => []TypeOK
  BY TypeCorrect, PTL DEF TypeInv

-----------------------------------------------------------------------------
(* Checkpoints are prefixes of the canonical order                         *)

InStepPcs == {"plan", "approved", "qa", "escalate", "save"}

\* The loop has found every step before its position complete; inside a step,
\* exactly those are.
InOrder(c) ==
  /\ IsPrefix(live[c].done)
  /\ pc[c] \in {"idle", "create"} => step[c] = 1
  /\ pc[c] = "loop" => 1..(step[c] - 1) \subseteq live[c].done
  /\ pc[c] \in InStepPcs => live[c].done = 1..(step[c] - 1)

\* CompletedStepsArePrefix is not inductive: the step a call saves next must be
\* the first one its state has not completed.
PrefixInv ==
  /\ TypeInv
  /\ \A a \in Persisted : IsPrefix(store[a].done)
  /\ \A c \in Callers : InOrder(c)

\* A step that is missing while all before it are there is the first missing.
LEMMA PrefixGap ==
  ASSUME NEW D, IsPrefix(D), NEW k \in Steps, 1..(k - 1) \subseteq D, k \notin D
  PROVE  D = 1..(k - 1)
  <1>1. PICK n \in 0..14 : D = 1..n
    BY DEF IsPrefix
  <1>2. n = k - 1
    <2>1. k > n
      BY <1>1 DEF Steps
    <2>2. k - 1 <= n
      <3>1. CASE k = 1
        BY <3>1, <1>1
      <3>2. CASE k # 1
        <4>1. k - 1 \in 1..(k - 1)
          BY <3>2 DEF Steps
        <4>2. QED
          BY <4>1, <1>1
      <3>3. QED
        BY <3>1, <3>2
    <2>3. QED
      BY <2>1, <2>2 DEF Steps
  <1>3. QED
    BY <1>1, <1>2

\* Completing the first missing step leaves a prefix.
LEMMA PrefixGrows ==
  ASSUME NEW k \in Steps
  PROVE  1..(k - 1) \cup {k} = 1..k /\ IsPrefix(1..k)
  <1>1. 1..(k - 1) \cup {k} = 1..k
    BY DEF Steps
  <1>2. k \in 0..14
    BY DEF Steps
  <1>3. QED
    BY <1>1, <1>2 DEF IsPrefix

\* The planning steps of a prefix are a prefix.
LEMMA PrefixOfPlanning ==
  ASSUME NEW D, IsPrefix(D)
  PROVE  IsPrefix(D \cap PlanningSteps)
  <1>1. PICK n \in 0..14 : D = 1..n
    BY DEF IsPrefix
  <1>2. CASE n <= 5
    <2>1. D \cap PlanningSteps = 1..n
      BY <1>1, <1>2 DEF PlanningSteps, LoadManifest, PlanApproval
    <2>2. QED
      BY <2>1 DEF IsPrefix
  <1>3. CASE n > 5
    <2>1. D \cap PlanningSteps = 1..5
      BY <1>1, <1>3 DEF PlanningSteps, LoadManifest, PlanApproval
    <2>2. QED
      BY <2>1 DEF IsPrefix
  <1>4. QED
    BY <1>2, <1>3

\* The empty set of a new run is a prefix.
LEMMA FreshIsPrefix == FreshState.done = {} /\ IsPrefix(FreshState.done)
  <1>1. FreshState.done = 1..0
    BY DEF FreshState
  <1>2. QED
    BY <1>1 DEF IsPrefix, FreshState

\* Only SaveStep completes steps: no other change of a state does.
LEMMA FieldKeepsDone ==
  ASSUME NEW s \in State
  PROVE  /\ \A x : [s EXCEPT !.status = x].done = s.done
         /\ \A x : [s EXCEPT !.approvalId = x].done = s.done
         /\ \A n, x : [s EXCEPT !.rework = n, !.status = x].done = s.done
  BY DEF State

\* A call that changes neither the store nor what any state has completed, and
\* moves within its step, or into the step it has found missing.
LEMMA SameDoneInOrder ==
  ASSUME PrefixInv, TypeInv', NEW c \in Callers, UNCHANGED <<store, step>>,
         live'[c].done = live[c].done,
         pc'[c] \in InStepPcs,
         pc[c] \in InStepPcs \/ AtStep(c, step[c]),
         \A d \in Callers \ {c} : pc'[d] = pc[d] /\ live'[d] = live[d]
  PROVE  PrefixInv'
  <1>1. step[c] \in Steps
    BY DEF TypeInv, WellPlaced, InStepPcs
  <1>2. live[c].done = 1..(step[c] - 1)
    <2>1. CASE pc[c] \in InStepPcs
      BY <2>1 DEF PrefixInv, InOrder
    <2>2. CASE AtStep(c, step[c])
      BY <2>2, <1>1, PrefixGap DEF PrefixInv, InOrder, AtStep
    <2>3. QED
      BY <2>1, <2>2
  <1>3. InOrder(c)'
    BY <1>2 DEF PrefixInv, InOrder, InStepPcs
  <1>4. \A d \in Callers \ {c} : InOrder(d)'
    BY DEF PrefixInv, InOrder
  <1>5. QED
    BY <1>3, <1>4 DEF PrefixInv, Persisted

\* A step function that emits one event keeps the order.
LEMMA PerformInOrder ==
  ASSUME PrefixInv, TypeInv', NEW c \in Callers, NEW k \in Steps, NEW e, NEW t,
         Perform(c, k, e, t), t.done = live[c].done
  PROVE  PrefixInv'
  <1>1. /\ UNCHANGED <<store, step>>
        /\ AtStep(c, step[c])
    BY DEF Perform, AtStep
  <1>2. /\ live'[c] = t
        /\ pc'[c] = "save"
        /\ \A d \in Callers \ {c} : pc'[d] = pc[d] /\ live'[d] = live[d]
    BY DEF Perform, PrefixInv, TypeInv, TypeOK
  <1>3. QED
    BY <1>1, <1>2, SameDoneInOrder DEF InStepPcs

\* A call that ends leaves an idle caller and no half-made checkpoint.
LEMMA EndCallInOrder ==
  ASSUME PrefixInv, TypeInv', NEW c \in Callers, EndCall(c), UNCHANGED store
  PROVE  PrefixInv'
  <1>1. /\ live'[c] = FreshState
        /\ pc'[c] = "idle"
        /\ step'[c] = 1
        /\ \A d \in Callers \ {c} : pc'[d] = pc[d] /\ live'[d] = live[d] /\ step'[d] = step[d]
    BY DEF EndCall, PrefixInv, TypeInv, TypeOK
  <1>2. InOrder(c)'
    BY <1>1, FreshIsPrefix DEF InOrder, InStepPcs
  <1>3. \A d \in Callers \ {c} : InOrder(d)'
    BY <1>1 DEF PrefixInv, InOrder
  <1>4. QED
    BY <1>2, <1>3 DEF PrefixInv, Persisted

\* Entering a call with a prefix starts the loop at the first step.
LEMMA BeginInOrder ==
  ASSUME PrefixInv, TypeInv', NEW c \in Callers, NEW a \in Attempts, NEW s,
         NEW p \in {"create", "loop"}, pc[c] = "idle", Begin(c, a, s, p), IsPrefix(s.done)
  PROVE  PrefixInv'
  <1>1. /\ live'[c] = s
        /\ pc'[c] = p
        /\ store' = store
        /\ step'[c] = 1
        /\ \A d \in Callers \ {c} : pc'[d] = pc[d] /\ live'[d] = live[d] /\ step'[d] = step[d]
    BY DEF Begin, PrefixInv, InOrder, TypeInv, TypeOK, durable
  <1>2. InOrder(c)'
    BY <1>1 DEF InOrder, InStepPcs
  <1>3. \A d \in Callers \ {c} : InOrder(d)'
    BY <1>1 DEF PrefixInv, InOrder
  <1>4. QED
    BY <1>1, <1>2, <1>3 DEF PrefixInv, Persisted

\* Every step a caller takes by itself keeps the order.
LEMMA CallStepInOrder ==
  ASSUME PrefixInv, TypeInv', NEW c \in Callers, CallStep(c)
  PROVE  PrefixInv'
  <1> DEFINE s == live[c]
             Others == \A d \in Callers \ {c} : pc'[d] = pc[d] /\ live'[d] = live[d]
  <1>t. TypeInv /\ TypeOK /\ s \in State
    BY DEF PrefixInv, TypeInv, TypeOK
  <1>1. CASE SkipCompleted(c)
    <2>1. /\ live' = live /\ pc' = pc /\ store' = store
          /\ step'[c] = step[c] + 1
          /\ \A d \in Callers \ {c} : step'[d] = step[d]
      BY <1>1, <1>t DEF SkipCompleted, durable, TypeOK
    <2>2. InOrder(c)'
      <3>1. 1..(step[c] - 1) \subseteq s.done /\ step[c] \in s.done /\ pc[c] = "loop"
        BY <1>1 DEF SkipCompleted, PrefixInv, InOrder
      <3>2. 1..((step[c] + 1) - 1) \subseteq s.done
        <4>1. step[c] \in 1..15
          BY <1>t DEF TypeOK
        <4>2. QED
          BY <3>1, <4>1
      <3>3. QED
        BY <2>1, <3>1, <3>2 DEF InOrder, PrefixInv, InStepPcs
    <2>3. \A d \in Callers \ {c} : InOrder(d)'
      BY <2>1 DEF PrefixInv, InOrder
    <2>4. QED
      BY <2>1, <2>2, <2>3 DEF PrefixInv, Persisted
  <1>2. CASE ObserveCancellation(c)
    <2>1. live'[c].done = s.done
      BY <1>2, <1>t, FieldKeepsDone DEF ObserveCancellation, TypeOK
    <2>2. pc'[c] = "cancel" /\ store' = store /\ step' = step /\ Others
      BY <1>2, <1>t DEF ObserveCancellation, TypeOK
    <2>3. InOrder(c)'
      BY <2>1, <2>2 DEF PrefixInv, InOrder, InStepPcs
    <2>4. \A d \in Callers \ {c} : InOrder(d)'
      BY <2>2 DEF PrefixInv, InOrder
    <2>5. QED
      BY <2>2, <2>3, <2>4 DEF PrefixInv, Persisted
  <1>3. CASE SaveCancelled(c)
    <2>1. live' = live /\ step' = step /\ pc'[c] = "return"
          /\ \A d \in Callers \ {c} : pc'[d] = pc[d]
      BY <1>3, <1>t DEF SaveCancelled, inCall, TypeOK
    <2>2. \A d \in Callers : InOrder(d)'
      BY <2>1 DEF PrefixInv, InOrder, InStepPcs
    <2>3. \A a \in Attempts : store'[a] = store[a] \/ store'[a] = live[c]
      BY <1>3, <1>t DEF SaveCancelled, TypeOK
    <2>4. QED
      BY <2>2, <2>3 DEF PrefixInv, Persisted, InOrder
  <1>4. CASE SaveStep(c)
    <2> DEFINE saved == [s EXCEPT !.done = @ \cup {step[c]}]
    <2>1. step[c] \in Steps /\ s.done = 1..(step[c] - 1)
      BY <1>4, <1>t DEF SaveStep, TypeInv, WellPlaced, PrefixInv, InOrder, InStepPcs
    <2>2. saved.done = 1..step[c] /\ IsPrefix(saved.done)
      <3>1. saved.done = s.done \cup {step[c]}
        BY <1>t DEF State
      <3>2. QED
        BY <3>1, <2>1, PrefixGrows
    <2>3. /\ live'[c] = saved
          /\ pc'[c] \in {"return", "loop"}
          /\ step'[c] = step[c] + 1
          /\ \A d \in Callers \ {c} : pc'[d] = pc[d] /\ live'[d] = live[d] /\ step'[d] = step[d]
      BY <1>4, <1>t DEF SaveStep, TypeOK
    <2>4. InOrder(c)'
      <3>1. (step[c] + 1) - 1 = step[c]
        BY <2>1 DEF Steps
      <3>2. QED
        BY <2>2, <2>3, <3>1 DEF InOrder, InStepPcs
    <2>5. \A d \in Callers \ {c} : InOrder(d)'
      BY <2>3 DEF PrefixInv, InOrder
    <2>6. \A a \in Attempts : store'[a] = store[a] \/ store'[a] = saved
      BY <1>4, <1>t DEF SaveStep, TypeOK
    <2>7. QED
      BY <2>2, <2>4, <2>5, <2>6 DEF PrefixInv, Persisted
  <1>5. CASE \/ LoadRunManifest(c) \/ HydrateTypedState(c) \/ CreateExecutionPlan(c)
             \/ RemediateIfAllowed(c) \/ StageChanges(c) \/ CreateCommit(c)
             \/ UpdateProjectIndexes(c) \/ SkipPlanApproval(c)
    <2>1. \E k \in Steps, e \in EventTypes : Perform(c, k, e, s)
      BY <1>5
      DEF LoadRunManifest, HydrateTypedState, CreateExecutionPlan, RemediateIfAllowed,
          StageChanges, CreateCommit, UpdateProjectIndexes, SkipPlanApproval,
          Steps, LoadManifest, Hydrate, Plan, Remediate, Stage, Commit, UpdateIndexes,
          PlanApproval, EventTypes
    <2>2. QED
      BY <2>1, PerformInOrder
  <1>6. CASE PreflightPolicyCheck(c)
    <2> DEFINE t == [s EXCEPT !.status = "blocked", !.denied = TRUE]
    <2>1. t.done = s.done
      BY <1>t DEF State
    <2>2. \/ Perform(c, Preflight, "policy_decision_recorded", s)
          \/ Perform(c, Preflight, "policy_decision_recorded", t)
      BY <1>6 DEF PreflightPolicyCheck
    <2> HIDE DEF t
    <2>3. QED
      BY <2>1, <2>2, PerformInOrder DEF Steps, Preflight
  <1>7. CASE RequestPlanApproval(c)
    <2>1. live'[c].done = s.done
      BY <1>7, <1>t, FieldKeepsDone DEF RequestPlanApproval, TypeOK
    <2>2. pc'[c] = "plan" /\ UNCHANGED <<store, step>> /\ Others /\ AtStep(c, step[c])
      BY <1>7, <1>t DEF RequestPlanApproval, TypeOK, AtStep
    <2>3. QED
      BY <2>1, <2>2, SameDoneInOrder DEF InStepPcs
  <1>8. CASE DecidePlanApproval(c)
    <2>a. [s EXCEPT !.approval = "pending", !.status = "waiting_for_human"].done = s.done
      BY <1>t DEF State
    <2>1. live'[c].done = s.done
      BY <1>8, <1>t, <2>a DEF DecidePlanApproval, TypeOK
    <2>2. pc[c] = "plan" /\ pc'[c] \in {"approved", "save"} /\ UNCHANGED <<store, step>> /\ Others
      BY <1>8, <1>t DEF DecidePlanApproval, TypeOK
    <2>3. QED
      BY <2>1, <2>2, SameDoneInOrder DEF InStepPcs
  <1>9. CASE ExecuteBoundedCrews(c)
    <2> DEFINE t == [s EXCEPT !.outputs = TRUE, !.status = "running"]
    <2>1. t.done = s.done
      BY <1>t DEF State
    <2>2. Perform(c, Execute, "bounded_crew_executed", t)
      BY <1>9 DEF ExecuteBoundedCrews
    <2> HIDE DEF t
    <2>3. QED
      BY <2>1, <2>2, PerformInOrder DEF Steps, Execute
  <1>10. CASE ValidateOutputs(c)
    <2> DEFINE t == [s EXCEPT !.validation = IF s.outputs /\ OutputsDeclared
                                     THEN "passed" ELSE "failed"]
    <2>1. t.done = s.done
      BY <1>t DEF State
    <2>2. Perform(c, Validate, "outputs_validated", t)
      BY <1>10 DEF ValidateOutputs
    <2> HIDE DEF t
    <2>3. QED
      BY <2>1, <2>2, PerformInOrder DEF Steps, Validate
  <1>11. CASE RefuseSelfApproval(c)
    BY <1>11, EndCallInOrder DEF RefuseSelfApproval, durable
  <1>12. CASE BeginQa(c)
    <2>1. live' = live /\ pc'[c] = "qa" /\ UNCHANGED <<store, step>> /\ Others
          /\ AtStep(c, step[c])
      BY <1>12, <1>t DEF BeginQa, TypeOK, AtStep, durable
    <2>2. QED
      BY <2>1, SameDoneInOrder DEF InStepPcs
  <1>13. CASE RunTestCase(c)
    <2>1. live' = live /\ pc' = pc /\ pc[c] = "qa" /\ UNCHANGED <<store, step>>
      BY <1>13 DEF RunTestCase
    <2>2. QED
      BY <2>1, SameDoneInOrder DEF InStepPcs
  <1>14. CASE PassQa(c)
    <2>1. live'[c].done = s.done
      BY <1>14, <1>t, FieldKeepsDone DEF PassQa, TypeOK
    <2>2. pc[c] = "qa" /\ pc'[c] = "save" /\ UNCHANGED <<store, step>> /\ Others
      BY <1>14, <1>t DEF PassQa, TypeOK
    <2>3. QED
      BY <2>1, <2>2, SameDoneInOrder DEF InStepPcs
  <1>15. CASE RejectQa(c)
    <2>1. live'[c].done = s.done
      <3> DEFINE t(x) == [s EXCEPT !.rework = s.rework + 1, !.status = x]
      <3>1. live'[c] = t("rejected") \/ live'[c] = t("dead_letter")
        BY <1>15, <1>t DEF RejectQa, TypeOK
      <3>2. \A x : t(x).done = s.done
        BY <1>t DEF State
      <3> HIDE DEF t
      <3>3. QED
        BY <3>1, <3>2
    <2>2. pc[c] = "qa" /\ pc'[c] \in {"escalate", "save"} /\ UNCHANGED <<store, step>> /\ Others
      BY <1>15, <1>t DEF RejectQa, TypeOK
    <2>3. QED
      BY <2>1, <2>2, SameDoneInOrder DEF InStepPcs
  <1>16. CASE Escalate(c)
    <2>1. live' = live /\ pc[c] = "escalate" /\ pc'[c] = "save" /\ UNCHANGED <<store, step>>
          /\ Others
      BY <1>16, <1>t DEF Escalate, inCall, TypeOK
    <2>2. QED
      BY <2>1, SameDoneInOrder DEF InStepPcs
  <1>17. CASE HumanAcceptance(c)
    <2> DEFINE t(x) == [s EXCEPT !.status = x]
    <2>1. \A x : t(x).done = s.done
      BY <1>t DEF State
    <2>2. \/ Perform(c, Acceptance, "acceptance_skipped", s)
          \/ Perform(c, Acceptance, "acceptance_granted", t("accepted"))
          \/ Perform(c, Acceptance, "acceptance_pending", t("waiting_for_human"))
      BY <1>17 DEF HumanAcceptance
    <2> HIDE DEF t
    <2>3. QED
      BY <2>1, <2>2, PerformInOrder DEF Steps, Acceptance
  <1>18. CASE FinalizeRunSummary(c)
    <2> DEFINE t == [s EXCEPT !.status = IF @ = "accepted" THEN "closed" ELSE @]
    <2>1. t.done = s.done
      BY <1>t DEF State
    <2>2. Perform(c, Finalize, "run_summary_generated", t)
      BY <1>18 DEF FinalizeRunSummary
    <2> HIDE DEF t
    <2>3. QED
      BY <2>1, <2>2, PerformInOrder DEF Steps, Finalize
  <1>19. CASE Return(c)
    BY <1>19, EndCallInOrder DEF Return, durable
  <1>20. CASE SaveNew(c)
    <2>1. live' = live /\ step' = step /\ pc[c] = "create" /\ pc'[c] = "loop"
          /\ \A d \in Callers \ {c} : pc'[d] = pc[d]
      BY <1>20, <1>t DEF SaveNew, inCall, TypeOK
    <2>2. InOrder(c) /\ 1..(step[c] - 1) \subseteq s.done
      BY <2>1 DEF PrefixInv, InOrder
    <2>3. \A d \in Callers : InOrder(d)'
      BY <2>1, <2>2 DEF PrefixInv, InOrder, InStepPcs
    <2>4. \A a \in Attempts : store'[a] = store[a] \/ store'[a] = live[c]
      BY <1>20, <1>t DEF SaveNew, TypeOK
    <2>5. QED
      BY <2>2, <2>3, <2>4 DEF PrefixInv, Persisted, InOrder
  <1>21. CASE RecordPlanApproval(c)
    <2>a. [s EXCEPT !.approval = "approved"].done = s.done
      BY <1>t DEF State
    <2>1. live'[c].done = s.done
      BY <1>21, <1>t, <2>a DEF RecordPlanApproval, TypeOK
    <2>2. pc[c] = "approved" /\ pc'[c] = "save" /\ UNCHANGED <<store, step>> /\ Others
      BY <1>21, <1>t DEF RecordPlanApproval, TypeOK
    <2>3. QED
      BY <2>1, <2>2, SameDoneInOrder DEF InStepPcs
  <1>22. CASE SaveApiCancel(c)
    <2>1. /\ live'[c] = FreshState
          /\ pc'[c] = "idle"
          /\ step'[c] = 1
          /\ \A d \in Callers \ {c} : pc'[d] = pc[d] /\ live'[d] = live[d] /\ step'[d] = step[d]
      BY <1>22, <1>t DEF SaveApiCancel, EndCall, TypeOK
    <2>2. InOrder(c)'
      BY <2>1, FreshIsPrefix DEF InOrder, InStepPcs
    <2>3. \A d \in Callers \ {c} : InOrder(d)'
      BY <2>1 DEF PrefixInv, InOrder
    <2>4. \A a \in Attempts : store'[a] = store[a] \/ store'[a] = live[c]
      BY <1>22, <1>t DEF SaveApiCancel, TypeOK
    <2>5. QED
      BY <2>2, <2>3, <2>4 DEF PrefixInv, Persisted, InOrder
  <1>23. QED
    BY <1>1, <1>2, <1>3, <1>4, <1>5, <1>6, <1>7, <1>8, <1>9, <1>10, <1>11, <1>12, <1>13,
       <1>14, <1>15, <1>16, <1>17, <1>18, <1>19, <1>20, <1>21, <1>22 DEF CallStep

\* New calls, new attempts, deaths and humans keep the order too.
LEMMA NextInOrder ==
  ASSUME PrefixInv, [Next]_vars
  PROVE  PrefixInv'
  <1>t. TypeInv /\ TypeOK /\ TypeInv'
    BY NextTyped DEF PrefixInv, TypeInv
  <1>1. CASE UNCHANGED vars
    BY <1>1, <1>t DEF vars, PrefixInv, Persisted, InOrder
  <1>2. ASSUME NEW c \in Callers, CallStep(c) PROVE PrefixInv'
    BY <1>2, <1>t, CallStepInOrder
  <1>3. ASSUME NEW c \in Callers, Abort(c) PROVE PrefixInv'
    BY <1>3, <1>t, EndCallInOrder DEF Abort, durable
  <1>4. ASSUME NEW c \in Callers, RequestCancel(c) PROVE PrefixInv'
    BY <1>4, <1>t DEF RequestCancel, PrefixInv, Persisted, InOrder, durable
  <1>5. ASSUME NEW c \in Callers, StartNew(c) PROVE PrefixInv'
    <2>1. FirstAttempt \in Attempts
      BY BoundsAssumption DEF FirstAttempt, Attempts
    <2>2. QED
      BY <1>5, <1>t, <2>1, FreshIsPrefix, BeginInOrder DEF StartNew, MayEnter, MayTouch
  <1>6. ASSUME NEW c \in Callers, NEW a \in Attempts, Continue(c, a) PROVE PrefixInv'
    <2>1. store[a] \in State /\ IsPrefix(store[a].done)
      BY <1>6, <1>t DEF Continue, TypeOK, PrefixInv, Persisted
    <2>2. ResetIfCancelled(store[a]).done = store[a].done
      BY <2>1, FieldKeepsDone DEF ResetIfCancelled
    <2>3. QED
      BY <1>6, <1>t, <2>1, <2>2, BeginInOrder DEF Continue, MayEnter, MayTouch
  <1>7. ASSUME NEW a \in Attempts, NEW b \in Attempts \ {FirstAttempt}, StartNewAttempt(a, b)
        PROVE PrefixInv'
    <2>1. IsPrefix(store[a].done)
      BY <1>7 DEF StartNewAttempt, PrefixInv, Persisted
    <2>2. NewAttemptState(store[a]).done = store[a].done \cap PlanningSteps
      BY DEF NewAttemptState, FreshState
    <2>3. IsPrefix(NewAttemptState(store[a]).done)
      BY <2>1, <2>2, PrefixOfPlanning
    <2>4. \A x \in Attempts : store'[x] = store[x] \/ store'[x] = NewAttemptState(store[a])
      BY <1>7, <1>t DEF StartNewAttempt, TypeOK
    <2>5. pc' = pc /\ step' = step /\ live' = live
      BY <1>7 DEF StartNewAttempt, inCall
    <2>6. QED
      BY <1>t, <2>3, <2>4, <2>5 DEF PrefixInv, Persisted, InOrder
  <1>8. ASSUME NEW i \in DOMAIN gateway, HumanResolve(i) PROVE PrefixInv'
    BY <1>8, <1>t DEF HumanResolve, inCall, PrefixInv, Persisted, InOrder
  <1>9. ASSUME NEW c \in Callers, NEW a \in Attempts, LoadToCancel(c, a) PROVE PrefixInv'
    <2>1. store[a] \in State /\ IsPrefix(store[a].done)
      BY <1>9, <1>t DEF LoadToCancel, TypeOK, PrefixInv, Persisted
    <2>2. /\ live'[c] = [store[a] EXCEPT !.status = "cancelled"]
          /\ pc'[c] = "overrule"
          /\ store' = store
          /\ step' = step
          /\ \A d \in Callers \ {c} : pc'[d] = pc[d] /\ live'[d] = live[d]
      BY <1>9, <1>t DEF LoadToCancel, TypeOK, durable
    <2>3. IsPrefix(live'[c].done)
      BY <2>1, <2>2, FieldKeepsDone
    <2>4. \A d \in Callers : InOrder(d)'
      BY <2>2, <2>3 DEF PrefixInv, InOrder, InStepPcs
    <2>5. QED
      BY <1>t, <2>2, <2>4 DEF PrefixInv, Persisted
  <1>10. QED
    BY <1>1, <1>2, <1>3, <1>4, <1>5, <1>6, <1>7, <1>8, <1>9 DEF Next

\* Before the first call there is nothing to be in order.
LEMMA InitInOrder == Init => PrefixInv
  <1> SUFFICES ASSUME Init PROVE PrefixInv
    OBVIOUS
  <1>1. TypeInv
    BY InitTyped
  <1>2. Persisted = {}
    BY DEF Init, Persisted
  <1>3. \A c \in Callers : InOrder(c)
    BY FreshIsPrefix DEF Init, InOrder, InStepPcs
  <1>4. QED
    BY <1>1, <1>2, <1>3 DEF PrefixInv

\* However many callers work on the run, with or without the single-writer
\* discipline, and wherever they are cancelled or die: every checkpoint, and
\* every state in memory, has completed exactly the first steps of the sequence.
THEOREM CheckpointsArePrefixes == Spec => []CompletedStepsArePrefix
  <1>1. PrefixInv => CompletedStepsArePrefix
    BY DEF PrefixInv, InOrder, CompletedStepsArePrefix
  <1>2. QED
    BY <1>1, InitInOrder, NextInOrder, PTL DEF Spec

-----------------------------------------------------------------------------
(* Under the single-writer discipline the flow implements RunLifecycle, and *)
(* checkpoints only grow: for any number of callers, attempts and deaths.   *)

\* The statuses a step may leave, as the abstract lifecycle lists them.
Outcome(k, s) == Lifecycle!Outcome(k, s)

\* How the state of a call in progress relates to the checkpoint it will
\* overwrite: nothing but the call itself has changed the checkpoint since.
InSync(c) ==
  /\ pc[c] = "create" =>
    /\ cur[c] = FirstAttempt
    /\ store[cur[c]] = NoState
    /\ live[c] = FreshState
  /\ pc[c] \notin {"idle", "create"} =>
    /\ store[cur[c]] \in State
    /\ live[c].done = store[cur[c]].done
    /\ live[c].rework >= store[cur[c]].rework
    /\ pc[c] \in {"loop", "plan", "approved", "qa"} =>
         live[c].status = Reopened(store[cur[c]].status)
    /\ pc[c] \in {"plan", "approved"} => step[c] = PlanApproval
    /\ pc[c] \in {"qa", "escalate"} => step[c] = QaValidation
    /\ pc[c] = "escalate" => live[c].status = "dead_letter"
    /\ pc[c] \in {"cancel", "overrule"} => live[c].status = "cancelled"
    /\ pc[c] = "save" => live[c].status \in Outcome(step[c], Reopened(store[cur[c]].status))

\* The single-writer discipline at work: two calls never share an attempt.
Exclusive ==
  \A c, d \in Callers : c # d /\ pc[c] # "idle" /\ pc[d] # "idle" => cur[c] # cur[d]

SyncInv ==
  /\ PrefixInv
  /\ Exclusive
  /\ \A c \in Callers : InSync(c)

\* What the lifecycle's CASE says, step by step.
LEMMA Outcomes ==
  ASSUME NEW s
  PROVE  /\ \A k \in Steps \ {Execute, QaValidation, Finalize} : s \in Outcome(k, s)
         /\ "blocked" \in Outcome(Preflight, s)
         /\ "waiting_for_human" \in Outcome(PlanApproval, s)
         /\ "running" \in Outcome(Execute, s)
         /\ {"review", "rejected", "dead_letter"} \subseteq Outcome(QaValidation, s)
         /\ {"accepted", "waiting_for_human"} \subseteq Outcome(Acceptance, s)
         /\ (IF s = "accepted" THEN "closed" ELSE s) \in Outcome(Finalize, s)
  BY DEF Outcome, Lifecycle!Outcome, Steps, Preflight, PlanApproval, Execute, QaValidation,
         Acceptance, Finalize, Lifecycle!Preflight, Lifecycle!PlanApproval, Lifecycle!Execute,
         Lifecycle!QaValidation, Lifecycle!Acceptance, Lifecycle!Finalize

\* No step leaves a run cancelled: only the cancellation check does.
LEMMA OutcomeNotCancelled ==
  ASSUME NEW s \in Statuses, NEW k \in Steps, NEW r \in Outcome(k, Reopened(s))
  PROVE  r # "cancelled"
  BY DEF Outcome, Lifecycle!Outcome, Reopened, Lifecycle!Preflight, Lifecycle!PlanApproval,
         Lifecycle!Execute, Lifecycle!QaValidation, Lifecycle!Acceptance, Lifecycle!Finalize

\* What a call does to its own attempt leaves the other calls in sync.
LEMMA OthersInSync ==
  ASSUME SyncInv, NEW c \in Callers, pc[c] # "idle",
         \A x \in Attempts : x # cur[c] => store'[x] = store[x],
         \A d \in Callers \ {c} : /\ pc'[d] = pc[d] /\ cur'[d] = cur[d]
                                  /\ step'[d] = step[d] /\ live'[d] = live[d],
         cur'[c] = cur[c] \/ pc'[c] = "idle",
         PrefixInv', InSync(c)'
  PROVE  SyncInv'
  <1>1. \A d \in Callers : cur[d] \in Attempts
    BY DEF SyncInv, PrefixInv, TypeInv, TypeOK
  <1>2. ASSUME NEW d \in Callers \ {c} PROVE InSync(d)'
    <2>1. CASE pc[d] = "idle"
      BY <2>1 DEF InSync
    <2>2. CASE pc[d] # "idle"
      <3>1. store'[cur[d]] = store[cur[d]]
        BY <2>2, <1>1 DEF SyncInv, Exclusive
      <3>2. QED
        BY <3>1 DEF InSync, SyncInv
    <2>3. QED
      BY <2>1, <2>2
  <1>3. Exclusive'
    BY DEF SyncInv, Exclusive
  <1>4. QED
    BY <1>2, <1>3 DEF SyncInv

\* A step function whose status is one the lifecycle allows for that step.
LEMMA PerformInSync ==
  ASSUME SyncInv, PrefixInv', NEW c \in Callers, NEW k \in Steps, NEW e, NEW t,
         Perform(c, k, e, t), t.done = live[c].done, t.rework >= live[c].rework,
         t.rework \in Int, t.status \in Outcome(k, live[c].status)
  PROVE  SyncInv'
  <1>1. TypeOK
    BY DEF SyncInv, PrefixInv, TypeInv
  <1>2. /\ pc[c] = "loop" /\ step[c] = k
        /\ store' = store /\ cur' = cur /\ step' = step
        /\ live'[c] = t /\ pc'[c] = "save"
        /\ \A d \in Callers \ {c} : pc'[d] = pc[d] /\ live'[d] = live[d]
    BY <1>1 DEF Perform, AtStep, TypeOK
  <1>3. InSync(c)'
    <2>1. /\ store[cur[c]] \in State
          /\ live[c].done = store[cur[c]].done
          /\ live[c].rework >= store[cur[c]].rework
          /\ live[c].status = Reopened(store[cur[c]].status)
      BY <1>2 DEF SyncInv, InSync
    <2>2. live[c].rework \in Int /\ store[cur[c]].rework \in Int
      BY <1>1, <2>1 DEF TypeOK, State
    <2>3. t.rework >= store[cur[c]].rework
      BY <2>1, <2>2
    <2>4. QED
      BY <1>2, <2>1, <2>3 DEF InSync, Outcome, Reopened
  <1>4. QED
    BY <1>2, <1>3, OthersInSync

\* An ended call has nothing left to overwrite.
LEMMA EndCallInSync ==
  ASSUME SyncInv, PrefixInv', NEW c \in Callers, pc[c] # "idle", EndCall(c), UNCHANGED store
  PROVE  SyncInv'
  <1>1. /\ pc'[c] = "idle"
        /\ \A d \in Callers \ {c} : /\ pc'[d] = pc[d] /\ cur'[d] = cur[d]
                                    /\ step'[d] = step[d] /\ live'[d] = live[d]
    BY DEF EndCall, SyncInv, PrefixInv, TypeInv, TypeOK
  <1>2. InSync(c)'
    BY <1>1 DEF InSync
  <1>3. QED
    BY <1>1, <1>2, OthersInSync

\* A call that moves on without touching its state or the store.
LEMMA MoveInSync ==
  ASSUME SyncInv, PrefixInv', NEW c \in Callers, pc[c] # "idle",
         UNCHANGED <<store, live, cur>>,
         \A d \in Callers \ {c} : pc'[d] = pc[d] /\ step'[d] = step[d],
         \/ pc' = pc /\ (step' = step \/ pc[c] = "loop")
         \/ AtStep(c, QaValidation) /\ pc'[c] = "qa" /\ step' = step
         \/ pc[c] = "escalate" /\ pc'[c] = "save" /\ step' = step
  PROVE  SyncInv'
  <1>1. InSync(c)'
    <2>1. CASE pc' = pc /\ (step' = step \/ pc[c] = "loop")
      BY <2>1 DEF SyncInv, InSync, Outcome
    <2>2. CASE AtStep(c, QaValidation) /\ pc'[c] = "qa" /\ step' = step
      BY <2>2 DEF SyncInv, InSync, AtStep
    <2>3. CASE pc[c] = "escalate" /\ pc'[c] = "save" /\ step' = step
      BY <2>3, Outcomes DEF SyncInv, InSync
    <2>4. QED
      BY <2>1, <2>2, <2>3
  <1>2. QED
    BY <1>1, OthersInSync

\* Every step a caller takes by itself keeps its state in sync.
LEMMA CallStepInSync ==
  ASSUME SyncInv, PrefixInv', NEW c \in Callers, CallStep(c)
  PROVE  SyncInv'
  <1> DEFINE s == live[c]
             p == store[cur[c]]
             Others == \A d \in Callers \ {c} : /\ pc'[d] = pc[d] /\ cur'[d] = cur[d]
                                                /\ step'[d] = step[d] /\ live'[d] = live[d]
  <1>t. TypeInv /\ TypeOK /\ s \in State /\ cur[c] \in Attempts
    BY DEF SyncInv, PrefixInv, TypeInv, TypeOK
  <1>r. s.rework \in Nat /\ s.status \in Statuses
    BY <1>t DEF State
  <1>1. CASE SkipCompleted(c)
    <2>1. /\ UNCHANGED <<store, live, cur>> /\ pc' = pc /\ pc[c] = "loop"
          /\ \A d \in Callers \ {c} : pc'[d] = pc[d] /\ step'[d] = step[d]
      BY <1>1, <1>t DEF SkipCompleted, durable, TypeOK
    <2>2. QED
      BY <2>1, MoveInSync
  <1>2. CASE ObserveCancellation(c)
    <2> DEFINE t == [s EXCEPT !.status = "cancelled"]
    <2>1. t.status = "cancelled" /\ t.done = s.done /\ t.rework = s.rework
      BY <1>t DEF State
    <2>2. live'[c] = t /\ pc'[c] = "cancel" /\ pc[c] = "loop" /\ UNCHANGED <<store, cur>> /\ Others
      BY <1>2, <1>t DEF ObserveCancellation, TypeOK
    <2> HIDE DEF t
    <2>3. InSync(c)'
      BY <2>1, <2>2 DEF SyncInv, InSync
    <2>4. QED
      BY <2>2, <2>3, OthersInSync
  <1>3. CASE SaveCancelled(c)
    <2>1. /\ live' = live /\ cur' = cur /\ step' = step
          /\ pc[c] = "cancel" /\ pc'[c] = "return" /\ Others
          /\ store'[cur[c]] = s
          /\ \A x \in Attempts : x # cur[c] => store'[x] = store[x]
      BY <1>3, <1>t DEF SaveCancelled, inCall, TypeOK
    <2>2. InSync(c)'
      BY <2>1, <1>t, <1>r DEF InSync
    <2>3. QED
      BY <2>1, <2>2, OthersInSync
  <1>4. CASE SaveStep(c)
    <2> DEFINE saved == [s EXCEPT !.done = @ \cup {step[c]}]
    <2>0. step[c] \in Steps
      BY <1>4, <1>t DEF SaveStep, TypeInv, WellPlaced
    <2>1. /\ live'[c] = saved /\ cur' = cur
          /\ pc[c] = "save" /\ pc'[c] \in {"return", "loop"} /\ Others
          /\ pc'[c] = "loop" => saved.status \notin EarlyExitStatuses
          /\ store'[cur[c]] = saved
          /\ \A x \in Attempts : x # cur[c] => store'[x] = store[x]
      BY <1>4, <1>t DEF SaveStep, TypeOK
    <2>2. saved \in State /\ saved.rework \in Nat
      BY <1>t, <2>0 DEF State
    <2> HIDE DEF saved
    <2>3. pc'[c] = "loop" => saved.status = Reopened(saved.status)
      BY <2>1 DEF EarlyExitStatuses, Reopened
    <2>4. InSync(c)'
      BY <2>1, <2>2, <2>3 DEF InSync, Reopened
    <2>5. QED
      BY <2>1, <2>4, OthersInSync
  <1>5. CASE \/ LoadRunManifest(c) \/ HydrateTypedState(c) \/ CreateExecutionPlan(c)
             \/ RemediateIfAllowed(c) \/ StageChanges(c) \/ CreateCommit(c)
             \/ UpdateProjectIndexes(c) \/ SkipPlanApproval(c)
    <2>1. \E k \in Steps \ {Execute, QaValidation, Finalize}, e \in EventTypes : Perform(c, k, e, s)
      BY <1>5
      DEF LoadRunManifest, HydrateTypedState, CreateExecutionPlan, RemediateIfAllowed,
          StageChanges, CreateCommit, UpdateProjectIndexes, SkipPlanApproval,
          Steps, LoadManifest, Hydrate, Plan, Remediate, Stage, Commit, UpdateIndexes,
          PlanApproval, EventTypes, Execute, QaValidation, Finalize
    <2>2. QED
      BY <2>1, <1>r, Outcomes, PerformInSync
  <1>6. CASE PreflightPolicyCheck(c)
    <2> DEFINE t == [s EXCEPT !.status = "blocked", !.denied = TRUE]
    <2>1. t.done = s.done /\ t.rework = s.rework /\ t.status = "blocked"
      BY <1>t DEF State
    <2>2. \/ Perform(c, Preflight, "policy_decision_recorded", s)
          \/ Perform(c, Preflight, "policy_decision_recorded", t)
      BY <1>6 DEF PreflightPolicyCheck
    <2> HIDE DEF t
    <2>3. /\ Preflight \in Steps \ {Execute, QaValidation, Finalize}
          /\ {s.status, t.status} \subseteq Outcome(Preflight, s.status)
      BY <2>1, Outcomes DEF Steps, Preflight, Execute, QaValidation, Finalize
    <2>4. QED
      BY <2>1, <2>2, <2>3, <1>r, PerformInSync
  <1>7. CASE RequestPlanApproval(c)
    <2> DEFINE t == [s EXCEPT !.approvalId = Len(gateway) + 1]
    <2>1. t.done = s.done /\ t.rework = s.rework /\ t.status = s.status
      BY <1>t DEF State
    <2>2. /\ live'[c] = t /\ pc'[c] = "plan" /\ pc[c] = "loop" /\ UNCHANGED <<store, cur, step>>
          /\ step[c] = PlanApproval /\ Others
      BY <1>7, <1>t DEF RequestPlanApproval, AtStep, TypeOK
    <2> HIDE DEF t
    <2>3. InSync(c)'
      BY <2>1, <2>2 DEF SyncInv, InSync, Reopened
    <2>4. QED
      BY <2>2, <2>3, OthersInSync
  <1>8. CASE DecidePlanApproval(c)
    <2> DEFINE pending == [s EXCEPT !.approval = "pending", !.status = "waiting_for_human"]
    <2>1. /\ pending.done = s.done /\ pending.rework = s.rework
          /\ pending.status = "waiting_for_human"
      BY <1>t DEF State
    <2>2. /\ \/ live'[c] = s /\ pc'[c] = "approved"
             \/ live'[c] = pending /\ pc'[c] = "save"
          /\ pc[c] = "plan" /\ UNCHANGED <<store, cur, step>> /\ Others
      BY <1>8, <1>t DEF DecidePlanApproval, TypeOK
    <2> HIDE DEF pending
    <2>3. step[c] = PlanApproval /\ s.status = Reopened(p.status)
      BY <2>2 DEF SyncInv, InSync
    <2>4. pending.status \in Outcome(PlanApproval, s.status)
      BY <2>1, Outcomes
    <2>5. InSync(c)'
      BY <2>1, <2>2, <2>3, <2>4 DEF SyncInv, InSync, Outcome, Reopened
    <2>6. QED
      BY <2>2, <2>5, OthersInSync
  <1>9. CASE ExecuteBoundedCrews(c)
    <2> DEFINE t == [s EXCEPT !.outputs = TRUE, !.status = "running"]
    <2>1. t.done = s.done /\ t.rework = s.rework /\ t.status = "running"
      BY <1>t DEF State
    <2>2. Perform(c, Execute, "bounded_crew_executed", t)
      BY <1>9 DEF ExecuteBoundedCrews
    <2> HIDE DEF t
    <2>3. Execute \in Steps /\ t.status \in Outcome(Execute, s.status)
      BY <2>1, Outcomes DEF Steps, Execute
    <2>4. QED
      BY <2>1, <2>2, <2>3, <1>r, PerformInSync
  <1>10. CASE ValidateOutputs(c)
    <2> DEFINE t == [s EXCEPT !.validation = IF s.outputs /\ OutputsDeclared
                                               THEN "passed" ELSE "failed"]
    <2>1. t.done = s.done /\ t.rework = s.rework /\ t.status = s.status
      BY <1>t DEF State
    <2>2. Perform(c, Validate, "outputs_validated", t)
      BY <1>10 DEF ValidateOutputs
    <2> HIDE DEF t
    <2>3. Validate \in Steps /\ t.status \in Outcome(Validate, s.status)
      BY <2>1, Outcomes DEF Steps, Validate, Execute, QaValidation, Finalize
    <2>4. QED
      BY <2>1, <2>2, <2>3, <1>r, PerformInSync
  <1>11. CASE RefuseSelfApproval(c)
    BY <1>11, EndCallInSync DEF RefuseSelfApproval, durable, AtStep
  <1>12. CASE BeginQa(c)
    <2>1. /\ UNCHANGED <<store, live, cur>> /\ step' = step
          /\ AtStep(c, QaValidation) /\ pc'[c] = "qa" /\ pc[c] # "idle"
          /\ \A d \in Callers \ {c} : pc'[d] = pc[d] /\ step'[d] = step[d]
      BY <1>12, <1>t DEF BeginQa, durable, AtStep, TypeOK
    <2>2. QED
      BY <2>1, MoveInSync
  <1>13. CASE RunTestCase(c)
    BY <1>13, MoveInSync DEF RunTestCase
  <1>14. CASE PassQa(c)
    <2> DEFINE t == [s EXCEPT !.status = "review"]
    <2>1. t.done = s.done /\ t.rework = s.rework /\ t.status = "review"
      BY <1>t DEF State
    <2>2. /\ live'[c] = t /\ pc'[c] = "save" /\ pc[c] = "qa"
          /\ UNCHANGED <<store, cur, step>> /\ Others
      BY <1>14, <1>t DEF PassQa, TypeOK
    <2> HIDE DEF t
    <2>3. step[c] = QaValidation /\ t.status \in Outcome(QaValidation, Reopened(p.status))
      BY <2>1, <2>2, Outcomes DEF SyncInv, InSync
    <2>4. InSync(c)'
      BY <2>1, <2>2, <2>3 DEF SyncInv, InSync, Outcome, Reopened
    <2>5. QED
      BY <2>2, <2>4, OthersInSync
  <1>15. CASE RejectQa(c)
    <2> DEFINE t(x) == [s EXCEPT !.rework = s.rework + 1, !.status = x]
    <2>1. \A x \in Statuses : /\ t(x).done = s.done
                              /\ t(x).rework = s.rework + 1
                              /\ t(x).status = x
      BY <1>t DEF State
    <2>2. /\ \/ live'[c] = t("rejected") /\ pc'[c] = "save"
             \/ live'[c] = t("dead_letter") /\ pc'[c] = "escalate"
          /\ pc[c] = "qa" /\ UNCHANGED <<store, cur, step>> /\ Others
      BY <1>15, <1>t DEF RejectQa, TypeOK
    <2> HIDE DEF t
    <2>3. /\ step[c] = QaValidation
          /\ {"rejected", "dead_letter"} \subseteq Outcome(QaValidation, Reopened(p.status))
          /\ {"rejected", "dead_letter"} \subseteq Statuses
      BY <2>2, Outcomes DEF SyncInv, InSync, Statuses
    <2>4. s.rework >= p.rework /\ p.rework \in Nat /\ s.done = p.done /\ p \in State
      BY <2>2 DEF SyncInv, InSync, State
    <2>5. s.rework + 1 >= p.rework
      BY <2>4, <1>r
    <2>6. InSync(c)'
      BY <2>1, <2>2, <2>3, <2>4, <2>5 DEF InSync, Outcome, Reopened
    <2>7. QED
      BY <2>2, <2>6, OthersInSync
  <1>16. CASE Escalate(c)
    <2>1. /\ UNCHANGED <<store, live, cur>> /\ step' = step
          /\ pc[c] = "escalate" /\ pc'[c] = "save"
          /\ \A d \in Callers \ {c} : pc'[d] = pc[d] /\ step'[d] = step[d]
      BY <1>16, <1>t DEF Escalate, inCall, TypeOK
    <2>2. QED
      BY <2>1, MoveInSync
  <1>17. CASE HumanAcceptance(c)
    <2> DEFINE t(x) == [s EXCEPT !.status = x]
    <2>1. \A x : t(x).done = s.done /\ t(x).rework = s.rework /\ t(x).status = x
      BY <1>t DEF State
    <2>2. \/ Perform(c, Acceptance, "acceptance_skipped", s)
          \/ Perform(c, Acceptance, "acceptance_granted", t("accepted"))
          \/ Perform(c, Acceptance, "acceptance_pending", t("waiting_for_human"))
      BY <1>17 DEF HumanAcceptance
    <2> HIDE DEF t
    <2>3. /\ Acceptance \in Steps
          /\ {s.status, "accepted", "waiting_for_human"} \subseteq Outcome(Acceptance, s.status)
      BY Outcomes DEF Steps, Acceptance, Execute, QaValidation, Finalize
    <2>4. QED
      BY <2>1, <2>2, <2>3, <1>r, PerformInSync
  <1>18. CASE FinalizeRunSummary(c)
    <2> DEFINE t == [s EXCEPT !.status = IF @ = "accepted" THEN "closed" ELSE @]
    <2>1. /\ t.done = s.done /\ t.rework = s.rework
          /\ t.status = IF s.status = "accepted" THEN "closed" ELSE s.status
      BY <1>t DEF State
    <2>2. Perform(c, Finalize, "run_summary_generated", t)
      BY <1>18 DEF FinalizeRunSummary
    <2> HIDE DEF t
    <2>3. Finalize \in Steps /\ t.status \in Outcome(Finalize, s.status)
      BY <2>1, Outcomes DEF Steps, Finalize
    <2>4. QED
      BY <2>1, <2>2, <2>3, <1>r, PerformInSync
  <1>19. CASE Return(c)
    BY <1>19, EndCallInSync DEF Return, durable
  <1>20. CASE SaveNew(c)
    <2>1. /\ live' = live /\ cur' = cur /\ step' = step
          /\ pc[c] = "create" /\ pc'[c] = "loop" /\ Others
          /\ store'[cur[c]] = s
          /\ \A x \in Attempts : x # cur[c] => store'[x] = store[x]
      BY <1>20, <1>t DEF SaveNew, inCall, TypeOK
    <2>2. s = FreshState
      BY <2>1 DEF SyncInv, InSync
    <2>3. s.status = Reopened(s.status)
      BY <2>2 DEF FreshState, Reopened
    <2>4. InSync(c)'
      BY <2>1, <2>3, <1>t, <1>r DEF InSync
    <2>5. QED
      BY <2>1, <2>4, OthersInSync
  <1>21. CASE RecordPlanApproval(c)
    <2> DEFINE t == [s EXCEPT !.approval = "approved"]
    <2>1. t.done = s.done /\ t.rework = s.rework /\ t.status = s.status
      BY <1>t DEF State
    <2>2. /\ live'[c] = t /\ pc'[c] = "save" /\ pc[c] = "approved"
          /\ UNCHANGED <<store, cur, step>> /\ Others
      BY <1>21, <1>t DEF RecordPlanApproval, TypeOK
    <2> HIDE DEF t
    <2>3. step[c] = PlanApproval /\ s.status = Reopened(p.status)
      BY <2>2 DEF SyncInv, InSync
    <2>4. t.status \in Outcome(PlanApproval, s.status)
      BY <2>1, Outcomes DEF Steps, PlanApproval, Execute, QaValidation, Finalize
    <2>5. InSync(c)'
      BY <2>1, <2>2, <2>3, <2>4 DEF SyncInv, InSync, Outcome, Reopened
    <2>6. QED
      BY <2>2, <2>5, OthersInSync
  <1>22. CASE SaveApiCancel(c)
    <2>1. /\ pc[c] = "overrule" /\ pc'[c] = "idle" /\ Others
          /\ \A x \in Attempts : x # cur[c] => store'[x] = store[x]
      BY <1>22, <1>t DEF SaveApiCancel, EndCall, TypeOK
    <2>2. InSync(c)'
      BY <2>1 DEF InSync
    <2>3. QED
      BY <2>1, <2>2, OthersInSync
  <1>23. QED
    BY <1>1, <1>2, <1>3, <1>4, <1>5, <1>6, <1>7, <1>8, <1>9, <1>10, <1>11, <1>12, <1>13,
       <1>14, <1>15, <1>16, <1>17, <1>18, <1>19, <1>20, <1>21, <1>22 DEF CallStep

\* A change of an attempt that did not exist disturbs no call.
LEMMA NewRecordInSync ==
  ASSUME SyncInv, NEW d \in Callers, NEW x \in Attempts \ {FirstAttempt}, store[x] = NoState,
         \A y \in Attempts : y # x => store'[y] = store[y],
         pc'[d] = pc[d], cur'[d] = cur[d], step'[d] = step[d], live'[d] = live[d]
  PROVE  InSync(d)'
  <1>1. cur[d] \in Attempts
    BY DEF SyncInv, PrefixInv, TypeInv, TypeOK
  <1>2. CASE pc[d] = "idle"
    BY <1>2 DEF InSync
  <1>3. CASE pc[d] # "idle"
    <2>1. store[cur[d]] \in State \/ cur[d] = FirstAttempt
      BY <1>3 DEF SyncInv, InSync
    <2>2. store'[cur[d]] = store[cur[d]]
      BY <2>1, <1>1, NoStateAssumption
    <2>3. QED
      BY <2>2 DEF SyncInv, InSync
  <1>4. QED
    BY <1>2, <1>3

\* An idle caller that takes up an attempt nobody works on, in sync with it.
LEMMA JoinInSync ==
  ASSUME SingleWriter, SyncInv, PrefixInv', NEW c \in Callers, NEW a \in Attempts,
         MayTouch(c, a), store' = store, cur'[c] = a, InSync(c)',
         \A d \in Callers \ {c} : /\ pc'[d] = pc[d] /\ cur'[d] = cur[d]
                                  /\ step'[d] = step[d] /\ live'[d] = live[d]
  PROVE  SyncInv'
  <1>1. \A d \in Callers \ {c} : InSync(d)'
    BY DEF SyncInv, InSync
  <1>2. \A d \in Callers \ {c} : pc[d] = "idle" \/ cur[d] # a
    BY DEF MayTouch
  <1>3. Exclusive'
    BY <1>2 DEF SyncInv, Exclusive
  <1>4. QED
    BY <1>1, <1>3 DEF SyncInv

\* A call begins in sync with the checkpoint it has read.
LEMMA BeginInSync ==
  ASSUME SingleWriter, SyncInv, PrefixInv', NEW c \in Callers, NEW a \in Attempts, NEW s \in State,
         MayEnter(c, a), Begin(c, a, s, "loop"), store[a] \in State,
         s.done = store[a].done, s.rework = store[a].rework,
         s.status = Reopened(store[a].status)
  PROVE  SyncInv'
  <1>1. /\ live'[c] = s /\ pc'[c] = "loop" /\ cur'[c] = a /\ store' = store
        /\ \A d \in Callers \ {c} : /\ pc'[d] = pc[d] /\ cur'[d] = cur[d]
                                    /\ step'[d] = step[d] /\ live'[d] = live[d]
    BY DEF Begin, durable, SyncInv, PrefixInv, TypeInv, TypeOK
  <1>2. s.rework \in Nat
    BY DEF State
  <1>3. InSync(c)'
    BY <1>1, <1>2 DEF InSync, Reopened
  <1>4. QED
    BY <1>1, <1>3, JoinInSync DEF MayEnter

\* With single writers, nothing that happens around a call puts it out of sync.
LEMMA NextInSync ==
  ASSUME SingleWriter, SyncInv, [Next]_vars
  PROVE  SyncInv'
  <1>t. PrefixInv /\ TypeInv /\ TypeOK /\ PrefixInv'
    BY NextInOrder DEF SyncInv, PrefixInv, TypeInv
  <1>1. CASE UNCHANGED vars
    BY <1>1, <1>t DEF vars, SyncInv, Exclusive, InSync, Outcome
  <1>2. ASSUME NEW c \in Callers, CallStep(c) PROVE SyncInv'
    BY <1>2, <1>t, CallStepInSync
  <1>3. ASSUME NEW c \in Callers, Abort(c) PROVE SyncInv'
    BY <1>3, <1>t, EndCallInSync DEF Abort, durable
  <1>4. ASSUME NEW c \in Callers, RequestCancel(c) PROVE SyncInv'
    <2>1. UNCHANGED <<store, pc, cur, step, live>>
      BY <1>4 DEF RequestCancel, durable
    <2>2. QED
      BY <2>1, <1>t DEF SyncInv, Exclusive, InSync, Outcome
  <1>5. ASSUME NEW c \in Callers, StartNew(c) PROVE SyncInv'
    <2>1. FirstAttempt \in Attempts
      BY BoundsAssumption DEF FirstAttempt, Attempts
    <2>2. /\ store[FirstAttempt] = NoState /\ store' = store /\ live'[c] = FreshState
          /\ pc'[c] = "create" /\ cur'[c] = FirstAttempt
          /\ \A d \in Callers \ {c} : /\ pc'[d] = pc[d] /\ cur'[d] = cur[d]
                                      /\ step'[d] = step[d] /\ live'[d] = live[d]
      BY <1>5, <1>t DEF StartNew, Begin, durable, TypeOK
    <2>3. InSync(c)'
      BY <2>2 DEF InSync
    <2>4. MayTouch(c, FirstAttempt)
      BY <1>5 DEF StartNew, MayEnter
    <2>5. QED
      BY <1>t, <2>1, <2>2, <2>3, <2>4, JoinInSync
  <1>6. ASSUME NEW c \in Callers, NEW a \in Attempts, Continue(c, a) PROVE SyncInv'
    <2> DEFINE s == ResetIfCancelled(store[a])
    <2>1. store[a] \in State
      BY <1>6, <1>t DEF Continue, TypeOK
    <2>2. /\ s.done = store[a].done /\ s.rework = store[a].rework
          /\ s.status = Reopened(store[a].status)
      BY <2>1 DEF ResetIfCancelled, State
    <2>3. s \in State
      BY <2>1, ReopenedTyped
    <2>4. MayEnter(c, a) /\ Begin(c, a, s, "loop")
      BY <1>6 DEF Continue
    <2> HIDE DEF s
    <2>5. QED
      BY <1>t, <2>1, <2>2, <2>3, <2>4, BeginInSync
  <1>7. ASSUME NEW a \in Attempts, NEW b \in Attempts \ {FirstAttempt}, StartNewAttempt(a, b)
        PROVE SyncInv'
    <2>1. /\ store[b] = NoState
          /\ \A y \in Attempts : y # b => store'[y] = store[y]
          /\ UNCHANGED <<pc, cur, step, live>>
      BY <1>7, <1>t DEF StartNewAttempt, TypeOK, inCall
    <2>2. \A d \in Callers : InSync(d)'
      BY <2>1, NewRecordInSync
    <2>3. Exclusive'
      BY <2>1 DEF SyncInv, Exclusive
    <2>4. QED
      BY <1>t, <2>2, <2>3 DEF SyncInv
  <1>8. ASSUME NEW i \in DOMAIN gateway, HumanResolve(i) PROVE SyncInv'
    <2>1. UNCHANGED <<store, pc, cur, step, live>>
      BY <1>8 DEF HumanResolve, inCall
    <2>2. QED
      BY <2>1, <1>t DEF SyncInv, Exclusive, InSync, Outcome
  <1>9. ASSUME NEW c \in Callers, NEW a \in Attempts, LoadToCancel(c, a) PROVE SyncInv'
    <2> DEFINE t == [store[a] EXCEPT !.status = "cancelled"]
    <2>1. store[a] \in State
      BY <1>9, <1>t DEF LoadToCancel, TypeOK
    <2>2. /\ t.done = store[a].done /\ t.rework = store[a].rework /\ t.status = "cancelled"
          /\ store[a].rework \in Nat
      BY <2>1 DEF State
    <2>3. /\ MayTouch(c, a) /\ store' = store /\ live'[c] = t
          /\ pc'[c] = "overrule" /\ cur'[c] = a
          /\ \A d \in Callers \ {c} : /\ pc'[d] = pc[d] /\ cur'[d] = cur[d]
                                      /\ step'[d] = step[d] /\ live'[d] = live[d]
      BY <1>9, <1>t DEF LoadToCancel, durable, TypeOK
    <2> HIDE DEF t
    <2>4. InSync(c)'
      BY <2>1, <2>2, <2>3 DEF InSync
    <2>5. QED
      BY <1>t, <2>3, <2>4, JoinInSync
  <1>10. QED
    BY <1>1, <1>2, <1>3, <1>4, <1>5, <1>6, <1>7, <1>8, <1>9 DEF Next

\* Before the first call there is nothing to be out of step with.
LEMMA InitInSync == Init => SyncInv
  BY InitInOrder DEF Init, SyncInv, Exclusive, InSync

-----------------------------------------------------------------------------
(* What the stores can see of a step                                       *)

\* One step of the flow does to the store one of five things: nothing, create
\* the first attempt, save the next step of an attempt, save a cancellation, or
\* derive a new attempt from an old one.
StoreStep ==
  \/ store' = store
  \/ /\ store[FirstAttempt] = NoState
     /\ store' = [store EXCEPT ![FirstAttempt] = FreshState]
  \/ \E x \in Attempts, k \in Steps, s \in State :
       /\ store[x] \in State
       /\ store[x].done = 1..(k - 1)
       /\ s.done = 1..k
       /\ s.rework >= store[x].rework
       /\ s.status \in Outcome(k, Reopened(store[x].status))
       /\ store' = [store EXCEPT ![x] = s]
  \/ \E x \in Attempts, s \in State :
       /\ store[x] \in State
       /\ s.done = store[x].done
       /\ s.rework >= store[x].rework
       /\ s.status = "cancelled"
       /\ store' = [store EXCEPT ![x] = s]
  \/ \E a, b \in Attempts :
       /\ store[a] \in State
       /\ store[b] = NoState
       /\ store' = [store EXCEPT ![b] = NewAttemptState(store[a])]

\* Every step of the flow does one of these to the store.
LEMMA NextIsStoreStep ==
  ASSUME SyncInv, [Next]_vars
  PROVE  StoreStep
  <1>t. PrefixInv /\ TypeInv /\ TypeOK
    BY DEF SyncInv, PrefixInv, TypeInv
  <1>1. CASE UNCHANGED vars
    BY <1>1 DEF vars, StoreStep
  <1>2. ASSUME NEW c \in Callers, CallStep(c) PROVE StoreStep
    <2>t. cur[c] \in Attempts /\ live[c] \in State
      BY <1>t DEF TypeOK
    <2>1. CASE SaveStep(c)
      <3> DEFINE saved == [live[c] EXCEPT !.done = @ \cup {step[c]}]
      <3>1. /\ step[c] \in Steps /\ live[c].done = 1..(step[c] - 1) /\ pc[c] = "save"
            /\ store' = [store EXCEPT ![cur[c]] = saved]
        BY <2>1, <1>t DEF SaveStep, TypeInv, WellPlaced, PrefixInv, InOrder, InStepPcs
      <3>2. /\ saved \in State /\ saved.done = live[c].done \cup {step[c]}
            /\ saved.rework = live[c].rework /\ saved.status = live[c].status
        BY <2>t, <3>1 DEF State
      <3>3. saved.done = 1..step[c]
        BY <3>1, <3>2, PrefixGrows
      <3>4. /\ store[cur[c]] \in State
            /\ live[c].done = store[cur[c]].done
            /\ live[c].rework >= store[cur[c]].rework
            /\ live[c].status \in Outcome(step[c], Reopened(store[cur[c]].status))
        BY <3>1 DEF SyncInv, InSync
      <3> HIDE DEF saved
      <3>5. QED
        BY <2>t, <3>1, <3>2, <3>3, <3>4 DEF StoreStep
    <2>2. CASE SaveCancelled(c) \/ SaveApiCancel(c)
      <3>1. pc[c] \in {"cancel", "overrule"} /\ store' = [store EXCEPT ![cur[c]] = live[c]]
        BY <2>2 DEF SaveCancelled, SaveApiCancel
      <3>2. /\ store[cur[c]] \in State
            /\ live[c].done = store[cur[c]].done
            /\ live[c].rework >= store[cur[c]].rework
            /\ live[c].status = "cancelled"
        BY <3>1 DEF SyncInv, InSync
      <3>3. QED
        BY <2>t, <3>1, <3>2 DEF StoreStep
    <2>5. CASE SaveNew(c)
      <3>1. pc[c] = "create" /\ store' = [store EXCEPT ![cur[c]] = live[c]]
        BY <2>5 DEF SaveNew
      <3>2. cur[c] = FirstAttempt /\ store[FirstAttempt] = NoState /\ live[c] = FreshState
        BY <3>1 DEF SyncInv, InSync
      <3>3. QED
        BY <3>1, <3>2 DEF StoreStep
    <2>3. CASE ~SaveStep(c) /\ ~SaveCancelled(c) /\ ~SaveApiCancel(c) /\ ~SaveNew(c)
      <3>1. store' = store
        BY <1>2, <2>3
        DEF CallStep, SkipCompleted, ObserveCancellation, Perform, durable, inCall,
            LoadRunManifest, PreflightPolicyCheck, HydrateTypedState, CreateExecutionPlan,
            SkipPlanApproval, RequestPlanApproval, DecidePlanApproval, RecordPlanApproval,
            ExecuteBoundedCrews,
            ValidateOutputs, RemediateIfAllowed, RefuseSelfApproval, BeginQa, RunTestCase,
            PassQa, RejectQa, Escalate, HumanAcceptance, StageChanges, CreateCommit,
            FinalizeRunSummary, UpdateProjectIndexes, Return
      <3>2. QED
        BY <3>1 DEF StoreStep
    <2>4. QED
      BY <2>1, <2>2, <2>3, <2>5
  <1>3. ASSUME NEW c \in Callers, Abort(c) \/ RequestCancel(c) PROVE StoreStep
    BY <1>3 DEF Abort, RequestCancel, durable, StoreStep
  <1>4. ASSUME NEW c \in Callers, StartNew(c) PROVE StoreStep
    BY <1>4 DEF StartNew, Begin, durable, StoreStep
  <1>5. ASSUME NEW c \in Callers, NEW a \in Attempts, Continue(c, a) \/ LoadToCancel(c, a)
        PROVE StoreStep
    BY <1>5 DEF Continue, LoadToCancel, Begin, durable, StoreStep
  <1>6. ASSUME NEW a \in Attempts, NEW b \in Attempts \ {FirstAttempt}, StartNewAttempt(a, b)
        PROVE StoreStep
    <2>1. store[a] \in State
      BY <1>6, <1>t DEF StartNewAttempt, TypeOK
    <2>2. QED
      BY <1>6, <2>1 DEF StartNewAttempt, StoreStep
  <1>7. ASSUME NEW i \in DOMAIN gateway, HumanResolve(i) PROVE StoreStep
    BY <1>7 DEF HumanResolve, StoreStep
  <1>8. QED
    BY <1>1, <1>2, <1>3, <1>4, <1>5, <1>6, <1>7 DEF Next

-----------------------------------------------------------------------------
(* The theorems                                                            *)

StatusOf(a)   == IF store[a] = NoState THEN "none" ELSE store[a].status
ProgressOf(a) == IF store[a] = NoState THEN {} ELSE store[a].done

\* Every store step is a lifecycle step, or none.
LEMMA StoreStepIsLifecycleStep ==
  ASSUME TypeOK, StoreStep
  PROVE  [Lifecycle!LifecycleNext]_(Lifecycle!lifecycleVars)
  <1> DEFINE st == [a \in Attempts |-> StatusOf(a)]
             pr == [a \in Attempts |-> ProgressOf(a)]
  <1>s. /\ \A a \in Attempts : store[a] \in State => store[a] # NoState /\ st[a] = store[a].status
                                                      /\ pr[a] = store[a].done
        /\ \A a \in Attempts : store[a] = NoState => st[a] = "none" /\ pr[a] = {}
        /\ \A s \in State : s # NoState /\ s.status \in Statuses
    BY NoStateAssumption DEF StatusOf, ProgressOf, State
  <1>n. \A s \in State : s.status # "none"
    BY DEF State, Statuses
  <1>u. ASSUME NEW x \in Attempts, NEW s \in State, store' = [store EXCEPT ![x] = s]
        PROVE  st' = [st EXCEPT ![x] = s.status] /\ pr' = [pr EXCEPT ![x] = s.done]
    BY <1>u, <1>s DEF TypeOK, StatusOf, ProgressOf
  <1>d. /\ \A f : st = [st EXCEPT ![f] = st[f]]
        /\ \A f : pr = [pr EXCEPT ![f] = pr[f]]
    OBVIOUS
  <1> HIDE DEF st, pr
  <1>f. FirstAttempt \in Attempts
    BY BoundsAssumption DEF FirstAttempt, Attempts
  <1>1. CASE store' = store
    BY <1>1 DEF Lifecycle!lifecycleVars
  <1>2. CASE /\ store[FirstAttempt] = NoState
             /\ store' = [store EXCEPT ![FirstAttempt] = FreshState]
    <2>1. /\ st[FirstAttempt] = "none"
          /\ st' = [st EXCEPT ![FirstAttempt] = "leased"]
          /\ pr' = [pr EXCEPT ![FirstAttempt] = {}]
      BY <1>2, <1>s, <1>u, <1>f, FreshStateTyped DEF FreshState
    <2>2. pr' = pr
      BY <2>1, <1>2, <1>s, <1>f, <1>d
    <2>3. Lifecycle!Create(FirstAttempt)
      BY <2>1, <2>2 DEF st, pr, Lifecycle!Create, StatusOf, ProgressOf
    <2>4. QED
      BY <2>3, <1>f DEF Lifecycle!LifecycleNext
  <1>3. ASSUME NEW x \in Attempts, NEW k \in Steps, NEW s \in State,
               store[x] \in State, store[x].done = 1..(k - 1), s.done = 1..k,
               s.status \in Outcome(k, Reopened(store[x].status)),
               store' = [store EXCEPT ![x] = s]
        PROVE  Lifecycle!LifecycleNext
    <2>1. /\ st[x] # "none" /\ pr[x] = 1..(k - 1)
          /\ s.status \in Lifecycle!Outcome(k, Lifecycle!Reopened(st[x]))
      BY <1>3, <1>s, <1>n DEF Outcome, Reopened, Lifecycle!Reopened
    <2>2. st' = [st EXCEPT ![x] = s.status] /\ pr' = [pr EXCEPT ![x] = 1..k]
      BY <1>3, <1>u
    <2>3. k \in Lifecycle!Steps
      BY DEF Steps, Lifecycle!Steps
    <2>4. Lifecycle!Advance(x)
      BY <2>1, <2>2, <2>3 DEF st, pr, Lifecycle!Advance, StatusOf, ProgressOf
    <2>5. QED
      BY <2>4 DEF Lifecycle!LifecycleNext
  <1>4. ASSUME NEW x \in Attempts, NEW s \in State,
               store[x] \in State, s.done = store[x].done, s.status = "cancelled",
               store' = [store EXCEPT ![x] = s]
        PROVE  Lifecycle!LifecycleNext
    <2>1. /\ st[x] # "none" /\ pr[x] = s.done
          /\ st' = [st EXCEPT ![x] = "cancelled"] /\ pr' = [pr EXCEPT ![x] = s.done]
      <3>1. st' = [st EXCEPT ![x] = s.status] /\ pr' = [pr EXCEPT ![x] = s.done]
        BY <1>4, <1>u
      <3>2. st[x] = store[x].status /\ pr[x] = store[x].done /\ store[x].status # "none"
        BY <1>4, <1>s, <1>n
      <3>3. QED
        BY <3>1, <3>2, <1>4
    <2>2. pr' = pr
      BY <2>1, <1>d
    <2>3. Lifecycle!Cancel(x)
      BY <2>1, <2>2 DEF st, pr, Lifecycle!Cancel, StatusOf, ProgressOf
    <2>4. QED
      BY <2>3 DEF Lifecycle!LifecycleNext
  <1>5. ASSUME NEW a \in Attempts, NEW b \in Attempts, store[a] \in State, store[b] = NoState,
               store' = [store EXCEPT ![b] = NewAttemptState(store[a])]
        PROVE  Lifecycle!LifecycleNext
    <2> DEFINE t == NewAttemptState(store[a])
    <2>1. t \in State /\ t.status = "running" /\ t.done = store[a].done \cap PlanningSteps
      BY <1>5 DEF NewAttemptState, FreshState, State, Statuses, Steps
    <2> HIDE DEF t
    <2>2. /\ st[a] # "none" /\ st[b] = "none" /\ pr[a] = store[a].done
          /\ st' = [st EXCEPT ![b] = "running"]
          /\ pr' = [pr EXCEPT ![b] = store[a].done \cap PlanningSteps]
      <3>1. st' = [st EXCEPT ![b] = t.status] /\ pr' = [pr EXCEPT ![b] = t.done]
        BY <1>5, <1>u, <2>1 DEF t
      <3>2. /\ st[a] = store[a].status /\ pr[a] = store[a].done /\ store[a].status # "none"
            /\ st[b] = "none"
        BY <1>5, <1>s, <1>n
      <3>3. QED
        BY <3>1, <3>2, <2>1
    <2>3. Lifecycle!PlanningSteps = PlanningSteps
      BY DEF PlanningSteps, LoadManifest, PlanApproval, Lifecycle!PlanningSteps,
             Lifecycle!LoadManifest, Lifecycle!PlanApproval
    <2>4. Lifecycle!Rework(a, b)
      BY <2>2, <2>3 DEF st, pr, Lifecycle!Rework, StatusOf, ProgressOf
    <2>5. QED
      BY <2>4 DEF Lifecycle!LifecycleNext
  <1>6. QED
    BY <1>1, <1>2, <1>3, <1>4, <1>5 DEF StoreStep

\* Callers that honour the single-writer discipline make the flow an
\* implementation of the run lifecycle: checkpoints advance one step at a time,
\* in order, with the statuses each step allows, whatever is cancelled, dies, is
\* resumed or is started again as a new attempt.
THEOREM FlowImplementsLifecycle == ASSUME SingleWriter PROVE Spec => ImplementsLifecycle
  <1>1. Init => Lifecycle!LifecycleInit
    BY DEF Init, Lifecycle!LifecycleInit
  <1>2. SyncInv /\ [Next]_vars => [Lifecycle!LifecycleNext]_(Lifecycle!lifecycleVars)
    BY NextIsStoreStep, StoreStepIsLifecycleStep DEF SyncInv, PrefixInv, TypeInv
  <1>3. SyncInv /\ [Next]_vars => SyncInv'
    BY NextInSync
  <1>4. QED
    BY <1>1, <1>2, <1>3, InitInSync, PTL DEF Spec, ImplementsLifecycle, Lifecycle!LifecycleSpec

\* Callers that honour the single-writer discipline never make a checkpoint lose
\* a completed step, a rework count or an attempt.
THEOREM CheckpointsNeverShrink == ASSUME SingleWriter PROVE Spec => CheckpointsOnlyGrow
  <1> DEFINE Grow == \A a \in Persisted : /\ store'[a] # NoState
                                          /\ store[a].done \subseteq store'[a].done
                                          /\ store[a].rework <= store'[a].rework
  <1>1. ASSUME SyncInv, [Next]_vars PROVE Grow
    <2>1. StoreStep /\ TypeOK
      BY <1>1, NextIsStoreStep DEF SyncInv, PrefixInv, TypeInv
    <2>2. \A a \in Persisted : store[a] \in State /\ store[a] # NoState /\ store[a].rework \in Nat
      BY <2>1 DEF TypeOK, Persisted, State
    <2>3. ASSUME NEW x \in Attempts, NEW s \in State, store' = [store EXCEPT ![x] = s],
                 store[x] # NoState => store[x].done \subseteq s.done
                                       /\ s.rework >= store[x].rework
          PROVE  Grow
      <3>1. s # NoState /\ s.rework \in Nat
        BY NoStateAssumption DEF State
      <3>2. QED
        BY <2>1, <2>2, <2>3, <3>1 DEF TypeOK, Persisted
    <2>4. CASE store' = store
      BY <2>2, <2>4 DEF Persisted
    <2>5. CASE /\ store[FirstAttempt] = NoState
               /\ store' = [store EXCEPT ![FirstAttempt] = FreshState]
      <3>1. FirstAttempt \in Attempts
        BY BoundsAssumption DEF FirstAttempt, Attempts
      <3>2. QED
        BY <2>3, <2>5, <3>1, FreshStateTyped
    <2>6. ASSUME NEW x \in Attempts, NEW k \in Steps, NEW s \in State,
                 store[x].done = 1..(k - 1), s.done = 1..k, s.rework >= store[x].rework,
                 store' = [store EXCEPT ![x] = s]
          PROVE  Grow
      <3>1. 1..(k - 1) \subseteq 1..k
        BY DEF Steps
      <3>2. QED
        BY <2>3, <2>6, <3>1
    <2>7. ASSUME NEW x \in Attempts, NEW s \in State, s.done = store[x].done,
                 s.rework >= store[x].rework, store' = [store EXCEPT ![x] = s]
          PROVE  Grow
      BY <2>3, <2>7
    <2>8. ASSUME NEW a \in Attempts, NEW b \in Attempts, store[a] \in State, store[b] = NoState,
                 store' = [store EXCEPT ![b] = NewAttemptState(store[a])]
          PROVE  Grow
      <3>1. NewAttemptState(store[a]) \in State
        BY <2>8 DEF NewAttemptState, FreshState, State, Statuses, Steps
      <3>2. QED
        BY <2>3, <2>8, <3>1
    <2>9. QED
      BY <2>1, <2>4, <2>5, <2>6, <2>7, <2>8 DEF StoreStep
  <1>2. SyncInv /\ [Next]_vars => SyncInv'
    BY NextInSync
  <1>3. SyncInv /\ [Next]_vars => [Grow]_vars
    BY <1>1
  <1>4. QED
    BY <1>2, <1>3, InitInSync, PTL DEF Spec, CheckpointsOnlyGrow

-----------------------------------------------------------------------------
(* What a run leaves on record: from here on for any number of callers, with *)
(* or without the single-writer discipline.                                  *)

-----------------------------------------------------------------------------
(* What a step function does                                               *)

\* How a step function that logs e in step k changes the state object from s to t.
Effect(k, e, s, t) ==
  /\ t \in State
  /\ e \in StepEvents[k]
  /\ t.done = s.done
  /\ t.approvalId = s.approvalId
  /\ \/ t.denied = s.denied
     \/ k = Preflight /\ t.denied /\ t.status = "blocked"
  /\ \/ t.approval = s.approval
     \/ e = "plan_approved" /\ t.approval = "approved"
     \/ e = "plan_approval_pending" /\ t.approval = "pending" /\ t.status = "waiting_for_human"
  /\ IF k = Execute THEN t.outputs = TRUE ELSE t.outputs = s.outputs
  /\ IF k = Validate
       THEN t.validation = IF s.outputs /\ OutputsDeclared THEN "passed" ELSE "failed"
       ELSE t.validation = s.validation
  /\ IF e = "qa_review_rejected"
       THEN t.rework = s.rework + 1 /\ t.status \in {"rejected", "dead_letter"}
       ELSE t.rework = s.rework
  /\ \/ t.status = s.status
     \/ t.status \in {"running", "review"}
     \/ t.status = "waiting_for_human" /\ e = "acceptance_pending"
     \/ t.status = "waiting_for_human" /\ e = "plan_approval_pending" /\ t.approval = "pending"
     \/ t.status = "blocked" /\ t.denied /\ e = "policy_decision_recorded"
     \/ t.status \in {"rejected", "dead_letter"} /\ e = "qa_review_rejected"
     \/ t.status = "accepted" /\ e = "acceptance_granted"
     \/ t.status = "closed" /\ s.status = "accepted"
  /\ e = "qa_review_rejected" /\ t.status = "dead_letter" =>
       \E max \in QaLimits : t.rework >= max

\* The call c, inside its step, logs e and leaves the state t to be saved; a
\* dead letter is escalated before.
Works(c, e, t) ==
  /\ pc[c] \in {"loop", "plan", "approved", "qa"}
  /\ step[c] \in Steps
  /\ live[c].done = 1..(step[c] - 1)
  /\ Effect(step[c], e, live[c], t)
  /\ live' = [live EXCEPT ![c] = t]
  /\ Emit(c, e)
  /\ pc' = [pc EXCEPT ![c] = IF e = "qa_review_rejected" /\ t.status = "dead_letter"
                               THEN "escalate" ELSE "save"]
  /\ e = "plan_approved" => pc[c] = "approved"
  /\ e = "plan_approval_pending" => pc[c] = "plan"
  /\ UNCHANGED <<store, gateway, metrics, cur, wasTerminal, step, qa, token, counts>>

\* Which step logs which event.
LEMMA EventsOfSteps ==
  /\ "run_manifest_loaded" \in StepEvents[LoadManifest]
  /\ "policy_decision_recorded" \in StepEvents[Preflight]
  /\ "state_hydrated" \in StepEvents[Hydrate]
  /\ "execution_plan_created" \in StepEvents[Plan]
  /\ {"approval_skipped", "plan_approved", "plan_approval_pending"} \subseteq StepEvents[PlanApproval]
  /\ "bounded_crew_executed" \in StepEvents[Execute]
  /\ "outputs_validated" \in StepEvents[Validate]
  /\ "remediation_not_needed" \in StepEvents[Remediate]
  /\ {"qa_review_passed", "qa_review_rejected"} \subseteq StepEvents[QaValidation]
  /\ {"acceptance_skipped", "acceptance_granted", "acceptance_pending"}
       \subseteq StepEvents[Acceptance]
  /\ "changes_staged_noop" \in StepEvents[Stage]
  /\ "commit_noop" \in StepEvents[Commit]
  /\ "run_summary_generated" \in StepEvents[Finalize]
  /\ "indexes_updated" \in StepEvents[UpdateIndexes]
  BY DEF StepEvents, Steps, LoadManifest, Preflight, Hydrate, Plan, PlanApproval, Execute,
         Validate, Remediate, QaValidation, Acceptance, Stage, Commit, Finalize, UpdateIndexes

\* Between the step's beginning and its event, exactly the earlier steps are done.
LEMMA AtStepDone ==
  ASSUME PrefixInv, NEW c \in Callers, NEW k \in Steps, AtStep(c, k)
  PROVE  step[c] = k /\ live[c].done = 1..(k - 1) /\ pc[c] = "loop"
  BY PrefixGap DEF AtStep, PrefixInv, InOrder

\* A step function written as Perform works.
LEMMA PerformWorks ==
  ASSUME PrefixInv, NEW c \in Callers, NEW k \in Steps, NEW e, NEW t,
         Perform(c, k, e, t), Effect(k, e, live[c], t),
         e \notin {"plan_approved", "plan_approval_pending", "qa_review_rejected"}
  PROVE  Works(c, e, t)
  <1>1. step[c] = k /\ live[c].done = 1..(k - 1) /\ pc[c] = "loop"
    BY AtStepDone DEF Perform
  <1>2. QED
    BY <1>1 DEF Works, Perform

\* Where a call is inside a step, it is at the step that brings it there; it
\* works on an attempt that exists or that it creates, and attempts come to
\* exist in order.
Placed(c) ==
  /\ pc[c] \in {"plan", "approved"} => step[c] = PlanApproval
  /\ pc[c] \in {"qa", "escalate"} => step[c] = QaValidation
  /\ pc[c] = "escalate" => live[c].status = "dead_letter"
  /\ pc[c] = "overrule" => live[c].status = "cancelled"
  /\ pc[c] = "create" => cur[c] = FirstAttempt /\ live[c] = FreshState
  /\ pc[c] \notin {"idle", "create"} => store[cur[c]] # NoState

\* The half of DecidePlanApproval in which the gateway's request is resolved.
ResolvePlan(c) ==
  /\ pc[c] = "plan"
  /\ gateway' = [gateway EXCEPT ![live[c].approvalId] = "approved"]
  /\ pc' = [pc EXCEPT ![c] = "approved"]
  /\ UNCHANGED <<store, ledger, metrics, cur, wasTerminal, step, live, qa, token, counts>>

CallsInv ==
  /\ PrefixInv
  /\ \A c \in Callers : Placed(c)
  /\ \A a \in Persisted, x \in Attempts : x < a => x \in Persisted

\* The steps of a call that change its state object and log an event: all but
\* the moves of the loop, the request of an approval and its resolution, the
\* test cases, the escalation, the cancellation and the saves.
LEMMA CallSteps ==
  ASSUME CallsInv, NEW c \in Callers, CallStep(c)
  PROVE  \/ SaveNew(c) \/ SaveApiCancel(c) \/ ResolvePlan(c)
         \/ SkipCompleted(c) \/ BeginQa(c) \/ RequestPlanApproval(c)
         \/ RunTestCase(c) \/ Escalate(c)
         \/ ObserveCancellation(c) \/ SaveCancelled(c) \/ SaveStep(c)
         \/ RefuseSelfApproval(c) \/ Return(c)
         \/ \E e \in EventTypes, t \in State : Works(c, e, t)
  <1> DEFINE s == live[c]
             Worked == \E e \in EventTypes, t \in State : Works(c, e, t)
  <1>t. PrefixInv /\ TypeOK /\ s \in State /\ s.status \in Statuses /\ s.rework \in Nat
    BY DEF CallsInv, PrefixInv, TypeInv, TypeOK, State
  <1>5. CASE \/ LoadRunManifest(c) \/ HydrateTypedState(c) \/ CreateExecutionPlan(c)
             \/ RemediateIfAllowed(c) \/ StageChanges(c) \/ CreateCommit(c)
             \/ UpdateProjectIndexes(c) \/ SkipPlanApproval(c)
    <2>1. \E k \in Steps \ {Execute, Validate}, e \in EventTypes :
            /\ Perform(c, k, e, s)
            /\ e \in StepEvents[k]
            /\ e \notin {"plan_approved", "plan_approval_pending", "qa_review_rejected"}
      BY <1>5, EventsOfSteps
      DEF LoadRunManifest, HydrateTypedState, CreateExecutionPlan, RemediateIfAllowed,
          StageChanges, CreateCommit, UpdateProjectIndexes, SkipPlanApproval,
          Steps, LoadManifest, Hydrate, Plan, Remediate, Stage, Commit, UpdateIndexes,
          PlanApproval, EventTypes, Execute, Validate
    <2>2. PICK k \in Steps \ {Execute, Validate}, e \in EventTypes :
            /\ Perform(c, k, e, s)
            /\ e \in StepEvents[k]
            /\ e \notin {"plan_approved", "plan_approval_pending", "qa_review_rejected"}
      BY <2>1
    <2>3. Effect(k, e, s, s)
      BY <2>2, <1>t DEF Effect
    <2>4. Works(c, e, s)
      BY <2>2, <2>3, <1>t, PerformWorks
    <2>5. QED
      BY <2>4, <1>t
  <1>6. CASE PreflightPolicyCheck(c)
    <2> DEFINE t == [s EXCEPT !.status = "blocked", !.denied = TRUE]
    <2>1. /\ t \in State /\ t.status = "blocked" /\ t.denied = TRUE
          /\ t.done = s.done /\ t.approvalId = s.approvalId /\ t.approval = s.approval
          /\ t.outputs = s.outputs /\ t.validation = s.validation /\ t.rework = s.rework
      BY <1>t DEF State, Statuses
    <2> HIDE DEF t
    <2>2. /\ Preflight \in Steps /\ Preflight # Execute /\ Preflight # Validate
          /\ "policy_decision_recorded" \in EventTypes
      BY DEF Preflight, Execute, Validate, Steps, EventTypes
    <2>3. /\ Effect(Preflight, "policy_decision_recorded", s, s)
          /\ Effect(Preflight, "policy_decision_recorded", s, t)
      BY <2>1, <2>2, <1>t, EventsOfSteps DEF Effect
    <2>4. \/ Perform(c, Preflight, "policy_decision_recorded", s)
          \/ Perform(c, Preflight, "policy_decision_recorded", t)
      BY <1>6 DEF PreflightPolicyCheck, t
    <2>5. \/ Works(c, "policy_decision_recorded", s)
          \/ Works(c, "policy_decision_recorded", t)
      BY <2>2, <2>3, <2>4, <1>t, PerformWorks
    <2>6. QED
      BY <2>1, <2>2, <2>5, <1>t
  <1>7. CASE DecidePlanApproval(c)
    <2> DEFINE pending == [s EXCEPT !.approval = "pending", !.status = "waiting_for_human"]
    <2>1. /\ pending \in State /\ pending.approval = "pending"
          /\ pending.status = "waiting_for_human"
          /\ pending.done = s.done /\ pending.approvalId = s.approvalId
          /\ pending.outputs = s.outputs /\ pending.validation = s.validation
          /\ pending.rework = s.rework /\ pending.denied = s.denied
      BY <1>t DEF State, Statuses
    <2>2. \/ ResolvePlan(c)
          \/ /\ live' = [live EXCEPT ![c] = pending]
             /\ Emit(c, "plan_approval_pending")
             /\ pc' = [pc EXCEPT ![c] = "save"]
             /\ UNCHANGED <<store, gateway, metrics, cur, wasTerminal, step, qa, token, counts>>
      BY <1>7, <1>t DEF DecidePlanApproval, ResolvePlan, TypeOK
    <2> HIDE DEF pending
    <2>3. /\ pc[c] = "plan" /\ step[c] = PlanApproval /\ s.done = 1..(step[c] - 1)
          /\ step[c] \in Steps /\ step[c] # Execute /\ step[c] # Validate
          /\ "plan_approval_pending" \in EventTypes
      BY <1>7, <1>t
      DEF DecidePlanApproval, CallsInv, Placed, PrefixInv, InOrder, InStepPcs,
          PlanApproval, Execute, Validate, Steps, EventTypes
    <2>4. Effect(step[c], "plan_approval_pending", s, pending)
      BY <2>1, <2>3, EventsOfSteps DEF Effect
    <2>5. ResolvePlan(c) \/ Works(c, "plan_approval_pending", pending)
      BY <2>2, <2>3, <2>4 DEF Works
    <2>6. QED
      BY <2>1, <2>3, <2>5
  <1>8. CASE RecordPlanApproval(c)
    <2> DEFINE granted == [s EXCEPT !.approval = "approved"]
    <2>1. /\ granted \in State /\ granted.approval = "approved" /\ granted.status = s.status
          /\ granted.done = s.done /\ granted.approvalId = s.approvalId
          /\ granted.outputs = s.outputs /\ granted.validation = s.validation
          /\ granted.rework = s.rework /\ granted.denied = s.denied
      BY <1>t DEF State
    <2>2. /\ live' = [live EXCEPT ![c] = granted] /\ pc' = [pc EXCEPT ![c] = "save"]
          /\ Emit(c, "plan_approved")
          /\ UNCHANGED <<store, gateway, metrics, cur, wasTerminal, step, qa, token, counts>>
      BY <1>8, <1>t DEF RecordPlanApproval, TypeOK
    <2> HIDE DEF granted
    <2>3. /\ pc[c] = "approved" /\ step[c] = PlanApproval /\ s.done = 1..(step[c] - 1)
          /\ step[c] \in Steps /\ step[c] # Execute /\ step[c] # Validate
          /\ "plan_approved" \in EventTypes
      BY <1>8, <1>t
      DEF RecordPlanApproval, CallsInv, Placed, PrefixInv, InOrder, InStepPcs,
          PlanApproval, Execute, Validate, Steps, EventTypes
    <2>4. Effect(step[c], "plan_approved", s, granted)
      BY <2>1, <2>3, EventsOfSteps DEF Effect
    <2>5. Works(c, "plan_approved", granted)
      BY <2>2, <2>3, <2>4 DEF Works
    <2>6. QED
      BY <2>1, <2>3, <2>5
  <1>9. CASE ExecuteBoundedCrews(c)
    <2> DEFINE t == [s EXCEPT !.outputs = TRUE, !.status = "running"]
    <2>1. /\ t \in State /\ t.status = "running" /\ t.outputs = TRUE /\ t.denied = s.denied
          /\ t.done = s.done /\ t.approvalId = s.approvalId /\ t.approval = s.approval
          /\ t.validation = s.validation /\ t.rework = s.rework
      BY <1>t DEF State, Statuses
    <2> HIDE DEF t
    <2>2. Execute \in Steps /\ Execute # Validate /\ "bounded_crew_executed" \in EventTypes
      BY DEF Execute, Validate, Steps, EventTypes
    <2>3. Effect(Execute, "bounded_crew_executed", s, t)
      BY <2>1, <2>2, EventsOfSteps DEF Effect
    <2>4. Perform(c, Execute, "bounded_crew_executed", t)
      BY <1>9 DEF ExecuteBoundedCrews, t
    <2>5. QED
      BY <2>1, <2>2, <2>3, <2>4, <1>t, PerformWorks
  <1>10. CASE ValidateOutputs(c)
    <2> DEFINE v == IF s.outputs /\ OutputsDeclared THEN "passed" ELSE "failed"
               t == [s EXCEPT !.validation = v]
    <2>1. /\ t \in State /\ t.status = s.status /\ t.outputs = s.outputs /\ t.denied = s.denied
          /\ t.done = s.done /\ t.approvalId = s.approvalId /\ t.approval = s.approval
          /\ t.validation = v /\ t.rework = s.rework
      BY <1>t DEF State
    <2>4. Perform(c, Validate, "outputs_validated", t)
      BY <1>10 DEF ValidateOutputs
    <2> HIDE DEF t
    <2>2. Validate \in Steps /\ Execute # Validate /\ "outputs_validated" \in EventTypes
      BY DEF Execute, Validate, Steps, EventTypes
    <2>3. Effect(Validate, "outputs_validated", s, t)
      BY <2>1, <2>2, EventsOfSteps DEF Effect
    <2>5. QED
      BY <2>1, <2>2, <2>3, <2>4, <1>t, PerformWorks
  <1>14. CASE PassQa(c)
    <2> DEFINE t == [s EXCEPT !.status = "review"]
    <2>1. /\ t \in State /\ t.status = "review" /\ t.outputs = s.outputs /\ t.denied = s.denied
          /\ t.done = s.done /\ t.approvalId = s.approvalId /\ t.approval = s.approval
          /\ t.validation = s.validation /\ t.rework = s.rework
      BY <1>t DEF State, Statuses
    <2>2. /\ live' = [live EXCEPT ![c] = t] /\ pc' = [pc EXCEPT ![c] = "save"]
          /\ Emit(c, "qa_review_passed")
          /\ UNCHANGED <<store, gateway, metrics, cur, wasTerminal, step, qa, token, counts>>
      BY <1>14, <1>t DEF PassQa, TypeOK
    <2> HIDE DEF t
    <2>3. /\ pc[c] = "qa" /\ step[c] = QaValidation /\ s.done = 1..(step[c] - 1)
          /\ step[c] \in Steps /\ step[c] # Execute /\ step[c] # Validate
          /\ "qa_review_passed" \in EventTypes
      BY <1>14, <1>t
      DEF PassQa, CallsInv, Placed, PrefixInv, InOrder, InStepPcs,
          QaValidation, Execute, Validate, Steps, EventTypes
    <2>4. Effect(step[c], "qa_review_passed", s, t)
      BY <2>1, <2>3, EventsOfSteps DEF Effect
    <2>5. Works(c, "qa_review_passed", t)
      BY <2>2, <2>3, <2>4 DEF Works
    <2>6. QED
      BY <2>1, <2>3, <2>5
  <1>15. CASE RejectQa(c)
    <2>m. PICK max \in QaLimits :
            IF s.rework + 1 < max
              THEN /\ live' = [live EXCEPT ![c].rework = s.rework + 1, ![c].status = "rejected"]
                   /\ pc' = [pc EXCEPT ![c] = "save"]
              ELSE /\ live' = [live EXCEPT ![c].rework = s.rework + 1, ![c].status = "dead_letter"]
                   /\ pc' = [pc EXCEPT ![c] = "escalate"]
      BY <1>15 DEF RejectQa
    <2> DEFINE n == IF s.rework + 1 < max THEN "rejected" ELSE "dead_letter"
               t == [s EXCEPT !.rework = s.rework + 1, !.status = n]
    <2>n. /\ n \in {"rejected", "dead_letter"}
          /\ n = "dead_letter" => s.rework + 1 >= max
          /\ {"rejected", "dead_letter"} \subseteq Statuses
      BY <1>t, BoundsAssumption DEF Statuses
    <2>2. /\ live' = [live EXCEPT ![c] = t]
          /\ pc' = [pc EXCEPT ![c] = IF n = "dead_letter" THEN "escalate" ELSE "save"]
          /\ Emit(c, "qa_review_rejected")
          /\ UNCHANGED <<store, gateway, metrics, cur, wasTerminal, step, qa, token, counts>>
      BY <1>15, <2>m, <1>t DEF RejectQa, TypeOK
    <2> HIDE DEF n
    <2>1. /\ t \in State /\ t.status = n /\ t.outputs = s.outputs /\ t.denied = s.denied
          /\ t.done = s.done /\ t.approvalId = s.approvalId /\ t.approval = s.approval
          /\ t.validation = s.validation /\ t.rework = s.rework + 1
      <3>1. s.rework + 1 \in Nat /\ n \in Statuses
        BY <1>t, <2>n
      <3>2. t \in State
        BY <1>t, <3>1, FieldTyped
      <3>3. QED
        BY <1>t, <3>2 DEF State
    <2> HIDE DEF t
    <2>3. /\ pc[c] = "qa" /\ step[c] = QaValidation /\ s.done = 1..(step[c] - 1)
          /\ step[c] \in Steps /\ step[c] # Execute /\ step[c] # Validate
          /\ "qa_review_rejected" \in EventTypes
      BY <1>15, <1>t
      DEF RejectQa, CallsInv, Placed, PrefixInv, InOrder, InStepPcs,
          QaValidation, Execute, Validate, Steps, EventTypes
    <2>4. Effect(step[c], "qa_review_rejected", s, t)
      BY <2>1, <2>n, <2>3, EventsOfSteps DEF Effect
    <2>5. Works(c, "qa_review_rejected", t)
      BY <2>1, <2>2, <2>3, <2>4 DEF Works
    <2>6. QED
      BY <2>1, <2>3, <2>5
  <1>17. CASE HumanAcceptance(c)
    <2> DEFINE t(x) == [s EXCEPT !.status = x]
    <2>1. \A x \in {"accepted", "waiting_for_human"} :
            /\ t(x) \in State /\ t(x).status = x /\ t(x).outputs = s.outputs
            /\ t(x).denied = s.denied /\ t(x).done = s.done /\ t(x).approvalId = s.approvalId
            /\ t(x).approval = s.approval /\ t(x).validation = s.validation
            /\ t(x).rework = s.rework
      BY <1>t DEF State, Statuses
    <2>4. \/ Perform(c, Acceptance, "acceptance_skipped", s)
          \/ Perform(c, Acceptance, "acceptance_granted", t("accepted"))
          \/ Perform(c, Acceptance, "acceptance_pending", t("waiting_for_human"))
      BY <1>17 DEF HumanAcceptance
    <2> HIDE DEF t
    <2>2. /\ Acceptance \in Steps /\ Acceptance # Validate /\ Acceptance # Execute
          /\ {"acceptance_skipped", "acceptance_granted", "acceptance_pending"} \subseteq EventTypes
      BY DEF Execute, Validate, Acceptance, Steps, EventTypes
    <2>3. /\ Effect(Acceptance, "acceptance_skipped", s, s)
          /\ Effect(Acceptance, "acceptance_granted", s, t("accepted"))
          /\ Effect(Acceptance, "acceptance_pending", s, t("waiting_for_human"))
      BY <2>1, <2>2, <1>t, EventsOfSteps DEF Effect
    <2>5. \/ Works(c, "acceptance_skipped", s)
          \/ Works(c, "acceptance_granted", t("accepted"))
          \/ Works(c, "acceptance_pending", t("waiting_for_human"))
      BY <2>2, <2>3, <2>4, <1>t, PerformWorks
    <2>6. QED
      BY <2>1, <2>2, <2>5, <1>t
  <1>18. CASE FinalizeRunSummary(c)
    <2> DEFINE n == IF s.status = "accepted" THEN "closed" ELSE s.status
               t == [s EXCEPT !.status = n]
    <2>n. n \in Statuses /\ (n = s.status \/ (n = "closed" /\ s.status = "accepted"))
      BY <1>t DEF Statuses
    <2>4. Perform(c, Finalize, "run_summary_generated", t)
      BY <1>18 DEF FinalizeRunSummary
    <2> HIDE DEF n
    <2>1. /\ t \in State /\ t.status = n /\ t.outputs = s.outputs /\ t.denied = s.denied
          /\ t.done = s.done /\ t.approvalId = s.approvalId /\ t.approval = s.approval
          /\ t.validation = s.validation /\ t.rework = s.rework
      BY <1>t, <2>n DEF State
    <2> HIDE DEF t
    <2>2. /\ Finalize \in Steps /\ Finalize # Execute /\ Finalize # Validate
          /\ "run_summary_generated" \in EventTypes
      BY DEF Execute, Validate, Finalize, Steps, EventTypes
    <2>3. Effect(Finalize, "run_summary_generated", s, t)
      BY <2>1, <2>2, <2>n, EventsOfSteps DEF Effect
    <2>5. QED
      BY <2>1, <2>2, <2>3, <2>4, <1>t, PerformWorks
  <1>20. QED
    BY <1>5, <1>6, <1>7, <1>8, <1>9, <1>10, <1>14, <1>15, <1>17, <1>18 DEF CallStep

-----------------------------------------------------------------------------
(* What a step of the flow does, seen from the records                     *)

\* The other callers are where they were.
OthersStay(c) ==
  \A d \in Callers \ {c} :
    /\ pc'[d] = pc[d] /\ cur'[d] = cur[d] /\ step'[d] = step[d]
    /\ live'[d] = live[d] /\ wasTerminal'[d] = wasTerminal[d]

\* c keeps its attempt, and what it noted of it.
StaysIn(c) ==
  /\ pc[c] \notin {"idle", "overrule"} /\ pc'[c] \notin {"idle", "overrule", "create"}
  /\ cur'[c] = cur[c] /\ wasTerminal'[c] = wasTerminal[c]
  /\ UNCHANGED <<metrics, entries, cancels>>
  /\ OthersStay(c)

\* Nothing on record changes: the loop moves on or its token is set.
Rests ==
  /\ UNCHANGED <<store, ledger, gateway, metrics, entries, cancels, cur, wasTerminal, live>>
  /\ \A d \in Callers :
       \/ pc'[d] = pc[d] /\ step'[d] = step[d]
       \/ pc[d] = "loop" /\ pc'[d] = "loop"
       \/ pc[d] = "loop" /\ pc'[d] = "qa" /\ step'[d] = step[d] /\ step[d] = QaValidation

\* A test case, or the escalation of a dead letter.
Logs(c) ==
  /\ StaysIn(c)
  /\ \/ pc[c] = "qa" /\ pc'[c] = "qa" /\ Emit(c, "test_case_executed")
     \/ pc[c] = "escalate" /\ pc'[c] = "save" /\ Emit(c, "human_escalation_required")
  /\ live'[c] = live[c] /\ step'[c] = step[c]
  /\ UNCHANGED <<store, gateway>>

\* A plan approval reaches the gateway.
Requests(c) ==
  /\ StaysIn(c)
  /\ pc[c] = "loop" /\ pc'[c] = "plan"
  /\ step'[c] = step[c] /\ step[c] = PlanApproval /\ live[c].done = 1..(PlanApproval - 1)
  /\ \E v \in {"approved", "pending"} : gateway' = Append(gateway, v)
  /\ live'[c] = [live[c] EXCEPT !.approvalId = Len(gateway) + 1]
  /\ UNCHANGED <<store, ledger>>

\* The request is resolved in the gateway.
Resolves(c) ==
  /\ StaysIn(c)
  /\ pc[c] = "plan" /\ pc'[c] = "approved"
  /\ live'[c] = live[c] /\ step'[c] = step[c]
  /\ gateway' = [gateway EXCEPT ![live[c].approvalId] = "approved"]
  /\ UNCHANGED <<store, ledger>>

\* A step function logs e and leaves the state t to be saved.
Leaves(c, e, t) ==
  /\ Works(c, e, t)
  /\ StaysIn(c)
  /\ live'[c] = t /\ step'[c] = step[c]
  /\ pc'[c] = IF e = "qa_review_rejected" /\ t.status = "dead_letter" THEN "escalate" ELSE "save"

\* The loop finds the token set.
Cancels(c) ==
  /\ StaysIn(c)
  /\ pc[c] = "loop" /\ pc'[c] = "cancel"
  /\ live'[c] = [live[c] EXCEPT !.status = "cancelled"] /\ step'[c] = step[c]
  /\ Emit(c, "run_cancelled")
  /\ UNCHANGED <<store, gateway>>

\* The state of a new run becomes its first checkpoint.
Creates(c) ==
  /\ StaysIn(c)
  /\ pc[c] = "create" /\ pc'[c] = "loop"
  /\ live'[c] = live[c] /\ step'[c] = step[c]
  /\ store' = [store EXCEPT ![cur[c]] = live[c]]
  /\ UNCHANGED <<ledger, gateway>>

\* The state object, with the step just done if it is one, becomes the checkpoint.
Saves(c) ==
  /\ StaysIn(c)
  /\ \/ /\ pc[c] = "cancel" /\ pc'[c] = "return"
        /\ live'[c] = live[c] /\ step'[c] = step[c]
     \/ /\ pc[c] = "save"
        /\ pc'[c] = IF live[c].status \in EarlyExitStatuses THEN "return" ELSE "loop"
        /\ step[c] \in Steps /\ live[c].done = 1..(step[c] - 1)
        /\ live'[c] = [live[c] EXCEPT !.done = @ \cup {step[c]}]
  /\ store' = [store EXCEPT ![cur[c]] = live'[c]]
  /\ UNCHANGED <<ledger, gateway>>

\* The call returns or dies; one that returns counts the completion it made.
Ends(c) ==
  /\ pc[c] # "idle" /\ pc'[c] = "idle"
  /\ live'[c] = FreshState
  /\ \/ metrics' = metrics
     \/ /\ pc[c] # "escalate" /\ ~wasTerminal[c]
        /\ live[c].status \in TerminalStatuses
        /\ metrics' = [metrics EXCEPT ![live[c].status] = @ + 1]
  /\ UNCHANGED <<store, ledger, gateway, entries, cancels>>
  /\ OthersStay(c)

\* The API loads attempt a and cancels its copy,
Overrules(c, a) ==
  /\ a \in Attempts /\ pc[c] = "idle" /\ pc'[c] = "overrule"
  /\ store[a] # NoState
  /\ cur'[c] = a /\ live'[c] = [store[a] EXCEPT !.status = "cancelled"]
  /\ UNCHANGED <<store, ledger, gateway, metrics, entries, cancels>>
  /\ OthersStay(c)

\* which becomes the checkpoint, and is confirmed.
Confirms(c) ==
  /\ pc[c] = "overrule" /\ pc'[c] = "idle"
  /\ store' = [store EXCEPT ![cur[c]] = live[c]]
  /\ cancels' = [cancels EXCEPT ![cur[c]] = @ + 1]
  /\ UNCHANGED <<ledger, gateway, metrics, entries>>
  /\ OthersStay(c)

\* A call begins on attempt a with the state s.
Enters(c, a, s) ==
  /\ a \in Attempts /\ pc[c] = "idle"
  /\ cur'[c] = a /\ live'[c] = s
  /\ wasTerminal'[c] = (s.status \in TerminalStatuses)
  /\ entries' = [entries EXCEPT ![a] = @ + 1]
  /\ SingleWriter => \A d \in Callers : pc[d] = "idle" \/ cur[d] # a
  /\ \/ pc'[c] = "create" /\ store[a] = NoState /\ a = FirstAttempt /\ s = FreshState
     \/ pc'[c] = "loop" /\ store[a] # NoState /\ s = ResetIfCancelled(store[a])
  /\ UNCHANGED <<store, ledger, gateway, metrics, cancels>>
  /\ OthersStay(c)

\* Somebody starts a new attempt, or resolves a request.
Around ==
  /\ UNCHANGED <<ledger, metrics, entries, cancels, pc, cur, wasTerminal, step, live>>
  /\ \/ /\ gateway' = gateway
        /\ \E a, b \in Attempts :
             /\ store[a] # NoState /\ store[b] = NoState
             /\ \A x \in Attempts : x < b => store[x] # NoState
             /\ store' = [store EXCEPT ![b] = NewAttemptState(store[a])]
     \/ /\ store' = store
        /\ \E i \in DOMAIN gateway, v \in {"approved", "rejected"} :
             gateway' = [gateway EXCEPT ![i] = v]

\* Every step of the flow is one of these.
LEMMA NextViews ==
  ASSUME CallsInv, [Next]_vars
  PROVE  \/ Rests \/ Around
         \/ \E c \in Callers : \/ Logs(c) \/ Requests(c) \/ Resolves(c) \/ Cancels(c)
                               \/ Creates(c) \/ Saves(c) \/ Ends(c) \/ Confirms(c)
                               \/ \E e \in EventTypes, t \in State : Leaves(c, e, t)
                               \/ \E a \in Attempts, s \in State : Enters(c, a, s)
                               \/ \E a \in Attempts : Overrules(c, a)
  <1>t. PrefixInv /\ TypeInv /\ TypeOK
    BY DEF CallsInv, PrefixInv, TypeInv
  <1>1. CASE UNCHANGED vars
    BY <1>1 DEF vars, Rests
  <1>2. ASSUME NEW c \in Callers, CallStep(c)
        PROVE  \/ Rests \/ Logs(c) \/ Requests(c) \/ Resolves(c) \/ Cancels(c)
               \/ Creates(c) \/ Saves(c) \/ Ends(c) \/ Confirms(c)
               \/ \E e \in EventTypes, t \in State : Leaves(c, e, t)
    <2>1. CASE SkipCompleted(c)
      BY <2>1, <1>t DEF SkipCompleted, durable, counts, Rests, TypeOK
    <2>2. CASE BeginQa(c)
      BY <2>2, <1>t DEF BeginQa, AtStep, durable, counts, Rests, TypeOK
    <2>3. CASE RequestPlanApproval(c)
      <3>1. PlanApproval \in Steps
        BY DEF PlanApproval, Steps
      <3>2. live[c].done = 1..(PlanApproval - 1) /\ step[c] = PlanApproval /\ pc[c] = "loop"
        BY <2>3, <1>t, <3>1, AtStepDone DEF RequestPlanApproval
      <3>3. QED
        BY <2>3, <3>2, <1>t
        DEF RequestPlanApproval, counts, Requests, StaysIn, OthersStay, TypeOK
    <2>4. CASE RunTestCase(c)
      BY <2>4, <1>t DEF RunTestCase, counts, Logs, StaysIn, OthersStay, TypeOK
    <2>5. CASE Escalate(c)
      BY <2>5, <1>t DEF Escalate, inCall, counts, Logs, StaysIn, OthersStay, TypeOK
    <2>6. CASE ObserveCancellation(c)
      BY <2>6, <1>t DEF ObserveCancellation, counts, Cancels, StaysIn, OthersStay, TypeOK
    <2>7. CASE SaveCancelled(c)
      BY <2>7, <1>t DEF SaveCancelled, inCall, counts, Saves, StaysIn, OthersStay, TypeOK
    <2>8. CASE SaveStep(c)
      <3> DEFINE saved == [live[c] EXCEPT !.done = @ \cup {step[c]}]
      <3>1. step[c] \in Steps /\ live[c].done = 1..(step[c] - 1)
        BY <2>8, <1>t DEF SaveStep, TypeInv, WellPlaced, PrefixInv, InOrder, InStepPcs
      <3>2. saved.status = live[c].status
        BY <1>t DEF TypeOK, State
      <3>3. QED
        BY <2>8, <3>1, <3>2, <1>t DEF SaveStep, counts, Saves, StaysIn, OthersStay, TypeOK
    <2>9. CASE RefuseSelfApproval(c)
      BY <2>9, <1>t DEF RefuseSelfApproval, AtStep, EndCall, durable, counts, Ends, OthersStay, TypeOK
    <2>10. CASE Return(c)
      BY <2>10, <1>t DEF Return, EndCall, durable, counts, Ends, OthersStay, TypeOK
    <2>11. ASSUME NEW e \in EventTypes, NEW t \in State, Works(c, e, t)
           PROVE  Leaves(c, e, t)
      BY <2>11, <1>t DEF Works, Leaves, StaysIn, OthersStay, TypeOK, counts
    <2>12. CASE ResolvePlan(c)
      BY <2>12, <1>t DEF ResolvePlan, counts, Resolves, StaysIn, OthersStay, TypeOK
    <2>13. CASE SaveNew(c)
      BY <2>13, <1>t DEF SaveNew, inCall, counts, Creates, StaysIn, OthersStay, TypeOK
    <2>14. CASE SaveApiCancel(c)
      BY <2>14, <1>t DEF SaveApiCancel, EndCall, Confirms, OthersStay, TypeOK
    <2>15. QED
      BY <1>2, <2>1, <2>2, <2>3, <2>4, <2>5, <2>6, <2>7, <2>8, <2>9, <2>10, <2>11, <2>12,
         <2>13, <2>14, CallSteps
  <1>3. ASSUME NEW c \in Callers, Abort(c) PROVE Ends(c)
    BY <1>3, <1>t DEF Abort, EndCall, durable, Ends, OthersStay, TypeOK
  <1>4. ASSUME NEW c \in Callers, RequestCancel(c) PROVE Rests
    BY <1>4 DEF RequestCancel, durable, counts, Rests
  <1>5. ASSUME NEW c \in Callers, StartNew(c)
        PROVE  \E a \in Attempts, s \in State : Enters(c, a, s)
    <2>1. FirstAttempt \in Attempts
      BY BoundsAssumption DEF FirstAttempt, Attempts
    <2>2. Enters(c, FirstAttempt, FreshState)
      BY <1>5, <2>1, <1>t DEF StartNew, MayEnter, MayTouch, Begin, durable, Enters, OthersStay, TypeOK
    <2>3. QED
      BY <2>1, <2>2, FreshStateTyped
  <1>6. ASSUME NEW c \in Callers, NEW b \in Attempts, Continue(c, b)
        PROVE  \E a \in Attempts, s \in State : Enters(c, a, s)
    <2>1. ResetIfCancelled(store[b]) \in State
      BY <1>6, <1>t, ReopenedTyped DEF Continue, TypeOK
    <2>2. Enters(c, b, ResetIfCancelled(store[b]))
      BY <1>6, <1>t DEF Continue, MayEnter, MayTouch, Begin, durable, Enters, OthersStay, TypeOK
    <2>3. QED
      BY <2>1, <2>2
  <1>7. ASSUME NEW a \in Attempts, NEW b \in Attempts \ {FirstAttempt}, StartNewAttempt(a, b)
        PROVE Around
    BY <1>7 DEF StartNewAttempt, inCall, counts, Around
  <1>8. ASSUME NEW i \in DOMAIN gateway, HumanResolve(i) PROVE Around
    BY <1>8 DEF HumanResolve, inCall, counts, Around
  <1>9. ASSUME NEW c \in Callers, NEW a \in Attempts, LoadToCancel(c, a)
        PROVE  Overrules(c, a)
    BY <1>9, <1>t DEF LoadToCancel, MayTouch, durable, counts, Overrules, OthersStay, TypeOK
  <1>10. QED
    BY <1>1, <1>2, <1>3, <1>4, <1>5, <1>6, <1>7, <1>8, <1>9 DEF Next

\* What exists goes on existing, and only a first attempt or the next one appears.
LEMMA PersistedGrows ==
  ASSUME CallsInv, [Next]_vars
  PROVE  /\ Persisted \subseteq Persisted'
         /\ \A a \in Persisted', x \in Attempts : x < a => x \in Persisted'
  <1>t. TypeOK /\ FirstAttempt \in Attempts
    BY BoundsAssumption DEF CallsInv, PrefixInv, TypeInv, FirstAttempt, Attempts
  <1>n. \A s \in State : s # NoState
    BY NoStateAssumption
  <1>1. ASSUME UNCHANGED store PROVE Persisted' = Persisted
    BY <1>1 DEF Persisted
  <1>2. ASSUME NEW a \in Persisted, NEW s \in State, store' = [store EXCEPT ![a] = s]
        PROVE  Persisted' = Persisted
    BY <1>2, <1>n, <1>t DEF Persisted, TypeOK
  <1>3. ASSUME NEW a \in Attempts, NEW s \in State, store' = [store EXCEPT ![a] = s]
        PROVE  Persisted' = Persisted \cup {a}
    BY <1>3, <1>n, <1>t DEF Persisted, TypeOK
  <1>4. ASSUME NEW c \in Callers, Saves(c) PROVE Persisted' = Persisted
    <2>1. cur[c] \in Persisted
      BY <1>4, <1>t DEF Saves, StaysIn, CallsInv, Placed, Persisted, TypeOK
    <2>2. live'[c] \in State /\ store' = [store EXCEPT ![cur[c]] = live'[c]]
      BY <1>4, NextTyped DEF Saves, CallsInv, PrefixInv, TypeInv, TypeOK
    <2>3. QED
      BY <1>2, <2>1, <2>2
  <1>5. ASSUME NEW c \in Callers, Creates(c)
        PROVE  Persisted' = Persisted \cup {FirstAttempt}
    BY <1>5, <1>3, <1>t, FreshStateTyped DEF Creates, CallsInv, Placed
  <1>11. ASSUME NEW c \in Callers, Confirms(c) PROVE Persisted' = Persisted
    BY <1>11, <1>2, <1>t DEF Confirms, CallsInv, Placed, Persisted, TypeOK
  <1>6. CASE Around
    <2>1. CASE UNCHANGED store
      BY <2>1, <1>1 DEF CallsInv
    <2>2. ASSUME NEW a \in Attempts, NEW b \in Attempts, store[a] # NoState, store[b] = NoState,
                 \A x \in Attempts : x < b => store[x] # NoState,
                 store' = [store EXCEPT ![b] = NewAttemptState(store[a])]
          PROVE  /\ Persisted \subseteq Persisted'
                 /\ \A y \in Persisted', x \in Attempts : x < y => x \in Persisted'
      <3>0. store[a] \in State
        BY <2>2, <1>t DEF TypeOK
      <3>1. NewAttemptState(store[a]) \in State
        BY <3>0 DEF NewAttemptState, FreshState, State, Statuses, Steps
      <3>2. Persisted' = Persisted \cup {b}
        BY <1>3, <2>2, <3>1
      <3>3. QED
        BY <2>2, <3>2 DEF CallsInv, Persisted
    <2>3. QED
      BY <1>6, <2>1, <2>2 DEF Around
  <1>7. CASE Persisted' = Persisted
    BY <1>7 DEF CallsInv
  <1>8. CASE Persisted' = Persisted \cup {FirstAttempt}
    <2>1. \A x \in Attempts : ~(x < FirstAttempt)
      BY DEF Attempts, FirstAttempt
    <2>2. QED
      BY <1>8, <2>1 DEF CallsInv
  <1>9. CASE \/ Rests
             \/ \E c \in Callers : \/ Logs(c) \/ Requests(c) \/ Resolves(c) \/ Cancels(c)
                                   \/ Ends(c)
                                   \/ \E e \in EventTypes, t \in State : Leaves(c, e, t)
                                   \/ \E a \in Attempts, s \in State : Enters(c, a, s)
                                   \/ \E a \in Attempts : Overrules(c, a)
    <2>1. UNCHANGED store
      <3>1. ASSUME NEW c \in Callers, NEW e \in EventTypes, NEW t \in State, Leaves(c, e, t)
            PROVE  UNCHANGED store
        BY <3>1 DEF Leaves, Works
      <3>2. ASSUME NEW c \in Callers, NEW a \in Attempts, NEW s \in State, Enters(c, a, s)
            PROVE  UNCHANGED store
        BY <3>2 DEF Enters
      <3>3. ASSUME NEW c \in Callers, \/ Logs(c) \/ Requests(c) \/ Resolves(c) \/ Cancels(c)
                                      \/ Ends(c)
                                      \/ \E a \in Attempts : Overrules(c, a)
            PROVE  UNCHANGED store
        BY <3>3 DEF Logs, Requests, Resolves, Cancels, Ends, Overrules
      <3>4. QED
        BY <1>9, <3>1, <3>2, <3>3 DEF Rests
    <2>2. QED
      BY <2>1, <1>1, <1>7
  <1>10. QED
    BY <1>4, <1>5, <1>6, <1>7, <1>8, <1>9, <1>11, NextViews

\* Calls stay where their attempts are, and attempts appear one after the other.
LEMMA CallsStep == CallsInv /\ [Next]_vars => CallsInv'
  <1> SUFFICES ASSUME CallsInv, [Next]_vars PROVE CallsInv'
    OBVIOUS
  <1>1. PrefixInv'
    BY NextInOrder DEF CallsInv
  <1>t. TypeOK /\ TypeOK'
    BY <1>1 DEF CallsInv, PrefixInv, TypeInv
  <1>p. /\ Persisted \subseteq Persisted'
        /\ \A a \in Persisted', x \in Attempts : x < a => x \in Persisted'
    BY PersistedGrows
  <1>g. \A d \in Callers : store[cur[d]] # NoState => store'[cur[d]] # NoState
    BY <1>p, <1>t DEF TypeOK, Persisted
  <1>2. ASSUME NEW c \in Callers, OthersStay(c), Placed(c)'
        PROVE  \A d \in Callers : Placed(d)'
    BY <1>2, <1>g DEF OthersStay, Placed, CallsInv
  <1>3. ASSUME Rests PROVE \A d \in Callers : Placed(d)'
    BY <1>3, <1>g DEF Rests, CallsInv, Placed
  <1>4. ASSUME Around PROVE \A d \in Callers : Placed(d)'
    BY <1>4, <1>g DEF Around, CallsInv, Placed
  <1>5. ASSUME NEW c \in Callers,
               Logs(c) \/ Requests(c) \/ Resolves(c) \/ Cancels(c) \/ Ends(c) \/ Confirms(c)
        PROVE  Placed(c)'
    BY <1>5, <1>g DEF Logs, Requests, Resolves, Cancels, Ends, Confirms, StaysIn, Placed, CallsInv
  <1>6. ASSUME NEW c \in Callers, NEW e \in EventTypes, NEW t \in State, Leaves(c, e, t)
        PROVE  Placed(c)'
    <2>1. e = "qa_review_rejected" => step[c] = QaValidation
      BY <1>6
      DEF Leaves, Works, Effect, StepEvents, Steps, LoadManifest, Preflight, Hydrate, Plan,
          PlanApproval, Execute, Validate, Remediate, QaValidation, Acceptance, Stage, Commit,
          Finalize, UpdateIndexes
    <2>2. pc[c] \in {"loop", "plan", "approved", "qa"} /\ store[cur[c]] # NoState
      BY <1>6 DEF Leaves, Works, Placed, CallsInv
    <2>3. pc'[c] \in {"escalate", "save"} /\ step'[c] = step[c] /\ cur'[c] = cur[c]
      BY <1>6 DEF Leaves, StaysIn
    <2>4. pc'[c] = "escalate" => e = "qa_review_rejected" /\ live'[c].status = "dead_letter"
      BY <1>6 DEF Leaves
    <2>5. QED
      BY <2>1, <2>2, <2>3, <2>4, <1>g DEF Placed
  <1>7. ASSUME NEW c \in Callers, Saves(c)
        PROVE  Placed(c)'
    BY <1>7, <1>g DEF Saves, StaysIn, Placed, CallsInv
  <1>8. ASSUME NEW c \in Callers, NEW a \in Attempts, NEW s \in State, Enters(c, a, s)
        PROVE  Placed(c)'
    BY <1>8 DEF Enters, Placed
  <1>11. ASSUME NEW c \in Callers, NEW a \in Attempts, Overrules(c, a)
         PROVE  Placed(c)'
    <2>1. live'[c].status = "cancelled"
      BY <1>11, <1>t DEF Overrules, TypeOK, State
    <2>2. QED
      BY <1>11, <2>1 DEF Overrules, Placed
  <1>12. ASSUME NEW c \in Callers, Creates(c)
         PROVE  Placed(c)'
    <2>1. store'[cur[c]] # NoState
      BY <1>12, <1>t, NoStateAssumption DEF Creates, TypeOK
    <2>2. QED
      BY <1>12, <2>1 DEF Creates, StaysIn, Placed
  <1>9. \A d \in Callers : Placed(d)'
    <2>1. ASSUME NEW c \in Callers, \/ Logs(c) \/ Requests(c) \/ Resolves(c) \/ Cancels(c)
                                    \/ Creates(c) \/ Saves(c) \/ Ends(c) \/ Confirms(c)
                                    \/ \E e \in EventTypes, t \in State : Leaves(c, e, t)
                                    \/ \E a \in Attempts, s \in State : Enters(c, a, s)
                                    \/ \E a \in Attempts : Overrules(c, a)
          PROVE  OthersStay(c)
      BY <2>1 DEF Logs, Requests, Resolves, Cancels, Creates, Saves, Ends, Confirms, Leaves,
                  Enters, Overrules, StaysIn
    <2>2. QED
      BY <2>1, <1>2, <1>3, <1>4, <1>5, <1>6, <1>7, <1>8, <1>11, <1>12, NextViews
  <1>10. QED
    BY <1>1, <1>p, <1>9 DEF CallsInv

\* Before the first call there are no attempts.
LEMMA CallsInit == Init => CallsInv
  <1> SUFFICES ASSUME Init PROVE CallsInv
    OBVIOUS
  <1>1. PrefixInv
    BY InitInOrder
  <1>2. Persisted = {}
    BY DEF Init, Persisted
  <1>3. \A c \in Callers : Placed(c)
    BY DEF Init, Placed
  <1>4. QED
    BY <1>1, <1>2, <1>3 DEF CallsInv

-----------------------------------------------------------------------------
(* What a state object has to show for itself                              *)

Ledgers  == [Attempts -> [EventTypes -> Nat]]
Gateways == Seq({"pending", "approved", "rejected"})

\* The ledger L has, for attempt a, evidence of step k.
Evidence(L, a, k) ==
  \E b \in Attempts :
    /\ b = a \/ (b < a /\ k \in PlanningSteps)
    /\ \E e \in StepEvents[k] : L[b][e] > 0

Evident(D, a, L) == \A k \in D : Evidence(L, a, k)

\* The plan approval of r, if it has one, is of a step done and known to the gateway.
Approved(r, D, G) ==
  /\ r.approval # "none" => PlanApproval \in D /\ r.approvalId \in DOMAIN G
  /\ r.approval = "approved" => G[r.approvalId] # "pending"

Validated(r, D) ==
  /\ Execute \in D => r.outputs = TRUE
  /\ Validate \in D => r.validation = IF OutputsDeclared THEN "passed" ELSE "failed"

\* The status of r has its events, except for the escalation, which comes later;
\* K are the attempts that may be cancelled without an event.
Explained(r, a, L, K) ==
  /\ r.status = "cancelled" => L[a]["run_cancelled"] > 0 \/ a \in K
  /\ r.status = "waiting_for_human" =>
       \/ L[a]["plan_approval_pending"] > 0 /\ r.approval = "pending"
       \/ L[a]["acceptance_pending"] > 0
  /\ r.status = "blocked" => L[a]["policy_decision_recorded"] > 0 /\ r.denied
  /\ r.status \in {"rejected", "dead_letter"} => L[a]["qa_review_rejected"] > 0
  /\ r.status = "dead_letter" => \E max \in QaLimits : r.rework >= max
  /\ r.status \in {"accepted", "closed"} => L[a]["acceptance_granted"] > 0

\* How many events of type v the ledger L holds, of all attempts.
Tally(L, v) == Sums(Attempts, Column(Attempts, L, v))[Attempts]

Rejections(L) == Tally(L, "qa_review_rejected")

\* The state r, that has taken the steps D in attempt a, is borne out by the
\* ledger, the gateway and the cancellations.
Sound(r, D, a, L, G, K) ==
  /\ Evident(D, a, L)
  /\ Approved(r, D, G)
  /\ Validated(r, D)
  /\ Explained(r, a, L, K)
  /\ r.rework <= Rejections(L)

\* The ledger and the gateway as a step of the flow may change them.
Grows(L, M) ==
  /\ \A a \in Attempts, e \in EventTypes : L[a][e] > 0 => M[a][e] > 0
  /\ Rejections(L) <= Rejections(M)

Answered(G, H) ==
  /\ DOMAIN G \subseteq DOMAIN H
  /\ \A i \in DOMAIN G : G[i] # "pending" => H[i] # "pending"

\* One more event in one place.
LEMMA TallyEmitted ==
  ASSUME NEW L \in Ledgers, NEW a \in Attempts, NEW e \in EventTypes, NEW v \in EventTypes
  PROVE  LET M == [L EXCEPT ![a][e] = @ + 1]
         IN /\ Tally(L, v) \in Nat /\ Tally(M, v) \in Nat
            /\ Tally(M, v) = IF e = v THEN Tally(L, v) + 1 ELSE Tally(L, v)
  <1> DEFINE M == [L EXCEPT ![a][e] = @ + 1]
             C == Column(Attempts, L, v)
             E == Column(Attempts, M, v)
  <1>1. M \in Ledgers /\ M[a][e] = L[a][e] + 1
        /\ \A b \in Attempts, x \in EventTypes : b # a \/ x # e => M[b][x] = L[b][x]
    BY DEF Ledgers
  <1> HIDE DEF M
  <1>2. C \in [Attempts -> Nat] /\ E \in [Attempts -> Nat]
    BY <1>1 DEF Column, Ledgers
  <1>3. IsFiniteSet(Attempts)
    BY BoundsAssumption, FS_Interval DEF Attempts
  <1>4. Tally(L, v) \in Nat /\ Tally(M, v) \in Nat
    BY <1>2, <1>3, SumsTyped DEF Tally
  <1>5. CASE e = v
    <2>1. E = [C EXCEPT ![a] = @ + 1]
      BY <1>1, <1>5 DEF Column
    <2>2. QED
      BY <2>1, <1>2, <1>3, <1>4, <1>5, SumsRaised DEF Tally, M
  <1>6. CASE e # v
    <2>1. E = C
      BY <1>1, <1>6 DEF Column
    <2>2. QED
      BY <2>1, <1>4, <1>6 DEF Tally, M
  <1>7. QED
    BY <1>5, <1>6

\* An event that is emitted counts once, for one attempt.
LEMMA Emitted ==
  ASSUME NEW L \in Ledgers, NEW a \in Attempts, NEW e \in EventTypes
  PROVE  LET M == [L EXCEPT ![a][e] = @ + 1]
         IN /\ M \in Ledgers /\ M[a][e] > 0
            /\ Rejections(L) \in Nat /\ Rejections(M) \in Nat
            /\ Grows(L, M)
            /\ e = "qa_review_rejected" => Rejections(M) = Rejections(L) + 1
  <1> DEFINE M == [L EXCEPT ![a][e] = @ + 1]
  <1>1. M \in Ledgers /\ M[a][e] = L[a][e] + 1
        /\ \A b \in Attempts, x \in EventTypes : b # a \/ x # e => M[b][x] = L[b][x]
    BY DEF Ledgers
  <1>2. L[a][e] \in Nat /\ M[a][e] > 0
    BY <1>1 DEF Ledgers
  <1>3. \A b \in Attempts, x \in EventTypes : L[b][x] > 0 => M[b][x] > 0
    BY <1>1, <1>2
  <1>4. "qa_review_rejected" \in EventTypes
    BY DEF EventTypes
  <1>5. /\ Rejections(L) \in Nat /\ Rejections(M) \in Nat
        /\ Rejections(M) = IF e = "qa_review_rejected" THEN Rejections(L) + 1 ELSE Rejections(L)
    BY <1>4, TallyEmitted DEF Rejections
  <1> HIDE DEF M
  <1>6. QED
    BY <1>1, <1>2, <1>3, <1>5 DEF Grows, M

\* What bore a state out goes on doing so.
LEMMA SoundStays ==
  ASSUME NEW L \in Ledgers, NEW M \in Ledgers, NEW G, NEW H, Grows(L, M), Answered(G, H),
         NEW a \in Attempts, NEW r \in State, NEW D \in SUBSET Steps,
         NEW K, NEW J, K \subseteq J, Sound(r, D, a, L, G, K),
         Rejections(L) \in Nat, Rejections(M) \in Nat
  PROVE  Sound(r, D, a, M, H, J)
  <1>1. \A k \in Steps : StepEvents[k] \subseteq EventTypes
    BY DEF StepEvents, EventTypes, Steps, LoadManifest, Preflight, Hydrate, Plan,
           PlanApproval, Execute, Validate, Remediate, QaValidation, Acceptance, Stage, Commit,
           Finalize, UpdateIndexes
  <1>2. Evident(D, a, M)
    BY <1>1 DEF Sound, Evident, Evidence, Grows
  <1>3. Approved(r, D, H)
    BY DEF Sound, Approved, Answered
  <1>4. Explained(r, a, M, J)
    BY DEF Sound, Explained, Grows, EventTypes
  <1>5. r.rework <= Rejections(M)
    BY DEF Sound, Grows, State
  <1>6. QED
    BY <1>2, <1>3, <1>4, <1>5 DEF Sound

\* A step function that leaves its event leaves a state that is borne out.
LEMMA SoundWorks ==
  ASSUME NEW L \in Ledgers, NEW a \in Attempts, NEW e \in EventTypes, NEW G, NEW H,
         NEW k \in Steps, NEW s \in State, NEW t \in State, Effect(k, e, s, t),
         NEW K, Sound(s, 1..(k - 1), a, L, G, K), Answered(G, H),
         e \in {"plan_approved", "plan_approval_pending"} => s.approvalId \in DOMAIN H,
         e = "plan_approved" => H[s.approvalId] # "pending"
  PROVE  Sound(t, 1..(k - 1) \cup {k}, a, [L EXCEPT ![a][e] = @ + 1], H, K)
  <1> DEFINE M == [L EXCEPT ![a][e] = @ + 1]
             D == 1..(k - 1)
  <1>1. /\ M \in Ledgers /\ M[a][e] > 0
        /\ Rejections(L) \in Nat /\ Rejections(M) \in Nat
        /\ Grows(L, M)
        /\ e = "qa_review_rejected" => Rejections(M) = Rejections(L) + 1
    BY Emitted
  <1> HIDE DEF M
  <1>d. D \in SUBSET Steps
    BY DEF Steps
  <1>2. Sound(s, D, a, M, H, K)
    <2>1. Sound(s, D, a, L, G, K)
      OBVIOUS
    <2> HIDE DEF D
    <2>2. QED
      BY <2>1, <1>1, <1>d, SoundStays
  <1>e. /\ e \in {"plan_approved", "plan_approval_pending"} => k = PlanApproval
        /\ e \in StepEvents[k]
    BY DEF Effect, StepEvents, Steps, LoadManifest, Preflight, Hydrate, Plan,
           PlanApproval, Execute, Validate, Remediate, QaValidation, Acceptance, Stage, Commit,
           Finalize, UpdateIndexes
  <1>3. Evident(D \cup {k}, a, M)
    BY <1>1, <1>2, <1>e DEF Sound, Evident, Evidence
  <1>4. Approved(t, D \cup {k}, H)
    BY <1>2, <1>e DEF Sound, Approved, Effect
  <1>5. Validated(t, D \cup {k})
    <2>1. k = Validate => Execute \in D
      BY DEF Validate, Execute
    <2>2. k = Execute => Validate \notin D
      BY DEF Validate, Execute
    <2>3. Execute # Validate
      BY DEF Validate, Execute
    <2> HIDE DEF D
    <2>4. QED
      BY <1>2, <2>1, <2>2, <2>3 DEF Sound, Validated, Effect
  <1>6. Explained(t, a, M, K)
    <2>1. t.rework >= s.rework /\ s.rework \in Nat
      BY DEF Effect, State
    <2>2. Explained(s, a, M, K)
      BY <1>2 DEF Sound
    <2>3. t.denied = s.denied \/ t.denied
      BY DEF Effect
    <2>4. CASE t.status = s.status
      <3>1. t.status = "dead_letter" => \E max \in QaLimits : t.rework >= max
        <4>1. \A max \in QaLimits : s.rework >= max => t.rework >= max
          BY <2>1, BoundsAssumption DEF State
        <4>2. QED
          BY <4>1, <2>2, <2>4 DEF Explained
      <3>2. s.approval = "pending" => t.approval = "pending"
        <4>1. s.approval # "none" => PlanApproval \in D
          BY <1>2 DEF Sound, Approved
        <4>2. k \notin D
          BY DEF Steps
        <4>3. t.approval # s.approval => k = PlanApproval
          BY <1>e DEF Effect
        <4>4. QED
          BY <4>1, <4>2, <4>3
      <3>3. QED
        BY <2>2, <2>3, <2>4, <3>1, <3>2 DEF Explained
    <2>5. CASE t.status # s.status
      BY <1>1, <2>2, <2>5 DEF Effect, Explained
    <2>6. QED
      BY <2>4, <2>5
  <1>7. t.rework <= Rejections(M)
    <2>1. s.rework <= Rejections(L) /\ s.rework <= Rejections(M) /\ s.rework \in Nat
      BY <1>2 DEF Sound, State
    <2>2. QED
      BY <1>1, <2>1 DEF Effect
  <1>8. QED
    BY <1>3, <1>4, <1>5, <1>6, <1>7 DEF Sound, M

\* A dead letter has called a human.
Escalated(r, a, L) == r.status = "dead_letter" => L[a]["human_escalation_required"] > 0

\* The steps whose effects the state object of a call already shows.
Reached(c) == live[c].done \cup (IF pc[c] \in {"save", "escalate"} THEN {step[c]} ELSE {})

\* The attempts the API has cancelled, and those it will have when c is through.
Overruled == {a \in Attempts : cancels[a] > 0}
Excused(c) == Overruled \cup (IF pc[c] = "overrule" THEN {cur[c]} ELSE {})

SoundCall(c) ==
  pc[c] # "idle" =>
    /\ Sound(live[c], Reached(c), cur[c], ledger, gateway, Excused(c))
    /\ pc[c] # "escalate" => Escalated(live[c], cur[c], ledger)
    /\ pc[c] = "approved" => gateway[live[c].approvalId] # "pending"

\* Every checkpoint is borne out by the ledger and the gateway, and so is the
\* state object that will become the next one: that is what makes it inductive.
SoundInv ==
  /\ \A a \in Persisted : /\ Sound(store[a], store[a].done, a, ledger, gateway, Overruled)
                          /\ Escalated(store[a], a, ledger)
  /\ \A c \in Callers : SoundCall(c)

\* The ledger only grows, and an answered request stays answered.
LEMMA RecordsGrow ==
  ASSUME CallsInv, [Next]_vars
  PROVE  /\ ledger \in Ledgers /\ ledger' \in Ledgers
         /\ Rejections(ledger) \in Nat /\ Rejections(ledger') \in Nat
         /\ Grows(ledger, ledger') /\ Answered(gateway, gateway')
         /\ Overruled \subseteq Overruled'
  <1>t. TypeOK
    BY DEF CallsInv, PrefixInv, TypeInv
  <1>l. ledger \in Ledgers /\ gateway \in Gateways /\ Attempts # {}
    <2>1. 1 \in Attempts
      BY BoundsAssumption DEF Attempts
    <2>2. QED
      BY <1>t, <2>1 DEF TypeOK, Ledgers, Gateways
  <1>r. Rejections(ledger) \in Nat
    <2>1. PICK a \in Attempts : TRUE
      BY <1>l
    <2>2. "run_cancelled" \in EventTypes
      BY DEF EventTypes
    <2>3. QED
      BY <1>l, <2>1, <2>2, Emitted
  <1>1. \/ ledger' = ledger
        \/ \E c \in Callers, e \in EventTypes : Emit(c, e)
    <2>1. {"test_case_executed", "human_escalation_required", "run_cancelled"} \subseteq EventTypes
      BY DEF EventTypes
    <2>2. CASE Rests \/ Around
      BY <2>2 DEF Rests, Around
    <2>3. ASSUME NEW c \in Callers, Logs(c) \/ Cancels(c)
          PROVE  \E e \in EventTypes : Emit(c, e)
      BY <2>1, <2>3 DEF Logs, Cancels
    <2>4. ASSUME NEW c \in Callers, NEW e \in EventTypes, NEW t \in State, Leaves(c, e, t)
          PROVE  Emit(c, e)
      BY <2>4 DEF Leaves, Works
    <2>5. ASSUME NEW c \in Callers, \/ Requests(c) \/ Resolves(c) \/ Creates(c) \/ Saves(c)
                                    \/ Ends(c) \/ Confirms(c)
                                    \/ \E a \in Attempts, s \in State : Enters(c, a, s)
                                    \/ \E a \in Attempts : Overrules(c, a)
          PROVE  ledger' = ledger
      BY <2>5 DEF Requests, Resolves, Creates, Saves, Ends, Confirms, Enters, Overrules
    <2>6. QED
      BY <2>2, <2>3, <2>4, <2>5, NextViews
  <1>2. ledger' \in Ledgers /\ Rejections(ledger') \in Nat /\ Grows(ledger, ledger')
    <2>1. CASE ledger' = ledger
      BY <2>1, <1>l, <1>r DEF Grows
    <2>2. ASSUME NEW c \in Callers, NEW e \in EventTypes, Emit(c, e)
          PROVE  ledger' \in Ledgers /\ Rejections(ledger') \in Nat /\ Grows(ledger, ledger')
      <3>1. PICK a \in Attempts : a = cur[c]
        BY <1>t DEF TypeOK
      <3>2. ledger' = [ledger EXCEPT ![a][e] = @ + 1]
        BY <2>2, <3>1 DEF Emit
      <3>3. QED
        BY <3>2, <1>l, Emitted
    <2>3. QED
      BY <1>1, <2>1, <2>2
  <1>3. Answered(gateway, gateway')
    <2>1. CASE gateway' = gateway
      BY <2>1 DEF Answered
    <2>2. ASSUME NEW i, NEW v \in {"approved", "rejected"}, gateway' = [gateway EXCEPT ![i] = v]
          PROVE  Answered(gateway, gateway')
      BY <2>2, <1>l DEF Answered, Gateways
    <2>3. ASSUME NEW v \in {"approved", "pending"}, gateway' = Append(gateway, v)
          PROVE  Answered(gateway, gateway')
      BY <2>3, <1>l DEF Answered, Gateways
    <2>4. \/ gateway' = gateway
          \/ \E i, v : v \in {"approved", "rejected"} /\ gateway' = [gateway EXCEPT ![i] = v]
          \/ \E v \in {"approved", "pending"} : gateway' = Append(gateway, v)
      <3>1. CASE Rests \/ Around
        BY <3>1 DEF Rests, Around
      <3>2. ASSUME NEW c \in Callers, Requests(c)
            PROVE \E v \in {"approved", "pending"} : gateway' = Append(gateway, v)
        BY <3>2 DEF Requests
      <3>3. ASSUME NEW c \in Callers, Resolves(c)
            PROVE  \E i, v : v \in {"approved", "rejected"} /\ gateway' = [gateway EXCEPT ![i] = v]
        BY <3>3 DEF Resolves
      <3>4. ASSUME NEW c \in Callers, \/ Logs(c) \/ Cancels(c) \/ Creates(c) \/ Saves(c)
                                      \/ Ends(c) \/ Confirms(c)
                                      \/ \E e \in EventTypes, t \in State : Leaves(c, e, t)
                                      \/ \E a \in Attempts, s \in State : Enters(c, a, s)
                                      \/ \E a \in Attempts : Overrules(c, a)
            PROVE gateway' = gateway
        BY <3>4 DEF Logs, Cancels, Creates, Saves, Ends, Confirms, Leaves, Works, Enters, Overrules
      <3>5. QED
        BY <3>1, <3>2, <3>3, <3>4, NextViews
    <2>5. QED
      BY <2>1, <2>2, <2>3, <2>4
  <1>4. Overruled \subseteq Overruled'
    <2>1. ASSUME NEW c \in Callers, Confirms(c) PROVE Overruled \subseteq Overruled'
      <3>1. cancels' = [cancels EXCEPT ![cur[c]] = @ + 1] /\ cancels \in [Attempts -> Nat]
        BY <2>1, <1>t DEF Confirms, TypeOK
      <3>2. \A n \in Nat : n > 0 => n + 1 > 0
        OBVIOUS
      <3>3. QED
        BY <3>1, <3>2 DEF Overruled
    <2>2. ASSUME NEW c \in Callers, \/ Logs(c) \/ Requests(c) \/ Resolves(c) \/ Cancels(c)
                                    \/ Creates(c) \/ Saves(c) \/ Ends(c)
                                    \/ \E e \in EventTypes, t \in State : Leaves(c, e, t)
                                    \/ \E a \in Attempts, s \in State : Enters(c, a, s)
                                    \/ \E a \in Attempts : Overrules(c, a)
          PROVE cancels' = cancels
      BY <2>2 DEF Logs, Requests, Resolves, Cancels, Creates, Saves, Ends, Leaves, Enters,
                  Overrules, StaysIn
    <2>3. Rests \/ Around => cancels' = cancels
      BY DEF Rests, Around
    <2>4. QED
      BY <2>1, <2>2, <2>3, NextViews DEF Overruled
  <1>5. QED
    BY <1>l, <1>r, <1>2, <1>3, <1>4

\* A new state object has nothing to show, and a new attempt keeps the evidence
\* of the planning steps it keeps.
LEMMA NewSound ==
  ASSUME NEW L \in Ledgers, NEW G, NEW K, NEW a \in Attempts, NEW b \in Attempts,
         Rejections(L) \in Nat
  PROVE  /\ Sound(FreshState, FreshState.done, b, L, G, K) /\ Escalated(FreshState, b, L)
         /\ \A r \in State : Sound(r, r.done, a, L, G, K) /\ a < b =>
              /\ Sound(NewAttemptState(r), NewAttemptState(r).done, b, L, G, K)
              /\ Escalated(NewAttemptState(r), b, L)
  <1>1. /\ FreshState.done = {} /\ FreshState.approval = "none" /\ FreshState.status = "leased"
        /\ FreshState.rework = 0
    BY DEF FreshState
  <1>2. Sound(FreshState, FreshState.done, b, L, G, K) /\ Escalated(FreshState, b, L)
    BY <1>1 DEF Sound, Evident, Approved, Validated, Explained, Escalated
  <1>3. ASSUME NEW r \in State, Sound(r, r.done, a, L, G, K), a < b
        PROVE  /\ Sound(NewAttemptState(r), NewAttemptState(r).done, b, L, G, K)
               /\ Escalated(NewAttemptState(r), b, L)
    <2> DEFINE n == NewAttemptState(r)
    <2>1. /\ n.done = r.done \cap PlanningSteps /\ n.approval = "none"
          /\ n.status = "running" /\ n.rework = r.rework
      BY DEF NewAttemptState, FreshState
    <2> HIDE DEF n
    <2>2. Execute \notin PlanningSteps /\ Validate \notin PlanningSteps
      BY DEF PlanningSteps, Execute, Validate, LoadManifest, PlanApproval
    <2>3. ASSUME NEW k \in n.done PROVE Evidence(L, b, k)
      <3>1. k \in PlanningSteps /\ Evidence(L, a, k)
        BY <1>3, <2>1 DEF Sound, Evident
      <3>2. PICK x \in Attempts : (x = a \/ x < a) /\ \E e \in StepEvents[k] : L[x][e] > 0
        BY <3>1 DEF Evidence
      <3>3. x < b
        BY <1>3, <3>2 DEF Attempts
      <3>4. QED
        BY <3>1, <3>2, <3>3 DEF Evidence
    <2>4. QED
      BY <1>3, <2>1, <2>2, <2>3 DEF Sound, Evident, Approved, Validated, Explained, Escalated, n
  <1>4. QED
    BY <1>2, <1>3

\* Every step leaves checkpoints and calls borne out by the ledger and the gateway.
LEMMA SoundStep == CallsInv /\ SoundInv /\ [Next]_vars => SoundInv'
  <1> SUFFICES ASSUME CallsInv, SoundInv, [Next]_vars PROVE SoundInv'
    OBVIOUS
  <1> DEFINE StoreSound == \A a \in Persisted' :
               /\ Sound(store'[a], store'[a].done, a, ledger', gateway', Overruled')
               /\ Escalated(store'[a], a, ledger')
  <1>t. TypeOK /\ TypeOK'
    BY CallsStep DEF CallsInv, PrefixInv, TypeInv
  <1>g. /\ ledger \in Ledgers /\ ledger' \in Ledgers
        /\ Rejections(ledger) \in Nat /\ Rejections(ledger') \in Nat
        /\ Grows(ledger, ledger') /\ Answered(gateway, gateway')
        /\ Overruled \subseteq Overruled'
    BY RecordsGrow
  <1>e. \A r, a : a \in Attempts /\ Escalated(r, a, ledger) => Escalated(r, a, ledger')
    BY <1>g DEF Escalated, Grows, EventTypes
  <1>s. ASSUME NEW a \in Persisted
        PROVE  /\ Sound(store[a], store[a].done, a, ledger', gateway', Overruled')
               /\ Escalated(store[a], a, ledger')
    <2>1. store[a] \in State /\ store[a].done \in SUBSET Steps /\ a \in Attempts
      BY <1>t DEF Persisted, TypeOK, State
    <2>2. /\ Sound(store[a], store[a].done, a, ledger, gateway, Overruled)
          /\ Escalated(store[a], a, ledger)
      BY DEF SoundInv
    <2>3. QED
      BY <2>1, <2>2, <1>g, <1>e, SoundStays
  <1>c. ASSUME NEW d \in Callers, pc[d] # "idle"
        PROVE  /\ Sound(live[d], Reached(d), cur[d], ledger', gateway', Overruled' \cup Excused(d))
               /\ pc[d] # "overrule" =>
                    Sound(live[d], Reached(d), cur[d], ledger', gateway', Overruled')
               /\ pc[d] # "escalate" => Escalated(live[d], cur[d], ledger')
               /\ pc[d] = "approved" => gateway'[live[d].approvalId] # "pending"
    <2>1. live[d] \in State /\ Reached(d) \in SUBSET Steps /\ cur[d] \in Attempts
      BY <1>t DEF Reached, CallsInv, PrefixInv, TypeInv, WellPlaced, TypeOK, State
    <2>2. /\ Sound(live[d], Reached(d), cur[d], ledger, gateway, Excused(d))
          /\ pc[d] # "escalate" => Escalated(live[d], cur[d], ledger)
          /\ pc[d] = "approved" => gateway[live[d].approvalId] # "pending"
      BY <1>c DEF SoundInv, SoundCall
    <2>3. /\ Excused(d) \subseteq Overruled' \cup Excused(d)
          /\ pc[d] # "overrule" => Excused(d) \subseteq Overruled'
      BY <1>g DEF Excused
    <2>4. Sound(live[d], Reached(d), cur[d], ledger', gateway', Overruled' \cup Excused(d))
      BY <2>1, <2>2, <2>3, <1>g, SoundStays
    <2>5. pc[d] # "overrule" =>
            Sound(live[d], Reached(d), cur[d], ledger', gateway', Overruled')
      BY <2>1, <2>2, <2>3, <1>g, SoundStays
    <2>6. pc[d] = "approved" => gateway'[live[d].approvalId] # "pending"
      <3>1. pc[d] = "approved" => live[d].approvalId \in DOMAIN gateway
        BY <1>t DEF CallsInv, PrefixInv, TypeInv, WellPlaced, TypeOK
      <3>2. QED
        BY <2>2, <3>1, <1>g DEF Answered
    <2>7. QED
      BY <2>1, <2>2, <2>4, <2>5, <2>6, <1>e
  <1>k. ASSUME NEW d \in Callers, pc'[d] = pc[d], live'[d] = live[d], cur'[d] = cur[d],
               step'[d] = step[d]
        PROVE  SoundCall(d)'
    <2>1. Reached(d)' = Reached(d) /\ Excused(d)' = Overruled' \cup Excused(d)
      BY <1>k, <1>g DEF Reached, Excused
    <2>2. QED
      BY <1>c, <1>k, <2>1 DEF SoundCall
  <1>u. ASSUME store' = store PROVE StoreSound
    BY <1>s, <1>u DEF Persisted
  <1>o. ASSUME NEW c \in Callers, OthersStay(c), SoundCall(c)', StoreSound PROVE SoundInv'
    <2>1. ASSUME NEW d \in Callers \ {c} PROVE SoundCall(d)'
      BY <1>o, <1>k DEF OthersStay
    <2>2. QED
      BY <1>o, <2>1 DEF SoundInv
  <1>f. ASSUME NEW c \in Callers, pc'[c] \notin {"idle", "overrule"},
               Sound(live'[c], Reached(c)', cur'[c], ledger', gateway', Overruled'),
               pc'[c] # "escalate" => Escalated(live'[c], cur'[c], ledger'),
               pc'[c] = "approved" => gateway'[live'[c].approvalId] # "pending"
        PROVE  SoundCall(c)'
    <2>1. Excused(c)' = Overruled'
      BY <1>f DEF Excused
    <2>2. QED
      BY <1>f, <2>1 DEF SoundCall
  <1> HIDE DEF StoreSound
  <1>1. CASE Rests
    <2>1. ASSUME NEW d \in Callers PROVE SoundCall(d)'
      <3>1. CASE pc'[d] = pc[d] /\ step'[d] = step[d]
        BY <1>1, <3>1, <1>k DEF Rests
      <3>2. CASE pc[d] = "loop" /\ pc'[d] \in {"loop", "qa"}
        <4>1. /\ live'[d] = live[d] /\ cur'[d] = cur[d]
              /\ Reached(d)' = Reached(d)
          BY <1>1, <3>2 DEF Rests, Reached
        <4>2. QED
          BY <1>c, <1>f, <3>2, <4>1
      <3>3. QED
        BY <1>1, <3>1, <3>2 DEF Rests
    <2>2. StoreSound
      BY <1>1, <1>u DEF Rests
    <2>3. QED
      BY <2>1, <2>2 DEF SoundInv, StoreSound
  <1>2. CASE Around
    <2>1. ASSUME NEW d \in Callers PROVE SoundCall(d)'
      BY <1>2, <1>k DEF Around
    <2>2. StoreSound
      <3>1. CASE store' = store
        BY <3>1, <1>u
      <3>2. ASSUME NEW a \in Attempts, NEW b \in Attempts, store[a] # NoState, store[b] = NoState,
                   \A x \in Attempts : x < b => store[x] # NoState,
                   store' = [store EXCEPT ![b] = NewAttemptState(store[a])]
            PROVE  StoreSound
        <4>1. a \in Persisted /\ store[a] \in State
          BY <3>2, <1>t DEF Persisted, TypeOK
        <4>2. a < b
          <5>1. b \notin Persisted /\ a # b
            BY <3>2 DEF Persisted
          <5>2. ~(b < a)
            BY <4>1, <5>1 DEF CallsInv
          <5>3. QED
            BY <5>1, <5>2 DEF Attempts
        <4>3. /\ Sound(NewAttemptState(store[a]), NewAttemptState(store[a]).done, b, ledger', gateway', Overruled')
              /\ Escalated(NewAttemptState(store[a]), b, ledger')
          BY <4>1, <4>2, <1>s, <1>g, NewSound
        <4>4. \A x \in Attempts : x # b => store'[x] = store[x]
          BY <3>2, <1>t DEF TypeOK
        <4>5. store'[b] = NewAttemptState(store[a])
          BY <3>2, <1>t DEF TypeOK
        <4>6. QED
          BY <4>3, <4>4, <4>5, <1>s DEF StoreSound, Persisted
      <3>3. QED
        BY <1>2, <3>1, <3>2 DEF Around
    <2>3. QED
      BY <2>1, <2>2 DEF SoundInv, StoreSound
  <1>3. ASSUME NEW c \in Callers, Logs(c) PROVE SoundInv'
    <2>1. /\ live'[c] = live[c] /\ cur'[c] = cur[c] /\ pc[c] \notin {"idle", "overrule"}
          /\ pc'[c] \in {"qa", "save"}
          /\ Reached(c)' = Reached(c) /\ OthersStay(c) /\ store' = store
      BY <1>3 DEF Logs, StaysIn, Reached
    <2>2. Escalated(live[c], cur[c], ledger')
      <3>1. CASE pc[c] = "escalate"
        <4>1. PICK a \in Attempts : a = cur[c]
          BY <1>t DEF TypeOK
        <4>2. ledger' = [ledger EXCEPT ![a]["human_escalation_required"] = @ + 1]
          BY <1>3, <3>1, <4>1 DEF Logs, Emit
        <4>3. ledger'[a]["human_escalation_required"] > 0
          BY <4>2, <1>g, Emitted DEF EventTypes
        <4>4. QED
          BY <4>1, <4>3 DEF Escalated
      <3>2. CASE pc[c] # "escalate"
        BY <3>2, <2>1, <1>c
      <3>3. QED
        BY <3>1, <3>2
    <2>3. SoundCall(c)'
      BY <2>1, <2>2, <1>c, <1>f
    <2>4. QED
      BY <2>1, <2>3, <1>u, <1>o
  <1>4. ASSUME NEW c \in Callers, Requests(c) PROVE SoundInv'
    <2> DEFINE t == [live[c] EXCEPT !.approvalId = Len(gateway) + 1]
    <2>1. /\ live'[c] = t /\ cur'[c] = cur[c] /\ pc[c] = "loop" /\ pc'[c] = "plan"
          /\ OthersStay(c) /\ store' = store /\ live[c].done = 1..(PlanApproval - 1)
      BY <1>4 DEF Requests, StaysIn
    <2>2. /\ t.done = live[c].done /\ t.status = live[c].status /\ t.rework = live[c].rework
          /\ t.approval = live[c].approval /\ t.outputs = live[c].outputs
          /\ t.validation = live[c].validation /\ t.denied = live[c].denied
      BY <1>t DEF TypeOK, State
    <2> HIDE DEF t
    <2>3. Reached(c)' = live[c].done /\ Reached(c) = live[c].done
      BY <2>1, <2>2 DEF Reached
    <2>4. /\ Sound(live[c], live[c].done, cur[c], ledger', gateway', Overruled')
          /\ Escalated(live[c], cur[c], ledger')
      BY <2>1, <2>3, <1>c
    <2>5. PlanApproval \notin live[c].done
      BY <2>1 DEF PlanApproval
    <2>6. Sound(t, live[c].done, cur[c], ledger', gateway', Overruled') /\ Escalated(t, cur[c], ledger')
      BY <2>2, <2>4, <2>5 DEF Sound, Approved, Validated, Explained, Escalated
    <2>7. SoundCall(c)'
      BY <2>1, <2>3, <2>6, <1>f
    <2>8. QED
      BY <2>1, <2>7, <1>u, <1>o
  <1>5. ASSUME NEW c \in Callers, Cancels(c) PROVE SoundInv'
    <2> DEFINE t == [live[c] EXCEPT !.status = "cancelled"]
    <2>1. /\ live'[c] = t /\ cur'[c] = cur[c] /\ pc[c] = "loop" /\ pc'[c] = "cancel"
          /\ OthersStay(c) /\ store' = store
      BY <1>5 DEF Cancels, StaysIn
    <2>2. /\ t.done = live[c].done /\ t.status = "cancelled" /\ t.rework = live[c].rework
          /\ t.approval = live[c].approval /\ t.outputs = live[c].outputs
          /\ t.validation = live[c].validation /\ t.approvalId = live[c].approvalId
      BY <1>t DEF TypeOK, State
    <2> HIDE DEF t
    <2>3. Reached(c)' = live[c].done /\ Reached(c) = live[c].done
      BY <2>1, <2>2 DEF Reached
    <2>4. Sound(live[c], live[c].done, cur[c], ledger', gateway', Overruled')
      BY <2>1, <2>3, <1>c
    <2>5. ledger'[cur[c]]["run_cancelled"] > 0
      <3>1. PICK a \in Attempts : a = cur[c]
        BY <1>t DEF TypeOK
      <3>2. ledger' = [ledger EXCEPT ![a]["run_cancelled"] = @ + 1]
        BY <1>5, <3>1 DEF Cancels, Emit
      <3>3. QED
        BY <3>1, <3>2, <1>g, Emitted DEF EventTypes
    <2>6. Sound(t, live[c].done, cur[c], ledger', gateway', Overruled') /\ Escalated(t, cur[c], ledger')
      BY <2>2, <2>4, <2>5 DEF Sound, Approved, Validated, Explained, Escalated
    <2>7. SoundCall(c)'
      BY <2>1, <2>3, <2>6, <1>f
    <2>8. QED
      BY <2>1, <2>7, <1>u, <1>o
  <1>6. ASSUME NEW c \in Callers, Saves(c) PROVE SoundInv'
    <2> DEFINE t == live'[c]
    <2>1. /\ cur'[c] = cur[c] /\ pc[c] \in {"cancel", "save"} /\ pc'[c] \in {"return", "loop"}
          /\ OthersStay(c) /\ store' = [store EXCEPT ![cur[c]] = t] /\ cur[c] \in Attempts
      BY <1>6, <1>t DEF Saves, StaysIn, TypeOK
    <2>2. /\ t.done = Reached(c) /\ t.status = live[c].status /\ t.rework = live[c].rework
          /\ t.approval = live[c].approval /\ t.outputs = live[c].outputs
          /\ t.validation = live[c].validation /\ t.approvalId = live[c].approvalId
          /\ t.denied = live[c].denied
      <3>1. live[c] \in State
        BY <1>t DEF TypeOK
      <3>2. CASE pc[c] = "cancel"
        BY <1>6, <3>2 DEF Saves, Reached
      <3>3. CASE pc[c] = "save"
        <4>1. t = [live[c] EXCEPT !.done = @ \cup {step[c]}]
          BY <1>6, <3>3 DEF Saves
        <4>2. QED
          BY <3>1, <3>3, <4>1 DEF Reached, State
      <3>4. QED
        BY <2>1, <3>2, <3>3
    <2> HIDE DEF t
    <2>3. Reached(c)' = t.done
      BY <2>1 DEF Reached, t
    <2>4. /\ Sound(live[c], Reached(c), cur[c], ledger', gateway', Overruled')
          /\ Escalated(live[c], cur[c], ledger')
      BY <2>1, <1>c
    <2>5. Sound(t, t.done, cur[c], ledger', gateway', Overruled') /\ Escalated(t, cur[c], ledger')
      BY <2>2, <2>4 DEF Sound, Approved, Validated, Explained, Escalated
    <2>6. SoundCall(c)'
      BY <2>1, <2>3, <2>5, <1>f DEF t
    <2>7. StoreSound
      <3>1. \A x \in Attempts : x # cur[c] => store'[x] = store[x]
        BY <2>1, <1>t DEF TypeOK
      <3>2. store'[cur[c]] = t
        BY <2>1, <1>t DEF TypeOK
      <3>3. QED
        BY <2>5, <3>1, <3>2, <1>s DEF StoreSound, Persisted
    <2>8. QED
      BY <2>1, <2>6, <2>7, <1>o
  <1>7. ASSUME NEW c \in Callers, NEW e \in EventTypes, NEW t \in State, Leaves(c, e, t)
        PROVE  SoundInv'
    <2>1. /\ live'[c] = t /\ cur'[c] = cur[c] /\ step'[c] = step[c]
          /\ pc[c] \in {"loop", "plan", "approved", "qa"} /\ pc'[c] \in {"escalate", "save"}
          /\ OthersStay(c) /\ store' = store
          /\ step[c] \in Steps /\ live[c].done = 1..(step[c] - 1) /\ live[c] \in State
      BY <1>7, <1>t DEF Leaves, Works, StaysIn, TypeOK
    <2>2. PICK a \in Attempts, k \in Steps, s \in State : a = cur[c] /\ k = step[c] /\ s = live[c]
      BY <2>1, <1>t DEF TypeOK
    <2>3. Effect(k, e, s, t) /\ ledger' = [ledger EXCEPT ![a][e] = @ + 1]
      BY <1>7, <2>2 DEF Leaves, Works, Emit
    <2>4. Sound(s, 1..(k - 1), a, ledger, gateway, Overruled) /\ Escalated(s, a, ledger)
      BY <2>1, <2>2 DEF SoundInv, SoundCall, Excused, Reached
    <2>5. /\ e \in {"plan_approved", "plan_approval_pending"} => s.approvalId \in DOMAIN gateway'
          /\ e = "plan_approved" => gateway'[s.approvalId] # "pending"
      <3>1. e \in {"plan_approved", "plan_approval_pending"} => s.approvalId \in 1..Len(gateway)
        BY <1>7, <2>2 DEF Leaves, Works, CallsInv, PrefixInv, TypeInv, WellPlaced
      <3>2. gateway \in Gateways
        BY <1>t DEF TypeOK, Gateways
      <3>3. e = "plan_approved" => pc[c] = "approved"
        BY <1>7 DEF Leaves, Works
      <3>4. gateway' = gateway
        BY <1>7 DEF Leaves, Works
      <3>5. e = "plan_approved" => gateway[s.approvalId] # "pending"
        BY <3>3, <2>2 DEF SoundInv, SoundCall
      <3>6. QED
        BY <3>1, <3>2, <3>4, <3>5 DEF Gateways
    <2>6. Sound(t, 1..(k - 1) \cup {k}, a, ledger', gateway', Overruled')
      <3>1. Overruled' = Overruled
        BY <1>7 DEF Leaves, StaysIn, Overruled
      <3>2. QED
        BY <2>3, <2>4, <2>5, <3>1, <1>g, SoundWorks
    <2>7. Reached(c)' = 1..(k - 1) \cup {k}
      <3>1. t.done = s.done
        BY <2>3 DEF Effect
      <3>2. QED
        BY <2>1, <2>2, <3>1 DEF Reached
    <2>8. pc'[c] # "escalate" => Escalated(t, a, ledger')
      <3>1. pc'[c] # "escalate" => ~(e = "qa_review_rejected" /\ t.status = "dead_letter")
        BY <1>7 DEF Leaves
      <3>2. Escalated(s, a, ledger')
        BY <2>4, <1>e
      <3>3. pc'[c] # "escalate" /\ t.status = "dead_letter" => s.status = "dead_letter"
        BY <2>3, <3>1 DEF Effect
      <3>4. QED
        BY <3>2, <3>3 DEF Escalated
    <2>9. SoundCall(c)'
      BY <2>1, <2>2, <2>6, <2>7, <2>8, <1>f
    <2>10. QED
      BY <2>1, <2>9, <1>u, <1>o
  <1>8. ASSUME NEW c \in Callers, Ends(c) PROVE SoundInv'
    <2>1. pc'[c] = "idle" /\ OthersStay(c) /\ store' = store
      BY <1>8 DEF Ends
    <2>2. SoundCall(c)'
      BY <2>1 DEF SoundCall
    <2>3. QED
      BY <2>1, <2>2, <1>u, <1>o
  <1>9. ASSUME NEW c \in Callers, NEW a \in Attempts, NEW s \in State, Enters(c, a, s)
        PROVE  SoundInv'
    <2>1. /\ live'[c] = s /\ cur'[c] = a /\ pc'[c] \in {"create", "loop"} /\ OthersStay(c)
          /\ store' = store
      BY <1>9 DEF Enters
    <2>2. Reached(c)' = s.done
      BY <2>1 DEF Reached
    <2>3. Sound(s, s.done, a, ledger', gateway', Overruled') /\ Escalated(s, a, ledger')
      <3>1. CASE s = FreshState
        BY <3>1, <1>g, NewSound
      <3>2. CASE store[a] # NoState /\ s = ResetIfCancelled(store[a])
        <4>1. store[a] \in State /\ a \in Persisted
          BY <3>2, <1>t DEF TypeOK, Persisted
        <4>2. /\ Sound(store[a], store[a].done, a, ledger', gateway', Overruled')
              /\ Escalated(store[a], a, ledger')
          BY <4>1, <1>s
        <4>3. /\ s.done = store[a].done /\ s.approval = store[a].approval
              /\ s.approvalId = store[a].approvalId /\ s.outputs = store[a].outputs
              /\ s.validation = store[a].validation /\ s.rework = store[a].rework
              /\ s.denied = store[a].denied
              /\ s.status = store[a].status \/ s.status = "running"
          BY <3>2, <4>1 DEF ResetIfCancelled, Reopened, State
        <4>4. QED
          BY <4>2, <4>3 DEF Sound, Approved, Validated, Explained, Escalated
      <3>3. QED
        BY <1>9, <3>1, <3>2 DEF Enters
    <2>4. SoundCall(c)'
      BY <2>1, <2>2, <2>3, <1>f
    <2>5. QED
      BY <2>1, <2>4, <1>u, <1>o
  <1>10. ASSUME NEW c \in Callers, Resolves(c) PROVE SoundInv'
    <2>1. /\ live'[c] = live[c] /\ cur'[c] = cur[c] /\ pc[c] = "plan" /\ pc'[c] = "approved"
          /\ Reached(c)' = Reached(c) /\ OthersStay(c) /\ store' = store
      BY <1>10 DEF Resolves, StaysIn, Reached
    <2>2. gateway'[live[c].approvalId] # "pending"
      <3>1. live[c].approvalId \in 1..Len(gateway) /\ gateway \in Gateways
        BY <2>1, <1>t DEF CallsInv, PrefixInv, TypeInv, WellPlaced, TypeOK, Gateways
      <3>2. QED
        BY <1>10, <3>1 DEF Resolves, Gateways
    <2>3. SoundCall(c)'
      BY <2>1, <2>2, <1>c, <1>f
    <2>4. QED
      BY <2>1, <2>3, <1>u, <1>o
  <1>x. ASSUME NEW a \in Attempts, NEW t, store' = [store EXCEPT ![a] = t],
               Sound(t, t.done, a, ledger', gateway', Overruled'), Escalated(t, a, ledger')
        PROVE  StoreSound
    <2>1. store'[a] = t /\ \A x \in Attempts : x # a => store'[x] = store[x]
      BY <1>x, <1>t DEF TypeOK
    <2>2. QED
      BY <1>x, <2>1, <1>s DEF StoreSound, Persisted
  <1>11. ASSUME NEW c \in Callers, Creates(c) PROVE SoundInv'
    <2>1. /\ live'[c] = live[c] /\ cur'[c] = cur[c] /\ pc[c] = "create" /\ pc'[c] = "loop"
          /\ Reached(c)' = live[c].done /\ Reached(c) = live[c].done
          /\ OthersStay(c) /\ store' = [store EXCEPT ![cur[c]] = live[c]]
      BY <1>11 DEF Creates, StaysIn, Reached
    <2>2. /\ Sound(live[c], live[c].done, cur[c], ledger', gateway', Overruled')
          /\ Escalated(live[c], cur[c], ledger')
      BY <2>1, <1>c
    <2>3. SoundCall(c)'
      BY <2>1, <2>2, <1>f
    <2>4. StoreSound
      BY <2>1, <2>2, <1>t, <1>x DEF TypeOK
    <2>5. QED
      BY <2>1, <2>3, <2>4, <1>o
  <1>12. ASSUME NEW c \in Callers, NEW a \in Attempts, Overrules(c, a) PROVE SoundInv'
    <2> DEFINE t == [store[a] EXCEPT !.status = "cancelled"]
    <2>1. /\ live'[c] = t /\ cur'[c] = a /\ pc'[c] = "overrule" /\ OthersStay(c)
          /\ store' = store /\ a \in Persisted /\ store[a] \in State
      BY <1>12, <1>t DEF Overrules, Persisted, TypeOK
    <2>2. /\ t.done = store[a].done /\ t.status = "cancelled" /\ t.rework = store[a].rework
          /\ t.approval = store[a].approval /\ t.outputs = store[a].outputs
          /\ t.validation = store[a].validation /\ t.approvalId = store[a].approvalId
      BY <2>1 DEF State
    <2> HIDE DEF t
    <2>3. Reached(c)' = t.done /\ a \in Excused(c)'
      BY <2>1 DEF Reached, Excused
    <2>4. Sound(store[a], store[a].done, a, ledger', gateway', Overruled')
      BY <2>1, <1>s
    <2>5. Sound(t, t.done, a, ledger', gateway', Excused(c)') /\ Escalated(t, a, ledger')
      BY <2>2, <2>3, <2>4 DEF Sound, Approved, Validated, Explained, Escalated
    <2>6. SoundCall(c)'
      BY <2>1, <2>3, <2>5 DEF SoundCall
    <2>7. QED
      BY <2>1, <2>6, <1>u, <1>o
  <1>13. ASSUME NEW c \in Callers, Confirms(c) PROVE SoundInv'
    <2>1. /\ pc[c] = "overrule" /\ pc'[c] = "idle" /\ OthersStay(c)
          /\ store' = [store EXCEPT ![cur[c]] = live[c]] /\ cur[c] \in Attempts
          /\ cancels' = [cancels EXCEPT ![cur[c]] = @ + 1] /\ cancels \in [Attempts -> Nat]
          /\ Reached(c) = live[c].done
      BY <1>13, <1>t DEF Confirms, TypeOK, Reached
    <2>2. Overruled' \cup Excused(c) = Overruled'
      <3>1. cur[c] \in Overruled' /\ Overruled \subseteq Overruled'
        BY <2>1, <1>g DEF Overruled
      <3>2. QED
        BY <2>1, <3>1 DEF Excused
    <2>3. /\ Sound(live[c], live[c].done, cur[c], ledger', gateway', Overruled')
          /\ Escalated(live[c], cur[c], ledger')
      BY <2>1, <2>2, <1>c
    <2>4. StoreSound
      BY <2>1, <2>3, <1>x
    <2>5. SoundCall(c)'
      BY <2>1 DEF SoundCall
    <2>6. QED
      BY <2>1, <2>4, <2>5, <1>o
  <1>14. QED
    BY <1>1, <1>2, <1>3, <1>4, <1>5, <1>6, <1>7, <1>8, <1>9, <1>10, <1>11, <1>12, <1>13, NextViews

\* Before the first call nothing has to be borne out.
LEMMA SoundInit == Init => SoundInv
  <1> SUFFICES ASSUME Init PROVE SoundInv
    OBVIOUS
  <1>1. Persisted = {}
    BY DEF Init, Persisted
  <1>2. QED
    BY <1>1 DEF Init, SoundInv, SoundCall

\* Checkpoints and calls are borne out by the ledger and the gateway in every state.
LEMMA RecordsSound == Spec => [](CallsInv /\ SoundInv)
  BY CallsInit, CallsStep, SoundInit, SoundStep, PTL DEF Spec

\* A step a checkpoint calls completed has left its event, whatever crashed,
\* was cancelled or ran at the same time between the event and the save.
THEOREM CompletionsAreLogged == Spec => []CompletedStepsHaveEvents
  <1>1. SoundInv => CompletedStepsHaveEvents
    BY DEF SoundInv, Sound, Evident, Evidence, CompletedStepsHaveEvents
  <1>2. QED
    BY <1>1, RecordsSound, PTL

\* Whatever status that ends or suspends a run a checkpoint has, cancelled and
\* waiting for a human among them, its events or a confirmed API cancel explain
\* it, also when calls and API cancels overwrite each other's checkpoints.
THEOREM StatusesAreExplained == Spec => []PersistedStatusIsExplained
  <1>1. SoundInv => PersistedStatusIsExplained
    BY DEF SoundInv, Sound, Explained, Escalated, Overruled, PersistedStatusIsExplained
  <1>2. QED
    BY <1>1, RecordsSound, PTL

\* The rework count of a checkpoint, carried from attempt to attempt, never
\* exceeds the rejections the ledger holds.
THEOREM ReworkIsBacked == Spec => []ReworkNeverOvercounts
  <1>1. IsFiniteSet(Attempts)
    BY BoundsAssumption, FS_Interval DEF Attempts
  <1>2. MapThenSumSet(LAMBDA b : ledger[b]["qa_review_rejected"], Attempts) = Rejections(ledger)
    BY <1>1, ColumnSum DEF Rejections, Tally
  <1>3. SoundInv => ReworkNeverOvercounts
    BY <1>2 DEF SoundInv, Sound, ReworkNeverOvercounts
  <1>4. QED
    BY <1>3, RecordsSound, PTL

\* The validator's verdict is about the outputs of its own attempt, however the
\* attempt was interrupted between the crews and the validation.
THEOREM VerdictsSeeOutputs == Spec => []ValidationSeesOutputs
  <1>1. CallsInv /\ SoundInv => ValidationSeesOutputs
    <2> SUFFICES ASSUME CallsInv, SoundInv, NEW a \in Persisted, Validate \in store[a].done
                 PROVE  /\ store[a].outputs
                        /\ store[a].validation = IF OutputsDeclared THEN "passed" ELSE "failed"
      BY DEF ValidationSeesOutputs
    <2>1. IsPrefix(store[a].done) /\ Validated(store[a], store[a].done)
      BY DEF CallsInv, PrefixInv, SoundInv, Sound
    <2>2. Execute \in store[a].done
      BY <2>1 DEF IsPrefix, Execute, Validate
    <2>3. QED
      BY <2>1, <2>2 DEF Validated
  <1>2. QED
    BY <1>1, RecordsSound, PTL

\* A plan approval on a checkpoint names a request of the gateway, which
\* somebody has answered if the checkpoint says so.
THEOREM ApprovalsAreBacked == Spec => []ApprovalRecordsAreBacked
  <1>1. SoundInv => ApprovalRecordsAreBacked
    BY DEF SoundInv, Sound, Approved, ApprovalRecordsAreBacked
  <1>2. QED
    BY <1>1, RecordsSound, PTL

-----------------------------------------------------------------------------
(* Dead letters in the metrics                                             *)

\* The calls that have made their run a dead letter, called a human for it, and
\* will count it when they return.
Uncounted ==
  {c \in Callers : /\ pc[c] \notin {"idle", "escalate"}
                   /\ live[c].status = "dead_letter"
                   /\ ~wasTerminal[c]}

Escalations == Tally(ledger, "human_escalation_required")

\* DeadLetterCountedOnce is not inductive: a dead letter is counted only when
\* its call returns, so those about to be counted are counted here already.
CountInv ==
  /\ IsFiniteSet(Uncounted)
  /\ metrics["dead_letter"] + Cardinality(Uncounted) <= Escalations

\* Which calls are about to count a dead letter, and the escalations, after a step.
LEMMA UncountedMoves ==
  ASSUME CallsInv, [Next]_vars
  PROVE  \/ /\ Uncounted' \subseteq Uncounted
            /\ metrics'["dead_letter"] = metrics["dead_letter"]
            /\ \/ ledger' = ledger
               \/ \E a \in Attempts, e \in EventTypes : ledger' = [ledger EXCEPT ![a][e] = @ + 1]
         \/ /\ \E c \in Callers : Uncounted' \subseteq Uncounted \cup {c}
            /\ metrics' = metrics
            /\ \E a \in Attempts :
                 ledger' = [ledger EXCEPT ![a]["human_escalation_required"] = @ + 1]
         \/ /\ \E c \in Uncounted : Uncounted' = Uncounted \ {c}
            /\ metrics'["dead_letter"] = metrics["dead_letter"] + 1
            /\ ledger' = ledger
  <1> DEFINE Still == /\ Uncounted' \subseteq Uncounted
                      /\ metrics'["dead_letter"] = metrics["dead_letter"]
                      /\ \/ ledger' = ledger
                         \/ \E a \in Attempts, e \in EventTypes :
                              ledger' = [ledger EXCEPT ![a][e] = @ + 1]
             Called == /\ \E c \in Callers : Uncounted' \subseteq Uncounted \cup {c}
                       /\ metrics' = metrics
                       /\ \E a \in Attempts :
                            ledger' = [ledger EXCEPT ![a]["human_escalation_required"] = @ + 1]
             Counted == /\ \E c \in Uncounted : Uncounted' = Uncounted \ {c}
                        /\ metrics'["dead_letter"] = metrics["dead_letter"] + 1
                        /\ ledger' = ledger
  <1> SUFFICES Still \/ Called \/ Counted
    OBVIOUS
  <1>t. TypeOK
    BY DEF CallsInv, PrefixInv, TypeInv
  <1>1. Rests => Still
    BY DEF Rests, Uncounted
  <1>2. Around => Still
    BY DEF Around, Uncounted
  <1>3. ASSUME NEW c \in Callers, Logs(c), pc[c] = "escalate"
        PROVE  /\ Uncounted' \subseteq Uncounted \cup {c} /\ metrics' = metrics
               /\ \E a \in Attempts :
                    ledger' = [ledger EXCEPT ![a]["human_escalation_required"] = @ + 1]
    BY <1>3, <1>t DEF Logs, StaysIn, OthersStay, Emit, Uncounted, TypeOK
  <1>4. ASSUME NEW c \in Callers, Logs(c), pc[c] # "escalate"
        PROVE  /\ Uncounted' \subseteq Uncounted /\ metrics' = metrics
               /\ \E a \in Attempts :
                    ledger' = [ledger EXCEPT ![a]["test_case_executed"] = @ + 1]
    BY <1>4, <1>t DEF Logs, StaysIn, OthersStay, Emit, Uncounted, TypeOK
  <1>5. ASSUME NEW c \in Callers, Requests(c)
        PROVE  Uncounted' \subseteq Uncounted /\ metrics' = metrics /\ ledger' = ledger
    <2>1. live'[c].status = live[c].status
      BY <1>5, <1>t DEF Requests, TypeOK, State
    <2>2. QED
      BY <1>5, <2>1 DEF Requests, StaysIn, OthersStay, Uncounted
  <1>6. ASSUME NEW c \in Callers, Cancels(c)
        PROVE  /\ Uncounted' \subseteq Uncounted /\ metrics' = metrics
               /\ \E a \in Attempts : ledger' = [ledger EXCEPT ![a]["run_cancelled"] = @ + 1]
    <2>1. live'[c].status = "cancelled"
      BY <1>6, <1>t DEF Cancels, TypeOK, State
    <2>2. QED
      BY <1>6, <2>1, <1>t DEF Cancels, StaysIn, OthersStay, Emit, Uncounted, TypeOK
  <1>7. ASSUME NEW c \in Callers, Saves(c)
        PROVE  Uncounted' \subseteq Uncounted /\ metrics' = metrics /\ ledger' = ledger
    <2>1. live'[c].status = live[c].status
      BY <1>7, <1>t DEF Saves, TypeOK, State
    <2>2. QED
      BY <1>7, <2>1 DEF Saves, StaysIn, OthersStay, Uncounted
  <1>8. ASSUME NEW c \in Callers, NEW e \in EventTypes, NEW t \in State, Leaves(c, e, t)
        PROVE  /\ Uncounted' \subseteq Uncounted /\ metrics' = metrics
               /\ \E a \in Attempts : ledger' = [ledger EXCEPT ![a][e] = @ + 1]
    <2>1. live'[c].status = "dead_letter" /\ pc'[c] # "escalate"
            => live[c].status = "dead_letter"
      BY <1>8 DEF Leaves, Works, Effect
    <2>2. QED
      BY <1>8, <2>1, <1>t DEF Leaves, Works, StaysIn, OthersStay, Emit, Uncounted, TypeOK
  <1>9. ASSUME NEW c \in Callers, Ends(c)
        PROVE  /\ Uncounted' = Uncounted \ {c}
               /\ ledger' = ledger
               /\ \/ metrics'["dead_letter"] = metrics["dead_letter"]
                  \/ metrics'["dead_letter"] = metrics["dead_letter"] + 1 /\ c \in Uncounted
    <2>1. Uncounted' = Uncounted \ {c} /\ ledger' = ledger
      BY <1>9 DEF Ends, OthersStay, Uncounted
    <2>2. CASE metrics' = metrics
      BY <2>1, <2>2
    <2>3. ASSUME NEW s \in TerminalStatuses, s = live[c].status, pc[c] # "escalate",
                 ~wasTerminal[c], metrics' = [metrics EXCEPT ![s] = @ + 1]
          PROVE  \/ metrics'["dead_letter"] = metrics["dead_letter"]
                 \/ metrics'["dead_letter"] = metrics["dead_letter"] + 1 /\ c \in Uncounted
      BY <1>9, <2>3, <1>t DEF Ends, Uncounted, TypeOK, TerminalStatuses
    <2>4. QED
      BY <1>9, <2>1, <2>2, <2>3 DEF Ends
  <1>10. ASSUME NEW c \in Callers, NEW a \in Attempts, NEW s \in State, Enters(c, a, s)
         PROVE  Uncounted' \subseteq Uncounted /\ metrics' = metrics /\ ledger' = ledger
    BY <1>10 DEF Enters, OthersStay, Uncounted, TerminalStatuses
  <1>11. {"test_case_executed", "run_cancelled"} \subseteq EventTypes
    BY DEF EventTypes
  <1>12. ASSUME NEW c \in Callers, Resolves(c) \/ Creates(c)
         PROVE  Uncounted' \subseteq Uncounted /\ metrics' = metrics /\ ledger' = ledger
    <2>1. CASE Resolves(c)
      BY <2>1 DEF Resolves, StaysIn, OthersStay, Uncounted
    <2>2. CASE Creates(c)
      BY <2>2 DEF Creates, StaysIn, OthersStay, Uncounted
    <2>3. QED
      BY <1>12, <2>1, <2>2
  <1>13. ASSUME NEW c \in Callers, NEW a \in Attempts, Overrules(c, a)
         PROVE  Uncounted' \subseteq Uncounted /\ metrics' = metrics /\ ledger' = ledger
    <2>1. live'[c].status = "cancelled"
      BY <1>13, <1>t DEF Overrules, TypeOK, State
    <2>2. QED
      BY <1>13, <2>1 DEF Overrules, OthersStay, Uncounted
  <1>14. ASSUME NEW c \in Callers, Confirms(c)
         PROVE  Uncounted' \subseteq Uncounted /\ metrics' = metrics /\ ledger' = ledger
    BY <1>14 DEF Confirms, OthersStay, Uncounted
  <1>15. Rests \/ Around => Still
    BY <1>1, <1>2
  <1>16. ASSUME NEW c \in Callers, Logs(c) \/ Cancels(c)
         PROVE  Still \/ Called
    <2>1. CASE Logs(c) /\ pc[c] = "escalate"
      BY <2>1, <1>3
    <2>2. CASE Logs(c) /\ pc[c] # "escalate"
      BY <2>2, <1>4, <1>11
    <2>3. CASE Cancels(c)
      BY <2>3, <1>6, <1>11
    <2>4. QED
      BY <1>16, <2>1, <2>2, <2>3
  <1>17. ASSUME NEW c \in Callers, Requests(c) \/ Resolves(c) \/ Creates(c) \/ Saves(c) \/ Confirms(c)
         PROVE  Still
    BY <1>17, <1>5, <1>7, <1>12, <1>14
  <1>18. ASSUME NEW c \in Callers, Ends(c)
         PROVE  Still \/ Counted
    BY <1>18, <1>9
  <1>19. ASSUME NEW c \in Callers, NEW e \in EventTypes, NEW t \in State, Leaves(c, e, t)
         PROVE  Still
    BY <1>19, <1>8
  <1>20. ASSUME NEW c \in Callers, NEW a \in Attempts,
                (\E s \in State : Enters(c, a, s)) \/ Overrules(c, a)
         PROVE  Still
    BY <1>20, <1>10, <1>13
  <1> HIDE DEF Still, Called, Counted
  <1>21. QED
    BY <1>15, <1>16, <1>17, <1>18, <1>19, <1>20, NextViews

\* Every step counts at most the dead letters a human was called for.
LEMMA CountStep == CallsInv /\ CountInv /\ [Next]_vars => CountInv'
  <1> SUFFICES ASSUME CallsInv, CountInv, [Next]_vars PROVE CountInv'
    OBVIOUS
  <1> DEFINE n == Cardinality(Uncounted)
             m == Cardinality(Uncounted')
             v == "human_escalation_required"
  <1>t. TypeOK /\ TypeOK'
    BY CallsStep DEF CallsInv, PrefixInv, TypeInv
  <1>v. v \in EventTypes
    BY DEF EventTypes
  <1>l. ledger \in Ledgers /\ \E a \in Attempts : TRUE
    <2>1. 1 \in Attempts
      BY BoundsAssumption DEF Attempts
    <2>2. QED
      BY <1>t, <2>1 DEF TypeOK, Ledgers
  <1>e. Tally(ledger, v) \in Nat
    BY <1>l, <1>v, TallyEmitted
  <1>k. metrics["dead_letter"] \in Nat /\ n \in Nat
    BY <1>t, FS_CardinalityType DEF TypeOK, TerminalStatuses, CountInv
  <1>g. metrics["dead_letter"] + n <= Tally(ledger, v)
    BY DEF CountInv, Escalations
  <1>1. ASSUME Uncounted' \subseteq Uncounted, metrics'["dead_letter"] = metrics["dead_letter"],
               \/ ledger' = ledger
               \/ \E a \in Attempts, e \in EventTypes : ledger' = [ledger EXCEPT ![a][e] = @ + 1]
        PROVE  CountInv'
    <2>1. IsFiniteSet(Uncounted') /\ m <= n /\ m \in Nat
      BY <1>1, FS_Subset, FS_CardinalityType DEF CountInv
    <2>2. Tally(ledger', v) \in Nat /\ Tally(ledger', v) >= Tally(ledger, v)
      <3>1. CASE ledger' = ledger
        BY <3>1, <1>e
      <3>2. ASSUME NEW a \in Attempts, NEW e \in EventTypes,
                   ledger' = [ledger EXCEPT ![a][e] = @ + 1]
            PROVE  Tally(ledger', v) \in Nat /\ Tally(ledger', v) >= Tally(ledger, v)
        <4>1. /\ Tally(ledger', v) \in Nat
              /\ Tally(ledger', v) = IF e = v THEN Tally(ledger, v) + 1 ELSE Tally(ledger, v)
          <5> DEFINE M == [ledger EXCEPT ![a][e] = @ + 1]
          <5>1. /\ Tally(M, v) \in Nat
                /\ Tally(M, v) = IF e = v THEN Tally(ledger, v) + 1 ELSE Tally(ledger, v)
            BY <1>l, <1>v, TallyEmitted
          <5>2. ledger' = M
            BY <3>2
          <5> HIDE DEF M
          <5>3. QED
            BY <5>1, <5>2
        <4>2. QED
          BY <4>1, <1>e
      <3>3. QED
        BY <1>1, <3>1, <3>2
    <2>3. \A d, i, j, x, y \in Nat : d + i <= x /\ j <= i /\ y >= x => d + j <= y
      OBVIOUS
    <2>4. metrics["dead_letter"] + m <= Tally(ledger', v)
      BY <2>1, <2>2, <2>3, <1>e, <1>g, <1>k
    <2>5. QED
      BY <1>1, <2>1, <2>4 DEF CountInv, Escalations
  <1>2. ASSUME NEW c \in Callers, Uncounted' \subseteq Uncounted \cup {c}, metrics' = metrics,
               NEW a \in Attempts, ledger' = [ledger EXCEPT ![a][v] = @ + 1]
        PROVE  CountInv'
    <2>1. IsFiniteSet(Uncounted \cup {c}) /\ Cardinality(Uncounted \cup {c}) \in {n, n + 1}
      BY FS_AddElement DEF CountInv
    <2>2. IsFiniteSet(Uncounted') /\ m <= Cardinality(Uncounted \cup {c}) /\ m \in Nat
      BY <1>2, <2>1, FS_Subset, FS_CardinalityType
    <2>3. m <= n + 1
      BY <2>1, <2>2, <1>k
    <2>4. Tally(ledger', v) = Tally(ledger, v) + 1
      BY <1>2, <1>l, <1>v, TallyEmitted
    <2>5. \A d, i, j, x \in Nat : d + i <= x /\ j <= i + 1 => d + j <= x + 1
      OBVIOUS
    <2>6. metrics["dead_letter"] + m <= Tally(ledger', v)
      BY <2>2, <2>3, <2>4, <2>5, <1>e, <1>g, <1>k
    <2>7. QED
      BY <1>2, <2>2, <2>6 DEF CountInv, Escalations
  <1>3. ASSUME NEW c \in Uncounted, Uncounted' = Uncounted \ {c},
               metrics'["dead_letter"] = metrics["dead_letter"] + 1, ledger' = ledger
        PROVE  CountInv'
    <2>1. IsFiniteSet(Uncounted') /\ m = n - 1
      BY <1>3, FS_RemoveElement DEF CountInv
    <2>2. \A d, i, x \in Nat : d + i <= x => (d + 1) + (i - 1) <= x
      OBVIOUS
    <2>3. (metrics["dead_letter"] + 1) + (n - 1) <= Tally(ledger, v)
      BY <2>2, <1>e, <1>g, <1>k
    <2>4. QED
      BY <1>3, <2>1, <2>3 DEF CountInv, Escalations
  <1>4. QED
    BY <1>1, <1>2, <1>3, UncountedMoves

\* Before the first call nothing is counted.
LEMMA CountInit == Init => CountInv
  <1> SUFFICES ASSUME Init PROVE CountInv
    OBVIOUS
  <1>1. Uncounted = {}
    BY DEF Init, Uncounted
  <1>2. metrics["dead_letter"] = 0
    BY DEF Init, TerminalStatuses
  <1>3. ledger \in Ledgers /\ 1 \in Attempts /\ "human_escalation_required" \in EventTypes
    BY BoundsAssumption DEF Init, Ledgers, Attempts, EventTypes
  <1>4. Escalations \in Nat
    BY <1>3, TallyEmitted DEF Escalations
  <1>5. IsFiniteSet(Uncounted) /\ Cardinality(Uncounted) = 0
    BY <1>1, FS_EmptySet
  <1>6. QED
    BY <1>2, <1>4, <1>5 DEF CountInv

\* However many callers enter, cancel or leave a dead letter at once, the
\* metrics count it at most once for every human it has called.
THEOREM DeadLettersAreCounted == Spec => []DeadLetterCountedOnce
  <1>1. IsFiniteSet(Attempts)
    BY BoundsAssumption, FS_Interval DEF Attempts
  <1>2. MapThenSumSet(LAMBDA a : ledger[a]["human_escalation_required"], Attempts) = Escalations
    BY <1>1, ColumnSum DEF Escalations, Tally
  <1>3. CallsInv /\ CountInv => DeadLetterCountedOnce
    <2> SUFFICES ASSUME CallsInv, CountInv PROVE metrics["dead_letter"] <= Escalations
      BY <1>2 DEF DeadLetterCountedOnce
    <2>1. metrics["dead_letter"] \in Nat /\ Cardinality(Uncounted) \in Nat
      BY FS_CardinalityType DEF CallsInv, PrefixInv, TypeInv, TypeOK, TerminalStatuses, CountInv
    <2>2. ledger \in Ledgers /\ 1 \in Attempts /\ "human_escalation_required" \in EventTypes
      <3>1. ledger \in Ledgers
        BY DEF CallsInv, PrefixInv, TypeInv, TypeOK, Ledgers
      <3>2. 1 \in Attempts /\ "human_escalation_required" \in EventTypes
        BY BoundsAssumption DEF Attempts, EventTypes
      <3>3. QED
        BY <3>1, <3>2
    <2>3. Escalations \in Nat
      BY <2>2, TallyEmitted DEF Escalations
    <2>4. QED
      BY <2>1, <2>3 DEF CountInv
  <1>4. QED
    BY <1>3, CallsInit, CallsStep, CountInit, CountStep, PTL DEF Spec

-----------------------------------------------------------------------------
(* The first call of an attempt                                            *)

\* What stops the first call: a denial, or a plan approval that is pending.
Held(r) == r.denied = TRUE \/ r.approval = "pending"

CrewsRan(L, a)  == L[a]["bounded_crew_executed"] > 0
QaRejected(L, a) == L[a]["qa_review_rejected"] > 0
AcceptanceAsked(L, a) == \E e \in StepEvents[Acceptance] : L[a][e] > 0

\* The only call attempt a has had, with state object r, at p, having reached
\* the steps D; q is the checkpoint.  A call that is held, or whose work was
\* rejected, is on its way out.
OnlyCall(r, p, D, a, q, L) ==
  /\ CrewsRan(L, a) => Execute \in D
  /\ AcceptanceAsked(L, a) => Acceptance \in D
  /\ Held(r) => /\ ~CrewsRan(L, a)
                /\ p \in {"save", "return"} /\ r.status \in EarlyExitStatuses
  /\ QaRejected(L, a) => /\ ~AcceptanceAsked(L, a)
                         /\ p \in {"escalate", "save", "return"}
                         /\ r.status \in {"rejected", "dead_letter"}
  /\ q # NoState /\ Held(q) => Held(r)

\* A call of the flow is under way; an API cancel is none.
InCall(c) == pc[c] \notin {"idle", "overrule"}

\* Of an attempt that has had one call at most, the copy an API cancel is about
\* to save is held only if crews have not run and the call, if it goes on, is held.
CopyKept(d) ==
  pc[d] = "overrule" =>
    /\ entries[cur[d]] = 0 => ~Held(live[d])
    /\ entries[cur[d]] = 1 /\ Held(live[d]) =>
         /\ ~CrewsRan(ledger, cur[d])
         /\ \A c \in Callers : InCall(c) /\ cur[c] = cur[d] => Held(live[c])

\* FirstCallHonoursGates is about what the ledger and the checkpoint say once
\* the call may be over; while it runs, where it stands and what it holds in
\* memory must agree with them.  An attempt nobody has called has a clean record.
FirstInv ==
  /\ \A a \in Attempts : entries[a] = 0 =>
       /\ \A e \in EventTypes : ledger[a][e] = 0
       /\ \A c \in Callers : ~InCall(c) \/ cur[c] # a
       /\ a \in Persisted => ~Held(store[a])
  /\ \A a \in Attempts : entries[a] = 1 =>
       \A c, d \in Callers : InCall(c) /\ InCall(d) /\ cur[c] = a /\ cur[d] = a => c = d
  /\ \A a \in Persisted : entries[a] <= 1 /\ Held(store[a]) => ~CrewsRan(ledger, a)
  /\ \A a \in Attempts : entries[a] <= 1 /\ QaRejected(ledger, a) => ~AcceptanceAsked(ledger, a)
  /\ \A c \in Callers : InCall(c) /\ entries[cur[c]] = 1 =>
       OnlyCall(live[c], pc[c], Reached(c), cur[c], store[cur[c]], ledger)
  /\ \A d \in Callers : CopyKept(d)

\* The steps whose events the gates are about.
LEMMA GateEvents ==
  /\ StepEvents[Acceptance] = {"acceptance_skipped", "acceptance_granted", "acceptance_pending"}
  /\ \A k \in Steps : /\ "bounded_crew_executed" \in StepEvents[k] => k = Execute
                      /\ "qa_review_rejected" \in StepEvents[k] => k = QaValidation
                      /\ StepEvents[k] \cap StepEvents[Acceptance] # {} => k = Acceptance
                      /\ "policy_decision_recorded" \in StepEvents[k] => k = Preflight
                      /\ "plan_approval_pending" \in StepEvents[k] => k = PlanApproval
                      /\ StepEvents[k] \subseteq EventTypes
  BY DEF StepEvents, EventTypes, Steps, LoadManifest, Preflight, Hydrate, Plan, PlanApproval,
         Execute, Validate, Remediate, QaValidation, Acceptance, Stage, Commit, Finalize,
         UpdateIndexes

\* The events of an attempt that its gates are judged by.
GateLooks == {"bounded_crew_executed", "qa_review_rejected", "acceptance_skipped",
              "acceptance_granted", "acceptance_pending"}

\* Other events do not change what the gates show.
LEMMA GatesSee ==
  ASSUME NEW L, NEW M, NEW a, \A x \in GateLooks : M[a][x] = L[a][x]
  PROVE  /\ CrewsRan(M, a) = CrewsRan(L, a)
         /\ QaRejected(M, a) = QaRejected(L, a)
         /\ AcceptanceAsked(M, a) = AcceptanceAsked(L, a)
  <1>1. \A x \in {"bounded_crew_executed", "qa_review_rejected"} : M[a][x] = L[a][x]
    BY DEF GateLooks
  <1>2. \A x \in StepEvents[Acceptance] : M[a][x] = L[a][x]
    BY GateEvents DEF GateLooks
  <1>3. QED
    BY <1>1, <1>2 DEF CrewsRan, QaRejected, AcceptanceAsked

\* Where a step function runs, and where its call goes from there.
InStep(p)      == p \in {"loop", "plan", "approved", "qa"}
Leaving(p, e)  == p = "save" \/ (p = "escalate" /\ e = "qa_review_rejected")
Logged(L, M, a, e) == M = [L EXCEPT ![a][e] = @ + 1]

\* A step function of the only call keeps to the gates.
LEMMA OnlyCallWorks ==
  ASSUME NEW L \in Ledgers, NEW a \in Attempts, NEW e \in EventTypes, NEW k \in Steps,
         NEW s \in State, NEW t \in State, NEW p, NEW q, NEW p1, NEW M,
         InStep(p), Leaving(p1, e), Logged(L, M, a, e),
         Effect(k, e, s, t), OnlyCall(s, p, 1..(k - 1), a, q, L)
  PROVE  OnlyCall(t, p1, 1..(k - 1) \cup {k}, a, q, M)
  <1> DEFINE D == 1..(k - 1)
  <1>1. \A x \in EventTypes : x # e => M[a][x] = L[a][x]
    BY DEF Ledgers, Logged
  <1>2. ~Held(s) /\ (q # NoState => ~Held(q)) /\ ~QaRejected(L, a)
    BY DEF OnlyCall, InStep
  <1>3. /\ StepEvents[Acceptance] = {"acceptance_skipped", "acceptance_granted", "acceptance_pending"}
        /\ e = "bounded_crew_executed" => k = Execute
        /\ e = "qa_review_rejected" => k = QaValidation
        /\ e \in StepEvents[Acceptance] => k = Acceptance
        /\ e = "plan_approval_pending" => k = PlanApproval
    BY GateEvents DEF Effect
  <1>4. /\ k = QaValidation => Acceptance \notin D
        /\ k = Preflight \/ k = PlanApproval => Execute \notin D
        /\ Execute # Preflight /\ Execute # PlanApproval /\ Acceptance # QaValidation
        /\ Execute # QaValidation
    BY DEF Execute, Preflight, PlanApproval, Acceptance, QaValidation
  <1>5. (CrewsRan(L, a) => Execute \in D) /\ (AcceptanceAsked(L, a) => Acceptance \in D)
    BY DEF OnlyCall
  <1> HIDE DEF D
  <1>6. /\ CrewsRan(M, a) => CrewsRan(L, a) \/ e = "bounded_crew_executed"
        /\ QaRejected(M, a) => e = "qa_review_rejected"
        /\ AcceptanceAsked(M, a) => AcceptanceAsked(L, a) \/ e \in StepEvents[Acceptance]
    BY <1>1, <1>2, <1>3 DEF CrewsRan, QaRejected, AcceptanceAsked, EventTypes
  <1>7. Held(t) => /\ k = Preflight \/ k = PlanApproval
                   /\ t.status \in EarlyExitStatuses
                   /\ e # "bounded_crew_executed" /\ e # "qa_review_rejected"
    BY <1>2, <1>3, <1>4 DEF Held, Effect, EarlyExitStatuses, Preflight, QaValidation
  <1>8. e = "qa_review_rejected" => /\ t.status \in {"rejected", "dead_letter"}
                                    /\ e \notin StepEvents[Acceptance]
    BY <1>3 DEF Effect
  <1>9. QED
    BY <1>2, <1>3, <1>4, <1>5, <1>6, <1>7, <1>8 DEF OnlyCall, Leaving, D

\* A step in which caller c, in a call before and after or in a call it ends,
\* does nothing to attempts other than its own.
LEMMA FirstKept ==
  ASSUME CallsInv, CallsInv', FirstInv, entries' = entries, NEW c \in Callers, OthersStay(c),
         InCall(c), pc'[c] # "overrule", InCall(c)' => cur'[c] = cur[c],
         \A x \in Attempts : x # cur[c] => store'[x] = store[x] /\ ledger'[x] = ledger[x],
         pc'[c] = "idle" => ledger' = ledger,
         entries[cur[c]] = 1 =>
           /\ store'[cur[c]] # NoState /\ Held(store'[cur[c]]) => ~CrewsRan(ledger', cur[c])
           /\ QaRejected(ledger', cur[c]) => ~AcceptanceAsked(ledger', cur[c])
           /\ InCall(c)' =>
                /\ OnlyCall(live'[c], pc'[c], Reached(c)', cur[c], store'[cur[c]], ledger')
                /\ Held(live[c]) => Held(live'[c])
  PROVE  FirstInv'
  <1>t. /\ \A d \in Callers : cur[d] \in Attempts /\ cur'[d] \in Attempts
        /\ entries \in [Attempts -> Nat]
    BY BoundsAssumption DEF CallsInv, PrefixInv, TypeInv, TypeOK
  <1>0. entries[cur[c]] # 0
    BY <1>t DEF FirstInv
  <1>1. ASSUME NEW a \in Attempts, entries[a] = 0
        PROVE  /\ \A e \in EventTypes : ledger'[a][e] = 0
               /\ \A d \in Callers : ~InCall(d)' \/ cur'[d] # a
               /\ a \in Persisted' => ~Held(store'[a])
    <2>1. a # cur[c]
      BY <1>0, <1>1
    <2>2. \A d \in Callers : ~InCall(d)' \/ (InCall(d) /\ cur'[d] = cur[d])
      BY DEF OthersStay, InCall
    <2>3. QED
      BY <1>1, <2>1, <2>2, <1>t DEF FirstInv, Persisted
  <1>2. ASSUME NEW a \in Attempts, entries[a] = 1, NEW d \in Callers, NEW b \in Callers,
               InCall(d)', InCall(b)', cur'[d] = a, cur'[b] = a
        PROVE  d = b
    BY <1>2 DEF FirstInv, OthersStay, InCall
  <1>3. ASSUME NEW a \in Persisted', entries[a] <= 1, Held(store'[a])
        PROVE  ~CrewsRan(ledger', a)
    <2>1. CASE a = cur[c]
      BY <1>0, <1>3, <1>t, <2>1 DEF Persisted
    <2>2. CASE a # cur[c]
      BY <1>3, <2>2 DEF FirstInv, Persisted, CrewsRan
    <2>3. QED
      BY <2>1, <2>2
  <1>4. ASSUME NEW a \in Attempts, entries[a] <= 1, QaRejected(ledger', a)
        PROVE  ~AcceptanceAsked(ledger', a)
    <2>1. CASE a = cur[c]
      BY <1>0, <1>4, <1>t, <2>1
    <2>2. CASE a # cur[c]
      BY <1>4, <2>2 DEF FirstInv, QaRejected, AcceptanceAsked
    <2>3. QED
      BY <2>1, <2>2
  <1>5. ASSUME NEW d \in Callers, InCall(d)', entries[cur'[d]] = 1
        PROVE  OnlyCall(live'[d], pc'[d], Reached(d)', cur'[d], store'[cur'[d]], ledger')
    <2>1. CASE d = c
      BY <1>5, <2>1
    <2>2. CASE d # c
      <3>1. /\ pc'[d] = pc[d] /\ cur'[d] = cur[d] /\ live'[d] = live[d] /\ step'[d] = step[d]
            /\ InCall(d)
        BY <1>5, <2>2 DEF OthersStay, InCall
      <3>2. Reached(d)' = Reached(d)
        BY <3>1 DEF Reached
      <3>3. cur[d] # cur[c]
        BY <1>5, <2>2, <3>1, <1>t DEF FirstInv
      <3>4. store'[cur[d]] = store[cur[d]] /\ ledger'[cur[d]] = ledger[cur[d]]
        BY <3>3, <1>t
      <3>5. OnlyCall(live[d], pc[d], Reached(d), cur[d], store[cur[d]], ledger)
        BY <1>5, <3>1 DEF FirstInv
      <3>6. QED
        BY <3>1, <3>2, <3>4, <3>5 DEF OnlyCall, CrewsRan, QaRejected, AcceptanceAsked
    <2>3. QED
      BY <2>1, <2>2
  <1>6. ASSUME NEW d \in Callers, pc'[d] = "overrule"
        PROVE  CopyKept(d)'
    <2>1. /\ d # c /\ pc[d] = "overrule" /\ cur'[d] = cur[d] /\ live'[d] = live[d]
          /\ CopyKept(d)
      BY <1>6 DEF OthersStay, FirstInv
    <2>2. \A b \in Callers : InCall(b)' /\ b # c =>
            InCall(b) /\ cur'[b] = cur[b] /\ live'[b] = live[b]
      BY DEF OthersStay, InCall
    <2>3. CASE cur[d] # cur[c]
      <3>1. CrewsRan(ledger', cur[d]) = CrewsRan(ledger, cur[d])
        BY <2>3, <1>t DEF CrewsRan
      <3>2. QED
        BY <2>1, <2>2, <2>3, <3>1 DEF CopyKept
    <2>4. CASE cur[d] = cur[c]
      <3>1. ASSUME entries[cur[c]] = 1, Held(live[d])
            PROVE  /\ ~CrewsRan(ledger', cur[c])
                   /\ InCall(c)' => Held(live'[c])
        <4>1. ~CrewsRan(ledger, cur[c]) /\ Held(live[c])
          BY <2>1, <2>4, <3>1 DEF CopyKept
        <4>2. CASE pc'[c] = "idle"
          BY <4>1, <4>2 DEF InCall
        <4>3. CASE InCall(c)'
          BY <3>1, <4>1, <4>3 DEF OnlyCall
        <4>4. QED
          BY <4>2, <4>3 DEF InCall
      <3>2. QED
        BY <1>0, <2>1, <2>2, <2>4, <3>1 DEF CopyKept
    <2>5. QED
      BY <2>3, <2>4
  <1>7. QED
    BY <1>1, <1>2, <1>3, <1>4, <1>5, <1>6 DEF FirstInv, CopyKept

\* A step in which caller c, in no call of the flow before or after, copies a
\* checkpoint, saves a copy or gives it up.
LEMMA FirstCopied ==
  ASSUME CallsInv, FirstInv, ledger' = ledger, entries' = entries, NEW c \in Callers,
         OthersStay(c), ~InCall(c), ~InCall(c)', CopyKept(c)',
         \A x \in Attempts : store'[x] # store[x] =>
           /\ entries[x] = 0 => ~Held(store'[x])
           /\ entries[x] = 1 /\ Held(store'[x]) =>
                /\ ~CrewsRan(ledger, x)
                /\ \A d \in Callers : InCall(d) /\ cur[d] = x => Held(live[d])
  PROVE  FirstInv'
  <1>t. /\ \A d \in Callers : cur[d] \in Attempts
        /\ entries \in [Attempts -> Nat]
    BY BoundsAssumption DEF CallsInv, PrefixInv, TypeInv, TypeOK
  <1>n. \A n \in Nat : n <= 1 => n = 0 \/ n = 1
    OBVIOUS
  <1>1. \A d \in Callers : /\ InCall(d)' = InCall(d)
                           /\ InCall(d) => /\ cur'[d] = cur[d] /\ live'[d] = live[d]
                                           /\ pc'[d] = pc[d] /\ Reached(d)' = Reached(d)
    <2>1. ASSUME NEW d \in Callers \ {c}
          PROVE  /\ InCall(d)' = InCall(d) /\ cur'[d] = cur[d] /\ live'[d] = live[d]
                 /\ pc'[d] = pc[d] /\ Reached(d)' = Reached(d)
      BY DEF OthersStay, InCall, Reached
    <2>2. InCall(c)' = InCall(c)
      BY DEF InCall
    <2>3. QED
      BY <2>1, <2>2
  <1>2. ASSUME NEW a \in Attempts, entries[a] = 0
        PROVE  /\ \A e \in EventTypes : ledger[a][e] = 0
               /\ \A d \in Callers : ~InCall(d)' \/ cur'[d] # a
               /\ a \in Persisted' => ~Held(store'[a])
    BY <1>1, <1>2 DEF FirstInv, Persisted
  <1>3. ASSUME NEW a \in Persisted', entries[a] <= 1, Held(store'[a])
        PROVE  ~CrewsRan(ledger, a)
    <2>1. a \in Attempts /\ (entries[a] = 0 \/ entries[a] = 1)
      BY <1>3, <1>t, <1>n DEF Persisted
    <2>2. QED
      BY <1>3, <2>1 DEF FirstInv, Persisted
  <1>4. ASSUME NEW d \in Callers, InCall(d), entries[cur[d]] = 1
        PROVE  OnlyCall(live[d], pc[d], Reached(d), cur[d], store'[cur[d]], ledger)
    <2>1. OnlyCall(live[d], pc[d], Reached(d), cur[d], store[cur[d]], ledger)
      BY <1>4 DEF FirstInv
    <2>2. CASE store'[cur[d]] = store[cur[d]]
      BY <2>1, <2>2
    <2>3. CASE store'[cur[d]] # store[cur[d]]
      <3>1. Held(store'[cur[d]]) => Held(live[d])
        BY <1>4, <2>3, <1>t
      <3>2. QED
        BY <2>1, <3>1 DEF OnlyCall
    <2>4. QED
      BY <2>2, <2>3
  <1>5. ASSUME NEW d \in Callers PROVE CopyKept(d)'
    <2>1. CASE d = c
      BY <2>1
    <2>2. CASE d # c
      <3>1. pc'[d] = pc[d] /\ cur'[d] = cur[d] /\ live'[d] = live[d] /\ CopyKept(d)
        BY <2>2 DEF OthersStay, FirstInv
      <3>2. QED
        BY <1>1, <3>1 DEF CopyKept
    <2>3. QED
      BY <2>1, <2>2
  <1>6. \A a \in Attempts : entries[a] = 1 =>
          \A d, b \in Callers : InCall(d)' /\ InCall(b)' /\ cur'[d] = a /\ cur'[b] = a => d = b
    BY <1>1 DEF FirstInv
  <1>7. \A d \in Callers : InCall(d)' /\ entries[cur'[d]] = 1 =>
          OnlyCall(live'[d], pc'[d], Reached(d)', cur'[d], store'[cur'[d]], ledger)
    BY <1>1, <1>4
  <1>8. \A a \in Attempts : entries[a] <= 1 /\ QaRejected(ledger, a) => ~AcceptanceAsked(ledger, a)
    BY DEF FirstInv
  <1>9. QED
    BY <1>2, <1>3, <1>5, <1>6, <1>7, <1>8 DEF FirstInv

\* Every step keeps the only call of an attempt to its gates.
LEMMA FirstStep == CallsInv /\ FirstInv /\ [Next]_vars => FirstInv'
  <1> SUFFICES ASSUME CallsInv, FirstInv, [Next]_vars PROVE FirstInv'
    OBVIOUS
  <1>p. CallsInv'
    BY CallsStep
  <1>t. /\ TypeOK /\ ledger \in Ledgers /\ entries \in [Attempts -> Nat]
        /\ \A d \in Callers : cur[d] \in Attempts /\ live[d] \in State
    BY BoundsAssumption DEF CallsInv, PrefixInv, TypeInv, TypeOK, Ledgers
  <1>i. ASSUME NEW d \in Callers, InCall(d), entries[cur[d]] = 1
        PROVE  OnlyCall(live[d], pc[d], Reached(d), cur[d], store[cur[d]], ledger)
    BY <1>i DEF FirstInv
  <1>q. ASSUME NEW d \in Callers, InCall(d), entries[cur[d]] = 1
        PROVE  /\ store[cur[d]] # NoState /\ Held(store[cur[d]]) => ~CrewsRan(ledger, cur[d])
               /\ QaRejected(ledger, cur[d]) => ~AcceptanceAsked(ledger, cur[d])
    BY <1>q, <1>t DEF FirstInv, Persisted
  <1>m. ASSUME NEW c \in Callers, NEW e \in EventTypes, Emit(c, e)
        PROVE  /\ \A x \in Attempts : x # cur[c] => ledger'[x] = ledger[x]
               /\ \A x \in EventTypes : x # e => ledger'[cur[c]][x] = ledger[cur[c]][x]
    BY <1>m, <1>t DEF Emit, Ledgers
  <1>1. CASE Rests
    <2>1. ASSUME NEW d \in Callers, InCall(d)', entries'[cur'[d]] = 1
          PROVE  OnlyCall(live'[d], pc'[d], Reached(d)', cur'[d], store'[cur'[d]], ledger')
      <3>1. /\ live'[d] = live[d] /\ cur'[d] = cur[d] /\ store' = store /\ ledger' = ledger
            /\ InCall(d) /\ entries[cur[d]] = 1 /\ Reached(d)' = Reached(d)
            /\ pc'[d] # pc[d] => pc[d] \notin {"escalate", "save", "return"}
        BY <1>1, <2>1 DEF Rests, Reached, InCall
      <3>2. OnlyCall(live[d], pc[d], Reached(d), cur[d], store[cur[d]], ledger)
        BY <3>1, <1>i
      <3>3. QED
        BY <3>1, <3>2 DEF OnlyCall
    <2>2. \A d \in Callers : /\ InCall(d)' = InCall(d)
                             /\ (pc'[d] = "overrule") = (pc[d] = "overrule")
      BY <1>1 DEF Rests, InCall
    <2>3. UNCHANGED <<store, ledger, entries, cur, live>>
      BY <1>1 DEF Rests
    <2>4. \A d \in Callers : CopyKept(d)'
      BY <2>2, <2>3 DEF CopyKept, FirstInv
    <2>5. QED
      BY <2>1, <2>2, <2>3, <2>4 DEF FirstInv, Persisted
  <1>2. CASE Around
    <2>1. /\ UNCHANGED <<ledger, entries, pc, cur, live>>
          /\ \A d \in Callers : Reached(d)' = Reached(d)
      BY <1>2 DEF Around, Reached
    <2>2. \A a \in Persisted' : (a \in Persisted /\ store'[a] = store[a]) \/ ~Held(store'[a])
      <3>1. ASSUME NEW r PROVE ~Held(NewAttemptState(r))
        BY DEF Held, NewAttemptState, FreshState
      <3>2. QED
        BY <1>2, <1>t, <3>1 DEF Around, Persisted, TypeOK
    <2>3. \A d \in Callers : InCall(d)' = InCall(d) /\ CopyKept(d)'
      BY <2>1 DEF InCall, CopyKept, FirstInv
    <2>4. ASSUME NEW d \in Callers, InCall(d)', entries'[cur'[d]] = 1
          PROVE  OnlyCall(live'[d], pc'[d], Reached(d)', cur'[d], store'[cur'[d]], ledger')
      <3>1. OnlyCall(live[d], pc[d], Reached(d), cur[d], store[cur[d]], ledger)
        BY <2>1, <2>3, <2>4, <1>i
      <3>2. store'[cur[d]] # NoState /\ Held(store'[cur[d]]) =>
              store[cur[d]] # NoState /\ Held(store[cur[d]])
        BY <2>2, <1>t DEF Persisted
      <3>3. QED
        BY <2>1, <3>1, <3>2 DEF OnlyCall
    <2>5. QED
      BY <2>1, <2>2, <2>3, <2>4 DEF FirstInv
  <1>3. ASSUME NEW c \in Callers, Logs(c) PROVE FirstInv'
    <2>1. /\ OthersStay(c) /\ InCall(c) /\ cur'[c] = cur[c] /\ store' = store
          /\ entries' = entries /\ live'[c] = live[c] /\ Reached(c)' = Reached(c)
          /\ pc'[c] # pc[c] => pc[c] = "escalate" /\ pc'[c] = "save"
          /\ pc'[c] \notin {"idle", "overrule"}
      BY <1>3 DEF Logs, StaysIn, Reached, InCall
    <2>2. /\ \A x \in Attempts : x # cur[c] => ledger'[x] = ledger[x]
          /\ CrewsRan(ledger', cur[c]) = CrewsRan(ledger, cur[c])
          /\ QaRejected(ledger', cur[c]) = QaRejected(ledger, cur[c])
          /\ AcceptanceAsked(ledger', cur[c]) = AcceptanceAsked(ledger, cur[c])
      <3>1. PICK e \in {"test_case_executed", "human_escalation_required"} : Emit(c, e)
        BY <1>3 DEF Logs
      <3>2. e \in EventTypes /\ \A x \in GateLooks : x \in EventTypes /\ x # e
        BY DEF EventTypes, GateLooks
      <3>3. \A x \in GateLooks : ledger'[cur[c]][x] = ledger[cur[c]][x]
        BY <3>1, <3>2, <1>m
      <3>4. QED
        BY <3>1, <3>2, <3>3, <1>m, GatesSee
    <2>3. ASSUME entries[cur[c]] = 1
          PROVE  OnlyCall(live'[c], pc'[c], Reached(c)', cur[c], store'[cur[c]], ledger')
      <3>1. OnlyCall(live[c], pc[c], Reached(c), cur[c], store[cur[c]], ledger)
        BY <2>1, <2>3, <1>i
      <3>2. QED
        BY <3>1, <2>1, <2>2 DEF OnlyCall
    <2>4. QED
      BY <2>1, <2>2, <2>3, <1>q, <1>p, FirstKept
  <1>4. ASSUME NEW c \in Callers, Requests(c) PROVE FirstInv'
    <2>1. /\ OthersStay(c) /\ pc[c] = "loop" /\ cur'[c] = cur[c] /\ store' = store
          /\ entries' = entries /\ ledger' = ledger /\ pc'[c] = "plan" /\ InCall(c)
      BY <1>4 DEF Requests, StaysIn, InCall
    <2>2. /\ Held(live'[c]) = Held(live[c]) /\ live'[c].status = live[c].status
          /\ live'[c].done = live[c].done
      BY <1>4, <1>t DEF Requests, Held, State
    <2>3. Reached(c)' = Reached(c)
      BY <2>1, <2>2 DEF Reached
    <2>4. ASSUME entries[cur[c]] = 1
          PROVE  OnlyCall(live'[c], pc'[c], Reached(c)', cur[c], store'[cur[c]], ledger')
      <3>1. OnlyCall(live[c], pc[c], Reached(c), cur[c], store[cur[c]], ledger)
        BY <2>1, <2>4, <1>i
      <3>2. QED
        BY <3>1, <2>1, <2>2, <2>3 DEF OnlyCall
    <2>5. QED
      BY <2>1, <2>2, <2>4, <1>q, <1>p, FirstKept
  <1>5. ASSUME NEW c \in Callers, Cancels(c) PROVE FirstInv'
    <2>1. /\ OthersStay(c) /\ pc[c] = "loop" /\ cur'[c] = cur[c] /\ store' = store
          /\ entries' = entries /\ pc'[c] = "cancel" /\ Emit(c, "run_cancelled")
          /\ "run_cancelled" \in EventTypes /\ InCall(c)
      BY <1>5 DEF Cancels, StaysIn, EventTypes, InCall
    <2>2. Held(live'[c]) = Held(live[c]) /\ live'[c].done = live[c].done
      BY <1>5, <1>t DEF Cancels, Held, State
    <2>3. Reached(c)' = Reached(c)
      BY <2>1, <2>2 DEF Reached
    <2>4. /\ \A x \in Attempts : x # cur[c] => ledger'[x] = ledger[x]
          /\ CrewsRan(ledger', cur[c]) = CrewsRan(ledger, cur[c])
          /\ QaRejected(ledger', cur[c]) = QaRejected(ledger, cur[c])
          /\ AcceptanceAsked(ledger', cur[c]) = AcceptanceAsked(ledger, cur[c])
      <3>1. \A x \in GateLooks : x \in EventTypes /\ x # "run_cancelled"
        BY DEF EventTypes, GateLooks
      <3>2. \A x \in GateLooks : ledger'[cur[c]][x] = ledger[cur[c]][x]
        BY <2>1, <3>1, <1>m
      <3>3. QED
        BY <2>1, <3>2, <1>m, GatesSee
    <2>5. ASSUME entries[cur[c]] = 1
          PROVE  OnlyCall(live'[c], pc'[c], Reached(c)', cur[c], store'[cur[c]], ledger')
      <3>1. OnlyCall(live[c], pc[c], Reached(c), cur[c], store[cur[c]], ledger)
        BY <2>1, <2>5, <1>i
      <3>2. QED
        BY <3>1, <2>1, <2>2, <2>3, <2>4 DEF OnlyCall
    <2>6. QED
      BY <2>1, <2>2, <2>4, <2>5, <1>q, <1>p, FirstKept
  <1>6. ASSUME NEW c \in Callers, Saves(c) PROVE FirstInv'
    <2> DEFINE t == live'[c]
    <2>1. /\ OthersStay(c) /\ pc[c] \in {"cancel", "save"} /\ cur'[c] = cur[c] /\ InCall(c)
          /\ entries' = entries /\ ledger' = ledger /\ store' = [store EXCEPT ![cur[c]] = t]
      BY <1>6 DEF Saves, StaysIn, InCall
    <2>2. t.status = live[c].status /\ Held(t) = Held(live[c]) /\ t.done = Reached(c)
      <3>1. CASE pc[c] = "cancel"
        BY <1>6, <3>1 DEF Saves, Reached
      <3>2. CASE pc[c] = "save"
        <4>1. t = [live[c] EXCEPT !.done = @ \cup {step[c]}]
          BY <1>6, <3>2 DEF Saves
        <4>2. QED
          BY <1>t, <3>2, <4>1 DEF Reached, Held, State
      <3>3. QED
        BY <2>1, <3>1, <3>2
    <2>3. /\ pc'[c] \in {"return", "loop"}
          /\ pc'[c] = "loop" => pc[c] = "save" /\ live[c].status \notin EarlyExitStatuses
      BY <1>6 DEF Saves
    <2> HIDE DEF t
    <2>4. Reached(c)' = Reached(c)
      BY <2>2, <2>3 DEF Reached, t
    <2>5. /\ store'[cur[c]] = t /\ store[cur[c]] # NoState
          /\ \A x \in Attempts : x # cur[c] => store'[x] = store[x]
      BY <2>1, <1>t DEF TypeOK, CallsInv, Placed
    <2>6. ASSUME entries[cur[c]] = 1
          PROVE  /\ OnlyCall(live'[c], pc'[c], Reached(c)', cur[c], store'[cur[c]], ledger')
                 /\ Held(store'[cur[c]]) => ~CrewsRan(ledger', cur[c])
      <3>1. OnlyCall(live[c], pc[c], Reached(c), cur[c], store[cur[c]], ledger)
        BY <2>1, <2>6, <1>i
      <3>2. {"rejected", "dead_letter"} \subseteq EarlyExitStatuses
        BY DEF EarlyExitStatuses
      <3>3. Held(live[c]) \/ QaRejected(ledger, cur[c]) => pc'[c] = "return"
        BY <3>1, <3>2, <2>3 DEF OnlyCall
      <3>4. QED
        BY <3>1, <3>3, <2>1, <2>2, <2>4, <2>5 DEF OnlyCall, t
    <2>7. QED
      BY <2>1, <2>2, <2>3, <2>5, <2>6, <1>q, <1>p, FirstKept DEF t
  <1>7. ASSUME NEW c \in Callers, NEW e \in EventTypes, NEW t \in State, Leaves(c, e, t)
        PROVE  FirstInv'
    <2>1. /\ OthersStay(c) /\ pc[c] \in {"loop", "plan", "approved", "qa"} /\ cur'[c] = cur[c]
          /\ InCall(c)
          /\ store' = store /\ entries' = entries /\ live'[c] = t /\ step'[c] = step[c]
          /\ pc'[c] \in {"escalate", "save"}
          /\ pc'[c] = "escalate" => e = "qa_review_rejected"
          /\ step[c] \in Steps /\ live[c].done = 1..(step[c] - 1)
          /\ Effect(step[c], e, live[c], t) /\ Emit(c, e)
      BY <1>7 DEF Leaves, Works, StaysIn, counts, InCall
    <2> DEFINE a == cur[c]
               k == step[c]
               s == live[c]
               x == pc[c]
               y == pc'[c]
    <2>2. /\ a \in Attempts /\ k \in Steps /\ s \in State /\ x \in {"loop", "plan", "approved", "qa"}
          /\ y \in {"escalate", "save"}
      BY <2>1, <1>t
    <2>9. a = cur[c] /\ k = step[c] /\ s = live[c] /\ x = pc[c] /\ y = pc'[c]
      OBVIOUS
    <2> HIDE DEF a, k, s, x, y
    <2>3. ledger' = [ledger EXCEPT ![a][e] = @ + 1]
      BY <2>1, <2>9 DEF Emit
    <2>4. Reached(c) = 1..(k - 1) /\ Reached(c)' = 1..(k - 1) \cup {k}
      <3>1. /\ Reached(c) = live[c].done
            /\ Reached(c)' = live'[c].done \cup {step'[c]}
        BY <2>1 DEF Reached
      <3>2. t.done = live[c].done
        BY <2>1 DEF Effect
      <3>3. QED
        BY <2>1, <2>9, <3>1, <3>2
    <2>5. ASSUME entries[a] = 1
          PROVE  OnlyCall(t, y, 1..(k - 1) \cup {k}, a, store[a], ledger') /\ ~Held(s)
      <3>1. OnlyCall(s, x, 1..(k - 1), a, store[a], ledger)
        BY <2>1, <2>9, <2>4, <2>5, <1>i
      <3>2. Effect(k, e, s, t) /\ (y = "escalate" => e = "qa_review_rejected")
        BY <2>1, <2>9
      <3>3. InStep(x) /\ Leaving(y, e)
        BY <2>2, <3>2 DEF InStep, Leaving
      <3>4. Logged(ledger, ledger', a, e)
        BY <2>3 DEF Logged
      <3>5. ~Held(s)
        BY <3>1, <3>3 DEF OnlyCall, InStep
      <3>6. QED
        BY <2>2, <3>1, <3>2, <3>3, <3>4, <3>5, <1>t, OnlyCallWorks
    <2>6. ASSUME entries[a] = 1
          PROVE  /\ store[a] # NoState /\ Held(store[a]) => ~CrewsRan(ledger', a)
                 /\ QaRejected(ledger', a) => ~AcceptanceAsked(ledger', a)
      BY <2>5, <2>6 DEF OnlyCall
    <2>7. \A z \in Attempts : z # a => ledger'[z] = ledger[z]
      BY <2>1, <2>9, <1>m
    <2>8. QED
      BY <2>1, <2>9, <2>4, <2>5, <2>6, <2>7, <1>p, FirstKept
  <1>8. ASSUME NEW c \in Callers, Ends(c) PROVE FirstInv'
    <2>1. /\ OthersStay(c) /\ pc[c] # "idle" /\ pc'[c] = "idle" /\ ~InCall(c)'
          /\ UNCHANGED <<store, ledger, entries>>
      BY <1>8 DEF Ends, InCall
    <2>2. CASE InCall(c)
      BY <2>1, <2>2, <1>q, <1>p, FirstKept
    <2>3. CASE ~InCall(c)
      <3>1. CopyKept(c)'
        BY <2>1 DEF CopyKept
      <3>2. QED
        BY <2>1, <2>3, <3>1, FirstCopied
    <2>4. QED
      BY <2>2, <2>3
  <1>9. ASSUME NEW c \in Callers, NEW a \in Attempts, NEW s \in State, Enters(c, a, s)
        PROVE  FirstInv'
    <2>1. /\ pc[c] = "idle" /\ pc'[c] \in {"create", "loop"} /\ cur'[c] = a /\ live'[c] = s
          /\ ledger' = ledger /\ store' = store /\ OthersStay(c)
          /\ entries'[a] = entries[a] + 1
          /\ \A x \in Attempts : x # a => entries'[x] = entries[x]
      BY <1>9, <1>t DEF Enters
    <2>2. ASSUME entries[a] = 0
          PROVE  /\ \A e \in EventTypes : ledger[a][e] = 0
                 /\ \A d \in Callers : ~InCall(d) \/ cur[d] # a
                 /\ ~Held(s) /\ (a \in Persisted => ~Held(store[a]))
      <3>1. CASE s = FreshState
        BY <2>2, <3>1 DEF FirstInv, Held, FreshState
      <3>2. CASE store[a] # NoState /\ s = ResetIfCancelled(store[a])
        <4>1. ~Held(store[a]) /\ store[a] \in State
          BY <2>2, <3>2, <1>t DEF FirstInv, Persisted, TypeOK
        <4>2. Held(s) = Held(store[a])
          BY <3>2, <4>1 DEF ResetIfCancelled, Held, State
        <4>3. QED
          BY <2>2, <4>1, <4>2 DEF FirstInv
      <3>3. QED
        BY <1>9, <3>1, <3>2 DEF Enters
    <2>3. \A d \in Callers \ {c} : /\ InCall(d)' = InCall(d) /\ pc'[d] = pc[d]
                                   /\ cur'[d] = cur[d] /\ live'[d] = live[d]
      BY <2>1 DEF OthersStay, InCall
    <2>4. \A x \in Attempts : entries[x] \in Nat
      BY <1>t
    <2>5. ASSUME NEW x \in Attempts, entries'[x] = 0
          PROVE  /\ \A e \in EventTypes : ledger'[x][e] = 0
                 /\ \A d \in Callers : ~InCall(d)' \/ cur'[d] # x
                 /\ x \in Persisted' => ~Held(store'[x])
      <3>1. x # a /\ entries[x] = 0
        BY <2>1, <2>4, <2>5
      <3>2. QED
        BY <2>1, <2>3, <3>1 DEF FirstInv, Persisted
    <2>6. ASSUME NEW x \in Attempts, entries'[x] = 1, NEW d \in Callers, NEW b \in Callers,
                 InCall(d)', InCall(b)', cur'[d] = x, cur'[b] = x
          PROVE  d = b
      <3>1. CASE x = a
        <4>1. entries[a] = 0
          BY <2>1, <2>4, <2>6, <3>1
        <4>2. QED
          BY <2>2, <2>3, <2>6, <3>1, <4>1
      <3>2. CASE x # a
        BY <2>1, <2>3, <2>6, <3>2 DEF FirstInv
      <3>3. QED
        BY <3>1, <3>2
    <2>7. ASSUME NEW x \in Persisted', entries'[x] <= 1, Held(store'[x])
          PROVE  ~CrewsRan(ledger', x)
      <3>1. CASE x = a
        <4>1. entries[a] = 0
          BY <2>1, <2>4, <2>7, <3>1 DEF Persisted
        <4>2. QED
          BY <2>1, <2>2, <2>7, <3>1, <4>1 DEF Persisted
      <3>2. CASE x # a
        BY <2>1, <2>7, <3>2 DEF FirstInv, Persisted
      <3>3. QED
        BY <3>1, <3>2
    <2>8. ASSUME NEW x \in Attempts, entries'[x] <= 1, QaRejected(ledger', x)
          PROVE  ~AcceptanceAsked(ledger', x)
      <3>1. entries[x] <= 1
        BY <2>1, <2>4, <2>8
      <3>2. QED
        BY <2>1, <2>8, <3>1 DEF FirstInv
    <2>9. ASSUME NEW d \in Callers, InCall(d)', entries'[cur'[d]] = 1
          PROVE  OnlyCall(live'[d], pc'[d], Reached(d)', cur'[d], store'[cur'[d]], ledger')
      <3>1. CASE cur'[d] = a
        <4>1. entries[a] = 0
          BY <2>1, <2>4, <2>9, <3>1
        <4>2. d = c
          BY <2>2, <2>3, <2>9, <3>1, <4>1
        <4>3. ~CrewsRan(ledger, a) /\ ~QaRejected(ledger, a) /\ ~AcceptanceAsked(ledger, a)
          <5>1. \A e \in EventTypes : ~(ledger[a][e] > 0)
            BY <2>2, <4>1
          <5>2. QED
            BY <5>1, GateEvents DEF CrewsRan, QaRejected, AcceptanceAsked, EventTypes
        <4>4. store[a] # NoState => ~Held(store[a])
          BY <2>2, <4>1 DEF Persisted
        <4>5. QED
          BY <2>1, <2>2, <4>1, <4>2, <4>3, <4>4 DEF OnlyCall
      <3>2. CASE cur'[d] # a
        <4>1. /\ d # c /\ pc'[d] = pc[d] /\ cur'[d] = cur[d] /\ live'[d] = live[d]
              /\ step'[d] = step[d] /\ InCall(d)
          BY <2>1, <2>3, <2>9, <3>2 DEF OthersStay
        <4>2. Reached(d)' = Reached(d)
          BY <4>1 DEF Reached
        <4>3. entries[cur[d]] = 1
          BY <2>1, <2>9, <3>2, <4>1, <1>t
        <4>4. QED
          BY <1>i, <2>1, <2>9, <4>1, <4>2, <4>3
      <3>3. QED
        BY <3>1, <3>2
    <2>10. ASSUME NEW d \in Callers, pc'[d] = "overrule"
           PROVE  CopyKept(d)'
      <3>1. /\ d # c /\ pc[d] = "overrule" /\ cur'[d] = cur[d] /\ live'[d] = live[d]
            /\ CopyKept(d) /\ cur[d] \in Attempts
        BY <2>1, <2>3, <2>10, <1>t DEF FirstInv
      <3>2. CASE cur[d] = a
        <4>1. ~(entries'[a] = 0) /\ (entries'[a] = 1 => entries[a] = 0)
          BY <2>1, <2>4
        <4>2. QED
          BY <3>1, <3>2, <4>1 DEF CopyKept
      <3>3. CASE cur[d] # a
        BY <2>1, <2>3, <3>1, <3>3 DEF CopyKept
      <3>4. QED
        BY <3>2, <3>3
    <2>11. QED
      BY <2>5, <2>6, <2>7, <2>8, <2>9, <2>10 DEF FirstInv, CopyKept
  <1>10. ASSUME NEW c \in Callers, Resolves(c) PROVE FirstInv'
    <2>1. /\ OthersStay(c) /\ pc[c] = "plan" /\ pc'[c] = "approved" /\ cur'[c] = cur[c]
          /\ store' = store /\ entries' = entries /\ ledger' = ledger /\ live'[c] = live[c]
          /\ Reached(c)' = Reached(c) /\ InCall(c)
      BY <1>10 DEF Resolves, StaysIn, Reached, InCall
    <2>2. ASSUME entries[cur[c]] = 1
          PROVE  OnlyCall(live'[c], pc'[c], Reached(c)', cur[c], store'[cur[c]], ledger')
      <3>1. OnlyCall(live[c], pc[c], Reached(c), cur[c], store[cur[c]], ledger)
        BY <2>1, <2>2, <1>i
      <3>2. QED
        BY <3>1, <2>1 DEF OnlyCall
    <2>3. QED
      BY <2>1, <2>2, <1>q, <1>p, FirstKept
  <1>11. ASSUME NEW c \in Callers, Creates(c) PROVE FirstInv'
    <2>1. /\ OthersStay(c) /\ pc[c] = "create" /\ pc'[c] = "loop" /\ cur'[c] = cur[c]
          /\ entries' = entries /\ ledger' = ledger /\ live'[c] = live[c]
          /\ Reached(c)' = Reached(c) /\ InCall(c)
          /\ store' = [store EXCEPT ![cur[c]] = live[c]]
      BY <1>11 DEF Creates, StaysIn, Reached, InCall
    <2>2. store'[cur[c]] = live[c] /\ \A x \in Attempts : x # cur[c] => store'[x] = store[x]
      BY <2>1, <1>t DEF TypeOK
    <2>3. ASSUME entries[cur[c]] = 1
          PROVE  /\ OnlyCall(live'[c], pc'[c], Reached(c)', cur[c], store'[cur[c]], ledger')
                 /\ ~Held(live[c])
      <3>1. OnlyCall(live[c], pc[c], Reached(c), cur[c], store[cur[c]], ledger)
        BY <2>1, <2>3, <1>i
      <3>2. QED
        BY <3>1, <2>1, <2>2 DEF OnlyCall
    <2>4. QED
      BY <2>1, <2>2, <2>3, <1>q, <1>p, FirstKept
  <1>12. ASSUME NEW c \in Callers, NEW a \in Attempts, Overrules(c, a) PROVE FirstInv'
    <2>1. /\ OthersStay(c) /\ ~InCall(c) /\ ~InCall(c)' /\ pc'[c] = "overrule" /\ cur'[c] = a
          /\ live'[c] = [store[a] EXCEPT !.status = "cancelled"] /\ a \in Persisted
          /\ UNCHANGED <<store, ledger, entries>> /\ store[a] \in State
      BY <1>12, <1>t DEF Overrules, InCall, Persisted, TypeOK
    <2>2. Held(live'[c]) = Held(store[a])
      BY <2>1 DEF Held, State
    <2>3. \A d \in Callers : InCall(d)' => InCall(d) /\ cur'[d] = cur[d] /\ live'[d] = live[d]
      BY <2>1 DEF OthersStay, InCall
    <2>4. ASSUME entries[a] = 1, Held(store[a])
          PROVE  /\ ~CrewsRan(ledger, a)
                 /\ \A d \in Callers : InCall(d) /\ cur[d] = a => Held(live[d])
      BY <1>i, <2>1, <2>4 DEF FirstInv, Persisted, OnlyCall
    <2>5. CopyKept(c)'
      BY <2>1, <2>2, <2>3, <2>4 DEF CopyKept, FirstInv
    <2>6. QED
      BY <2>1, <2>5, FirstCopied
  <1>13. ASSUME NEW c \in Callers, Confirms(c) PROVE FirstInv'
    <2>1. /\ OthersStay(c) /\ pc[c] = "overrule" /\ ~InCall(c) /\ ~InCall(c)' /\ pc'[c] = "idle"
          /\ UNCHANGED <<ledger, entries>> /\ store' = [store EXCEPT ![cur[c]] = live[c]]
      BY <1>13 DEF Confirms, InCall
    <2>2. store'[cur[c]] = live[c] /\ \A x \in Attempts : x # cur[c] => store'[x] = store[x]
      BY <2>1, <1>t DEF TypeOK
    <2>3. CopyKept(c)'
      BY <2>1 DEF CopyKept
    <2>4. CopyKept(c)
      BY DEF FirstInv
    <2>5. QED
      BY <2>1, <2>2, <2>3, <2>4, FirstCopied DEF CopyKept
  <1>14. QED
    BY <1>1, <1>2, <1>3, <1>4, <1>5, <1>6, <1>7, <1>8, <1>9, <1>10, <1>11, <1>12, <1>13, NextViews

\* Before the first call every attempt is clean.
LEMMA FirstInit == Init => FirstInv
  <1> SUFFICES ASSUME Init PROVE FirstInv
    OBVIOUS
  <1>1. Persisted = {} /\ \A a \in Attempts : entries[a] = 0
    BY DEF Init, Persisted
  <1>2. \A a \in Attempts, e \in EventTypes : ledger[a][e] = 0
    BY DEF Init
  <1>3. \A a \in Attempts : ~QaRejected(ledger, a)
    BY <1>2 DEF QaRejected, EventTypes
  <1>4. \A c \in Callers : pc[c] = "idle"
    BY DEF Init
  <1>5. QED
    BY <1>1, <1>2, <1>3, <1>4 DEF FirstInv, InCall, CopyKept

\* In the only call an attempt has had, crews run past no denial and no pending
\* plan approval, and nothing is accepted past a QA rejection: also when others
\* start new attempts, answer requests or cancel, in the API too, meanwhile.
THEOREM FirstCallsHonourGates == Spec => []FirstCallHonoursGates
  <1>1. CallsInv /\ FirstInv => FirstCallHonoursGates
    <2> SUFFICES ASSUME CallsInv, FirstInv, NEW a \in Persisted, entries[a] <= 1
                 PROVE  /\ (store[a].denied \/ store[a].approval = "pending")
                             => ledger[a]["bounded_crew_executed"] = 0
                        /\ ledger[a]["qa_review_rejected"] > 0
                             => \A e \in StepEvents[Acceptance] : ledger[a][e] = 0
      BY DEF FirstCallHonoursGates
    <2>1. \A e \in EventTypes : ledger[a][e] \in Nat
      BY DEF CallsInv, PrefixInv, TypeInv, TypeOK, Persisted
    <2>2. /\ "bounded_crew_executed" \in EventTypes
          /\ StepEvents[Acceptance] \subseteq EventTypes
      BY GateEvents DEF EventTypes, Acceptance, Steps
    <2>3. Held(store[a]) => ~(ledger[a]["bounded_crew_executed"] > 0)
      BY DEF FirstInv, CrewsRan
    <2>4. ledger[a]["qa_review_rejected"] > 0
            => \A e \in StepEvents[Acceptance] : ~(ledger[a][e] > 0)
      BY DEF FirstInv, QaRejected, AcceptanceAsked, Persisted
    <2>5. \A n \in Nat : ~(n > 0) => n = 0
      OBVIOUS
    <2>6. store[a].denied => store[a].denied = TRUE
      BY DEF CallsInv, PrefixInv, TypeInv, TypeOK, Persisted, State
    <2>7. QED
      BY <2>1, <2>2, <2>3, <2>4, <2>5, <2>6 DEF Held
  <1>2. QED
    BY <1>1, CallsInit, CallsStep, FirstInit, FirstStep, PTL DEF Spec

-----------------------------------------------------------------------------
(* Work that is done stays done                                            *)

\* No event belongs to two steps.
LEMMA EventsAreApart ==
  ASSUME NEW j \in Steps, NEW k \in Steps, NEW e \in StepEvents[j], e \in StepEvents[k]
  PROVE  j = k
  BY DEF StepEvents, Steps, LoadManifest, Preflight, Hydrate, Plan, PlanApproval, Execute,
         Validate, Remediate, QaValidation, Acceptance, Stage, Commit, Finalize, UpdateIndexes

\* What the loop logs besides the steps' events is no step's event.
LEMMA LoopEvents ==
  ASSUME NEW k \in Steps
  PROVE  /\ "test_case_executed" \notin StepEvents[k]
         /\ "human_escalation_required" \notin StepEvents[k]
         /\ "run_cancelled" \notin StepEvents[k]
         /\ StepEvents[k] \subseteq EventTypes
  <1> DEFINE Others == {"test_case_executed", "human_escalation_required", "run_cancelled"}
  <1>1. ASSUME NEW x \in Others PROVE x \notin StepEvents[k]
    BY DEF StepEvents, Steps, LoadManifest, Preflight, Hydrate, Plan, PlanApproval, Execute,
           Validate, Remediate, QaValidation, Acceptance, Stage, Commit, Finalize, UpdateIndexes
  <1>2. QED
    BY <1>1, GateEvents

\* Callers that honour the single-writer discipline never repeat the effect of
\* a step some checkpoint calls completed, whatever died before it was saved.
THEOREM CompletedWorkIsNotRepeated == ASSUME SingleWriter PROVE Spec => CompletedStepsNeverRerun
  <1> DEFINE Quiet == \A a \in Persisted : \A s \in store[a].done : \A e \in StepEvents[s] :
                        ledger'[a][e] = ledger[a][e]
  <1>1. ASSUME SyncInv, CallsInv, [Next]_vars PROVE Quiet
    <2>t. /\ \A x \in Persisted : x \in Attempts /\ store[x].done \subseteq Steps
          /\ \A d \in Callers : cur[d] \in Attempts
          /\ ledger \in Ledgers
      BY <1>1 DEF CallsInv, PrefixInv, TypeInv, TypeOK, Persisted, State, Ledgers
    <2>1. CASE ledger' = ledger
      BY <2>1
    <2>2. ASSUME NEW c \in Callers, NEW e \in EventTypes, Emit(c, e),
                 \A s \in store[cur[c]].done : s \in Steps => e \notin StepEvents[s]
          PROVE  Quiet
      <3> SUFFICES ASSUME NEW a \in Persisted, NEW s \in store[a].done, NEW x \in StepEvents[s]
                   PROVE  ledger'[a][x] = ledger[a][x]
        OBVIOUS
      <3>1. s \in Steps /\ a \in Attempts
        BY <2>t
      <3>2. a # cur[c] \/ x # e
        BY <2>2, <3>1
      <3>3. x \in EventTypes
        BY <3>1, LoopEvents
      <3>4. QED
        BY <2>2, <2>t, <3>1, <3>2, <3>3 DEF Emit, Ledgers
    <2>3. ASSUME NEW c \in Callers, Logs(c) \/ Cancels(c)
          PROVE  Quiet
      <3>1. \E e \in {"test_case_executed", "human_escalation_required", "run_cancelled"} : Emit(c, e)
        BY <2>3 DEF Logs, Cancels
      <3>2. {"test_case_executed", "human_escalation_required", "run_cancelled"} \subseteq EventTypes
        BY DEF EventTypes
      <3>3. QED
        BY <3>1, <3>2, <2>2, LoopEvents
    <2>4. ASSUME NEW c \in Callers, NEW e \in EventTypes, NEW t \in State, Leaves(c, e, t)
          PROVE  Quiet
      <3>1. /\ pc[c] \notin {"idle", "create"} /\ step[c] \in Steps
            /\ live[c].done = 1..(step[c] - 1)
            /\ Emit(c, e)
        BY <2>4 DEF Leaves, Works
      <3>2. e \in StepEvents[step[c]]
        BY <2>4 DEF Leaves, Works, Effect
      <3>3. store[cur[c]].done = 1..(step[c] - 1)
        BY <1>1, <3>1 DEF SyncInv, InSync
      <3>4. step[c] \notin store[cur[c]].done
        BY <3>1, <3>3 DEF Steps
      <3>5. QED
        BY <3>1, <3>2, <3>4, <2>2, EventsAreApart
    <2>5. ASSUME NEW c \in Callers, \/ Requests(c) \/ Resolves(c) \/ Creates(c) \/ Saves(c)
                                    \/ Ends(c) \/ Confirms(c)
                                    \/ \E a \in Attempts, s \in State : Enters(c, a, s)
                                    \/ \E a \in Attempts : Overrules(c, a)
          PROVE  ledger' = ledger
      BY <2>5 DEF Requests, Resolves, Creates, Saves, Ends, Confirms, Enters, Overrules
    <2>6. ASSUME Rests \/ Around PROVE ledger' = ledger
      BY <2>6 DEF Rests, Around
    <2>7. QED
      BY <1>1, <2>1, <2>3, <2>4, <2>5, <2>6, NextViews
  <1>2. SyncInv /\ CallsInv /\ [Next]_vars => [Quiet]_vars
    BY <1>1
  <1>3. SyncInv /\ [Next]_vars => SyncInv'
    BY NextInSync
  <1>4. QED
    BY <1>2, <1>3, CallsInit, CallsStep, InitInSync, PTL DEF Spec, CompletedStepsNeverRerun

=============================================================================
