------------------------ MODULE SpocCompiler_proofs ------------------------
(***************************************************************************)
(* Proofs about SpocCompiler, for any registries, SPOCs, proposals of the  *)
(* inference adapter and numbers of compilations and resolutions.          *)
(***************************************************************************)
EXTENDS SpocCompiler, SequenceTheorems, FiniteSetTheorems, WellFoundedInduction, TLAPS

-----------------------------------------------------------------------------
(* The gateway                                                             *)

Answers == {"pending", "approved", "rejected"}

\* Requests about the subjects X, in the order they were made.
RequestLog(X) == Seq([subject : X, status : Answers])

\* What is known of a list of requests stays known when more subjects are possible.
LEMMA LogsGrow ==
  ASSUME NEW X, NEW Y, X \subseteq Y, NEW q \in RequestLog(X)
  PROVE  q \in RequestLog(Y)
  <1>1. [subject : X, status : Answers]
          \subseteq [subject : Y, status : Answers]
    OBVIOUS
  <1>2. QED
    BY <1>1, SeqMonotonic DEF RequestLog

\* What request_approval and resolve make of the requests q.
Requested(q, x, st, r) == r = Append(q, [subject |-> x, status |-> st])
Answered(q, id, st, r) == r = [q EXCEPT ![id].status = st]

\* A request that is made gets the next id, and leaves the others as they were.
LEMMA RequestIsAppended ==
  ASSUME NEW X, NEW q \in RequestLog(X), NEW x \in X,
         NEW st \in Answers,
         NEW r, Requested(q, x, st, r)
  PROVE  /\ r \in RequestLog(X)
         /\ Len(r) = Len(q) + 1
         /\ DOMAIN r = 1..(Len(q) + 1)
         /\ \A i \in DOMAIN q : i \in DOMAIN r /\ r[i] = q[i]
         /\ r[Len(q) + 1].subject = x /\ r[Len(q) + 1].status = st
  BY DEF RequestLog, Requested

\* A human's answer changes one status.
LEMMA AnswerIsRecorded ==
  ASSUME NEW X, NEW q \in RequestLog(X), NEW id \in DOMAIN q,
         NEW st \in Answers,
         NEW r, Answered(q, id, st, r)
  PROVE  /\ r \in RequestLog(X)
         /\ Len(r) = Len(q) /\ DOMAIN r = DOMAIN q
         /\ \A i \in DOMAIN q : r[i].subject = q[i].subject
         /\ \A i \in DOMAIN q : i # id => r[i] = q[i]
         /\ r[id].status = st
  <1> DEFINE R == [subject : X, status : Answers]
             e == [q[id] EXCEPT !.status = st]
  <1>1. q \in Seq(R) /\ DOMAIN q = 1..Len(q) /\ id \in 1..Len(q)
    BY LenProperties DEF RequestLog
  <1>2. q[id] \in R
    BY <1>1, ElementOfSeq
  <1>3. e \in R /\ e.status = st /\ e.subject = q[id].subject
    BY <1>2
  <1>5. r = [q EXCEPT ![id] = e]
    BY DEF Answered
  <1>4. /\ r \in Seq(R) /\ Len(r) = Len(q) /\ DOMAIN r = DOMAIN q
        /\ \A i \in DOMAIN q : r[i] = IF i = id THEN e ELSE q[i]
    <2> HIDE DEF e, R
    <2>1. QED
      BY <1>1, <1>3, <1>5, ExceptSeq
  <1> HIDE DEF e
  <1>6. QED
    BY <1>3, <1>4 DEF RequestLog, R

-----------------------------------------------------------------------------
(* Reviews                                                                 *)

\* Some request of q among ids asked for c, and is one of the granted ones g.
Backed(c, ids, g, q) == \E id \in ids \cap g : q[id].subject = c

\* A compilation knows what it has asked, and every high-risk capability it
\* already counts as inferred is backed by one of its own requests; the one it
\* waits for is its latest, and the latest of all.
JobInv ==
  phase \in {"review", "asked"} =>
    /\ job = [spoc |-> job.spoc, inferred |-> job.inferred, todo |-> job.todo, asked |-> job.asked]
    /\ job.asked \subseteq DOMAIN approvals
    /\ \A c \in job.inferred : HighRisk(c) => Backed(c, job.asked, granted, approvals)
    /\ phase = "asked" => /\ Len(approvals) \in job.asked
                          /\ approvals[Len(approvals)].subject = Head(job.todo)

ReviewInv ==
  /\ \E X : approvals \in RequestLog(X)
  /\ \A id \in DOMAIN approvals : approvals[id].status = "approved" => id \in granted
  /\ phase = "boot" => manifests = {}
  /\ \A m \in manifests : m.asked \subseteq DOMAIN approvals
  /\ JobInv
  /\ InferredRiskWasApproved

\* Where the registries stay and the gateway keeps subjects and grants, what is
\* backed stays backed.
LEMMA StaysBacked ==
  ASSUME NEW c, NEW ids, ids \subseteq DOMAIN approvals, Backed(c, ids, granted, approvals),
         granted \subseteq granted',
         \A i \in DOMAIN approvals : approvals'[i].subject = approvals[i].subject
  PROVE  Backed(c, ids, granted', approvals')
  BY DEF Backed

\* Every step, of the compiler or of a human, keeps reviews backed.
LEMMA ReviewStep == ReviewInv /\ [Next]_vars => ReviewInv'
  <1> SUFFICES ASSUME ReviewInv, [Next]_vars PROVE ReviewInv'
    OBVIOUS
  <1>x. PICK X : approvals \in RequestLog(X)
    BY DEF ReviewInv
  <1>d. DOMAIN approvals = 1..Len(approvals) /\ Len(approvals) \in Nat
    BY <1>x, LenProperties DEF RequestLog
  <1>1. ASSUME NEW spoc \in Spocs, NEW proposal \in Proposals, Compile(spoc, proposal)
        PROVE  ReviewInv'
    <2>1. UNCHANGED <<caps, approvals, manifests, granted>> /\ phase' \in {"ready", "review"}
      BY <1>1 DEF Compile, registries
    <2>2. phase' = "review" =>
            job' = [spoc |-> spoc, inferred |-> AutoAdded(spoc, proposal),
                    todo |-> NeedsReview(spoc, proposal), asked |-> {}]
      BY <1>1 DEF Compile
    <2>3. \A c \in AutoAdded(spoc, proposal) : ~HighRisk(c)
      BY DEF AutoAdded
    <2>4. \A c : HighRisk(c)' = HighRisk(c)
      BY <2>1 DEF HighRisk
    <2>5. JobInv'
      <3> HIDE DEF AutoAdded, NeedsReview
      <3>1. QED
        BY <2>1, <2>2, <2>3, <2>4 DEF JobInv
    <2>6. QED
      BY <2>1, <2>4, <2>5 DEF ReviewInv, InferredRiskWasApproved
  <1>2. CASE RequestReview
    <2> DEFINE st == IF AutoApprove THEN "approved" ELSE "pending"
               x == Head(job.todo)
               Y == X \cup {x}
    <2>0. /\ approvals \in RequestLog(Y) /\ x \in Y /\ st \in Answers
      BY <1>x, LogsGrow DEF Answers
    <2>1. /\ UNCHANGED <<caps, manifests>> /\ phase = "review" /\ phase' = "asked"
          /\ approvals' = Append(approvals, [subject |-> x, status |-> st])
          /\ job' = [job EXCEPT !.asked = @ \cup {Len(approvals) + 1}]
          /\ granted' = IF AutoApprove THEN granted \cup {Len(approvals) + 1} ELSE granted
      BY <1>2 DEF RequestReview, registries
    <2>2. st = "approved" => AutoApprove
      OBVIOUS
    <2> HIDE DEF st, Y
    <2>3. /\ approvals' \in RequestLog(Y)
          /\ Len(approvals') = Len(approvals) + 1
          /\ DOMAIN approvals' = 1..(Len(approvals) + 1)
          /\ \A i \in DOMAIN approvals : i \in DOMAIN approvals' /\ approvals'[i] = approvals[i]
          /\ approvals'[Len(approvals) + 1].subject = x
          /\ approvals'[Len(approvals) + 1].status = st
      <3>1. Requested(approvals, x, st, approvals')
        BY <2>1 DEF Requested
      <3>2. QED
        BY <2>0, <2>1, <3>1, RequestIsAppended
    <2>4. \A c : HighRisk(c)' = HighRisk(c)
      BY <2>1 DEF HighRisk
    <2>5. /\ job.asked \subseteq DOMAIN approvals
          /\ \A c \in job.inferred : HighRisk(c) => Backed(c, job.asked, granted, approvals)
          /\ job'.spoc = job.spoc /\ job'.inferred = job.inferred /\ job'.todo = job.todo
          /\ job'.asked = job.asked \cup {Len(approvals) + 1}
          /\ job' = [spoc |-> job'.spoc, inferred |-> job'.inferred, todo |-> job'.todo,
                     asked |-> job'.asked]
      BY <2>1 DEF ReviewInv, JobInv
    <2>6. granted \subseteq granted'
      BY <2>1
    <2>7. ASSUME NEW c, NEW ids, ids \subseteq DOMAIN approvals, Backed(c, ids, granted, approvals)
          PROVE  Backed(c, ids, granted', approvals')
      BY <2>3, <2>6, <2>7, StaysBacked
    <2>8. JobInv'
      <3>1. \A c \in job'.inferred : HighRisk(c)' => Backed(c, job'.asked, granted', approvals')
        BY <2>4, <2>5, <2>7 DEF Backed
      <3>2. job'.asked \subseteq DOMAIN approvals' /\ Len(approvals') \in job'.asked
        BY <2>3, <2>5
      <3>3. approvals'[Len(approvals')].subject = Head(job'.todo)
        BY <2>3, <2>5
      <3>4. QED
        BY <2>5, <3>1, <3>2, <3>3 DEF JobInv
    <2>9. \A id \in DOMAIN approvals' : approvals'[id].status = "approved" => id \in granted'
      <3>1. \A id \in DOMAIN approvals' : id \in DOMAIN approvals \/ id = Len(approvals) + 1
        BY <1>d, <2>3
      <3>2. QED
        BY <2>1, <2>2, <2>3, <2>6, <3>1 DEF ReviewInv
    <2>10. InferredRiskWasApproved' /\ \A m \in manifests' : m.asked \subseteq DOMAIN approvals'
      <3>1. \A m \in manifests : /\ m.asked \subseteq DOMAIN approvals
                                 /\ \A c \in m.inferred : HighRisk(c) => Backed(c, m.asked, granted, approvals)
        BY DEF ReviewInv, InferredRiskWasApproved, Backed
      <3>2. \A m \in manifests : /\ m.asked \subseteq DOMAIN approvals'
                                 /\ \A c \in m.inferred : HighRisk(c)' => Backed(c, m.asked, granted', approvals')
        BY <2>3, <2>4, <2>7, <3>1
      <3>3. QED
        BY <2>1, <3>2 DEF InferredRiskWasApproved, Backed
    <2>11. QED
      BY <2>1, <2>3, <2>8, <2>9, <2>10 DEF ReviewInv
  <1>3. CASE ReadReview
    <2>1. UNCHANGED <<caps, approvals, manifests, granted>> /\ phase = "asked"
      BY <1>3 DEF ReadReview, registries
    <2>2. \/ phase' = "ready"
          \/ /\ phase' = "review"
             /\ approvals[Len(approvals)].status = "approved"
             /\ job' = [job EXCEPT !.inferred = @ \cup {Head(job.todo)}, !.todo = Tail(@)]
      BY <1>3 DEF ReadReview, Last
    <2>3. \A c : HighRisk(c)' = HighRisk(c)
      BY <2>1 DEF HighRisk
    <2>4. \A c, ids : Backed(c, ids, granted', approvals') = Backed(c, ids, granted, approvals)
      BY <2>1 DEF Backed
    <2>5. ASSUME phase' = "review" PROVE JobInv'
      <3>1. /\ approvals[Len(approvals)].status = "approved"
            /\ job'.spoc = job.spoc /\ job'.inferred = job.inferred \cup {Head(job.todo)}
            /\ job'.asked = job.asked
            /\ job' = [spoc |-> job'.spoc, inferred |-> job'.inferred, todo |-> job'.todo,
                       asked |-> job'.asked]
        BY <2>1, <2>2, <2>5 DEF ReviewInv, JobInv
      <3>2. /\ job.asked \subseteq DOMAIN approvals
            /\ \A c \in job.inferred : HighRisk(c) => Backed(c, job.asked, granted, approvals)
            /\ Len(approvals) \in job.asked
            /\ approvals[Len(approvals)].subject = Head(job.todo)
        BY <2>1 DEF ReviewInv, JobInv
      <3>3. Backed(Head(job.todo), job.asked, granted, approvals)
        BY <3>1, <3>2 DEF ReviewInv, Backed
      <3>4. \A c \in job'.inferred : HighRisk(c)' => Backed(c, job'.asked, granted', approvals')
        BY <2>3, <2>4, <3>1, <3>2, <3>3
      <3>5. QED
        BY <2>1, <2>5, <3>1, <3>2, <3>4 DEF JobInv
    <2>6. phase' = "ready" => JobInv'
      BY DEF JobInv
    <2>7. JobInv'
      BY <2>2, <2>5, <2>6
    <2>8. QED
      BY <2>1, <2>2, <2>3, <2>7 DEF ReviewInv, InferredRiskWasApproved
  <1>4. ASSUME NEW denied \in BOOLEAN, FinishCompile(denied)
        PROVE  ReviewInv'
    <2>1. /\ UNCHANGED <<caps, approvals, granted>> /\ phase = "review" /\ phase' = "ready"
          /\ \/ manifests' = manifests
             \/ \E team : manifests' = manifests \cup {Manifest(job.spoc, job.inferred, team, denied)}
      BY <1>4 DEF FinishCompile, registries
    <2>2. \A team : LET m == Manifest(job.spoc, job.inferred, team, denied)
                    IN  m.inferred = job.inferred /\ m.asked = job.asked
      BY DEF Manifest
    <2>3. /\ job.asked \subseteq DOMAIN approvals
          /\ \A c \in job.inferred : HighRisk(c) => Backed(c, job.asked, granted, approvals)
      BY <2>1 DEF ReviewInv, JobInv
    <2>4. \A m \in manifests' : /\ m.asked \subseteq DOMAIN approvals
                                /\ \A c \in m.inferred : HighRisk(c) => Backed(c, m.asked, granted, approvals)
      BY <2>1, <2>2, <2>3 DEF ReviewInv, InferredRiskWasApproved, Backed
    <2>5. \A c : HighRisk(c)' = HighRisk(c)
      BY <2>1 DEF HighRisk
    <2>6. InferredRiskWasApproved'
      BY <2>1, <2>4, <2>5 DEF InferredRiskWasApproved, Backed
    <2>7. QED
      BY <2>1, <2>4, <2>6 DEF ReviewInv, JobInv
  <1>5. ASSUME NEW id \in DOMAIN approvals, NEW approved \in BOOLEAN, ResolveApproval(id, approved)
        PROVE  ReviewInv'
    <2> DEFINE st == IF approved THEN "approved" ELSE "rejected"
    <2>1. /\ UNCHANGED <<caps, manifests, job, phase>>
          /\ approvals' = [approvals EXCEPT ![id].status = st]
          /\ granted' = IF approved THEN granted \cup {id} ELSE granted
          /\ st \in Answers
          /\ st = "approved" => id \in granted'
      BY <1>5 DEF ResolveApproval, registries, Answers
    <2> HIDE DEF st
    <2>2. /\ approvals' \in RequestLog(X)
          /\ Len(approvals') = Len(approvals) /\ DOMAIN approvals' = DOMAIN approvals
          /\ \A i \in DOMAIN approvals : approvals'[i].subject = approvals[i].subject
          /\ \A i \in DOMAIN approvals : i # id => approvals'[i] = approvals[i]
          /\ approvals'[id].status = st
      <3>1. Answered(approvals, id, st, approvals')
        BY <2>1 DEF Answered
      <3>2. QED
        BY <1>x, <2>1, <3>1, AnswerIsRecorded
    <2>3. granted \subseteq granted'
      BY <2>1
    <2>4. \A c : HighRisk(c)' = HighRisk(c)
      BY <2>1 DEF HighRisk
    <2>5. ASSUME NEW c, NEW ids, ids \subseteq DOMAIN approvals, Backed(c, ids, granted, approvals)
          PROVE  Backed(c, ids, granted', approvals')
      BY <2>2, <2>3, <2>5, StaysBacked
    <2>6. JobInv'
      <3> SUFFICES ASSUME phase \in {"review", "asked"}
                   PROVE  JobInv'
        BY <2>1 DEF JobInv
      <3>1. /\ job.asked \subseteq DOMAIN approvals
            /\ \A c \in job.inferred : HighRisk(c) => Backed(c, job.asked, granted, approvals)
            /\ phase = "asked" => /\ Len(approvals) \in job.asked
                                  /\ approvals[Len(approvals)].subject = Head(job.todo)
        BY DEF ReviewInv, JobInv
      <3>2. \A c \in job.inferred : HighRisk(c)' => Backed(c, job.asked, granted', approvals')
        BY <2>4, <2>5, <3>1
      <3>3. QED
        BY <2>1, <2>2, <3>1, <3>2 DEF ReviewInv, JobInv, Backed
    <2>7. \A i \in DOMAIN approvals' : approvals'[i].status = "approved" => i \in granted'
      BY <2>1, <2>2, <2>3 DEF ReviewInv
    <2>8. InferredRiskWasApproved'
      <3>1. \A m \in manifests : /\ m.asked \subseteq DOMAIN approvals
                                 /\ \A c \in m.inferred : HighRisk(c) => Backed(c, m.asked, granted, approvals)
        BY DEF ReviewInv, InferredRiskWasApproved, Backed
      <3>2. \A m \in manifests : \A c \in m.inferred : HighRisk(c)' => Backed(c, m.asked, granted', approvals')
        BY <2>4, <2>5, <3>1
      <3>3. QED
        BY <2>1, <3>2 DEF InferredRiskWasApproved, Backed
    <2>9. QED
      BY <2>1, <2>2, <2>6, <2>7, <2>8 DEF ReviewInv
  <1>6. CASE Startup
    <2>1. UNCHANGED <<approvals, manifests, granted>> /\ manifests = {} /\ phase' \in {"ready", "down"}
      BY <1>6 DEF Startup, ReviewInv
    <2>2. QED
      BY <2>1 DEF ReviewInv, JobInv, InferredRiskWasApproved
  <1>7. CASE \/ \E d \in DOMAIN Blocks : ChangeDependency(d)
             \/ \E request \in Requests : Explain(request)
             \/ UNCHANGED vars
    <2>1. UNCHANGED <<caps, approvals, manifests, granted, job, phase>>
      BY <1>7 DEF ChangeDependency, Explain, vars, registries
    <2>2. \A c : HighRisk(c)' = HighRisk(c)
      BY <2>1 DEF HighRisk
    <2>3. QED
      BY <2>1, <2>2 DEF ReviewInv, JobInv, InferredRiskWasApproved, Backed
  <1>8. QED
    BY <1>1, <1>2, <1>3, <1>4, <1>5, <1>6, <1>7 DEF Next

\* No high-risk capability gets into a manifest by inference but on an approval
\* of that compilation's own request, whatever the registries, the adapter's
\* proposals and the order in which humans approve, reject or change their minds.
THEOREM InferredRiskIsApproved == Spec => []InferredRiskWasApproved
  <1>1. Init => ReviewInv
    <2> SUFFICES ASSUME Init PROVE ReviewInv
      OBVIOUS
    <2>1. approvals = <<>> /\ manifests = {} /\ phase = "boot"
      BY DEF Init
    <2>2. approvals \in RequestLog({}) /\ DOMAIN approvals = {}
      BY <2>1, EmptySeq DEF RequestLog
    <2>3. QED
      BY <2>1, <2>2 DEF ReviewInv, JobInv, InferredRiskWasApproved
  <1>2. ReviewInv => InferredRiskWasApproved
    BY DEF ReviewInv
  <1>3. QED
    BY <1>1, <1>2, ReviewStep, PTL DEF Spec

-----------------------------------------------------------------------------
(* Execution keys                                                          *)

\* The capabilities a run of spoc needs, with what was inferred for it.
Work(spoc, inferred) ==
  expand_dependencies(caps, {Resolve(caps, c) : c \in spoc.explicit \cup inferred})

\* Whichever way the agents are chosen, the required capabilities are the closure
\* of what the request names.
LEMMA MatchKeepsWork ==
  ASSUME NEW spoc, NEW inferred
  PROVE  match(MatchRequest(spoc.explicit \cup inferred, spoc.class), agents, caps).required
           = Work(spoc, inferred)
  <1> DEFINE E == spoc.explicit \cup inferred
             q == MatchRequest(E, spoc.class)
  <1>1. q.explicit = E
    BY DEF MatchRequest
  <1> DEFINE R == expand_dependencies(caps, {Resolve(caps, c) : c \in q.explicit})
  <1>2. R = Work(spoc, inferred)
    BY <1>1 DEF Work
  <1> HIDE DEF q, R
  <1>3. MatchByScore(q, agents, caps, R).required = R
    BY DEF MatchByScore
  <1>4. MatchWithDelegation(q, agents, caps, R).required = R
    BY DEF MatchWithDelegation, NoTeam
  <1>5. match(q, agents, caps) \in {MatchByScore(q, agents, caps, R), MatchWithDelegation(q, agents, caps, R)}
    BY DEF match, R
  <1>6. match(q, agents, caps).required = R
    BY <1>3, <1>4, <1>5
  <1>7. QED
    BY <1>2, <1>6 DEF q

\* A SPOC that forbids inference gets none: nothing is left to review either.
Explicit(spoc, inferred) == spoc.inference \/ inferred = {}

\* What a manifest says was settled when its compilation began, and the key with it.
WorkInv ==
  /\ phase = "boot" => manifests = {}
  /\ phase \in {"review", "asked"} =>
       /\ job = [spoc |-> job.spoc, inferred |-> job.inferred, todo |-> job.todo, asked |-> job.asked]
       /\ job.spoc \in Spocs
       /\ Explicit(job.spoc, job.inferred)
       /\ job.spoc.inference \/ job.todo = <<>>
       /\ phase = "asked" => job.todo # <<>>
  /\ \A m \in manifests :
       /\ m.spoc \in Spocs
       /\ m.key = ExecutionKey(m.spoc)
       /\ Explicit(m.spoc, m.inferred)
       /\ m.team.required = Work(m.spoc, m.inferred)

\* Every step keeps manifests to what their SPOC and its review came to.
LEMMA WorkStep == WorkInv /\ [Next]_vars => WorkInv'
  <1> SUFFICES ASSUME WorkInv, [Next]_vars PROVE WorkInv'
    OBVIOUS
  <1>w. ASSUME caps' = caps, NEW spoc, NEW inferred
        PROVE  Work(spoc, inferred)' = Work(spoc, inferred)
    BY <1>w DEF Work
  <1>1. ASSUME NEW spoc \in Spocs, NEW proposal \in Proposals, Compile(spoc, proposal)
        PROVE  WorkInv'
    <2>1. UNCHANGED <<caps, manifests>> /\ phase' \in {"ready", "review"}
      BY <1>1 DEF Compile, registries
    <2>2. phase' = "review" =>
            job' = [spoc |-> spoc, inferred |-> AutoAdded(spoc, proposal),
                    todo |-> NeedsReview(spoc, proposal), asked |-> {}]
      BY <1>1 DEF Compile
    <2>3. /\ spoc.inference \/ AutoAdded(spoc, proposal) = {}
          /\ spoc.inference \/ NeedsReview(spoc, proposal) = <<>>
      BY DEF AutoAdded, NeedsReview
    <2>4. QED
      BY <2>1, <2>2, <2>3, <1>w DEF WorkInv, Explicit
  <1>2. CASE RequestReview
    <2>1. /\ UNCHANGED <<caps, manifests>> /\ phase = "review" /\ phase' = "asked" /\ job.todo # <<>>
          /\ job' = [job EXCEPT !.asked = @ \cup {Len(approvals) + 1}]
      BY <1>2 DEF RequestReview, registries
    <2>2. /\ job'.spoc = job.spoc /\ job'.inferred = job.inferred /\ job'.todo = job.todo
          /\ job' = [spoc |-> job'.spoc, inferred |-> job'.inferred, todo |-> job'.todo,
                     asked |-> job'.asked]
      BY <2>1 DEF WorkInv
    <2>3. QED
      BY <2>1, <2>2, <1>w DEF WorkInv, Explicit
  <1>3. CASE ReadReview
    <2>1. UNCHANGED <<caps, manifests>> /\ phase = "asked"
      BY <1>3 DEF ReadReview, registries
    <2>2. \/ phase' = "ready"
          \/ phase' = "review"
             /\ job' = [job EXCEPT !.inferred = @ \cup {Head(job.todo)}, !.todo = Tail(@)]
      BY <1>3 DEF ReadReview
    <2>3. phase' = "review" =>
            /\ job'.spoc = job.spoc
            /\ job' = [spoc |-> job'.spoc, inferred |-> job'.inferred, todo |-> job'.todo,
                       asked |-> job'.asked]
      BY <2>1, <2>2 DEF WorkInv
    <2>4. job.spoc.inference
      BY <2>1 DEF WorkInv
    <2>5. QED
      BY <2>1, <2>2, <2>3, <2>4, <1>w DEF WorkInv, Explicit
  <1>4. ASSUME NEW denied \in BOOLEAN, FinishCompile(denied)
        PROVE  WorkInv'
    <2> DEFINE E    == job.spoc.explicit \cup job.inferred
               team == match(MatchRequest(E, job.spoc.class), agents, caps)
               m    == Manifest(job.spoc, job.inferred, team, denied)
    <2>1. /\ caps' = caps /\ phase = "review" /\ phase' = "ready"
          /\ manifests' = manifests \/ manifests' = manifests \cup {m}
      BY <1>4 DEF FinishCompile, registries
    <2>2. team.required = Work(job.spoc, job.inferred)
      BY MatchKeepsWork
    <2>3. /\ m.spoc = job.spoc /\ m.inferred = job.inferred /\ m.team = team
          /\ m.key = ExecutionKey(job.spoc)
      BY DEF Manifest
    <2> HIDE DEF team, m
    <2>4. /\ m.spoc \in Spocs /\ m.key = ExecutionKey(m.spoc) /\ Explicit(m.spoc, m.inferred)
          /\ m.team.required = Work(m.spoc, m.inferred)
      BY <2>1, <2>2, <2>3 DEF WorkInv
    <2>5. QED
      BY <2>1, <2>4, <1>w DEF WorkInv
  <1>5. CASE Startup
    <2>1. manifests' = {} /\ phase' \in {"ready", "down"}
      BY <1>5 DEF Startup, WorkInv
    <2>2. QED
      BY <2>1 DEF WorkInv
  <1>6. CASE \/ \E id \in DOMAIN approvals, approved \in BOOLEAN : ResolveApproval(id, approved)
             \/ \E d \in DOMAIN Blocks : ChangeDependency(d)
             \/ \E request \in Requests : Explain(request)
             \/ UNCHANGED vars
    <2>1. UNCHANGED <<caps, manifests, job, phase>>
      BY <1>6 DEF ResolveApproval, ChangeDependency, Explain, vars, registries
    <2>2. QED
      BY <2>1, <1>w DEF WorkInv, Explicit
  <1>7. QED
    BY <1>1, <1>2, <1>3, <1>4, <1>5, <1>6 DEF Next

\* Manifests with one execution key need the same capabilities, whatever was
\* compiled in between, unless their SPOC declared its own hash or let a model
\* infer: the key stands for the work (compute_execution_key).
THEOREM KeysStandForWork == Spec => []SameKeySameWork
  <1>1. Init => WorkInv
    BY DEF Init, WorkInv
  <1>2. WorkInv => SameKeySameWork
    <2> SUFFICES ASSUME WorkInv, NEW m \in manifests, NEW n \in manifests, m.key = n.key,
                        \A k \in {m, n} : k.spoc.declared = Nothing /\ ~k.spoc.inference
                 PROVE  m.team.required = n.team.required
      BY DEF SameKeySameWork
    <2>1. m.key.version = m.spoc.content /\ n.key.version = n.spoc.content
      <3>1. m.key = ExecutionKey(m.spoc) /\ n.key = ExecutionKey(n.spoc)
        BY DEF WorkInv
      <3>2. \A x : ExecutionKey(x).version = Version(x)
        BY DEF ExecutionKey
      <3>3. Version(m.spoc) = m.spoc.content /\ Version(n.spoc) = n.spoc.content
        BY DEF Version
      <3>4. QED
        BY <3>1, <3>2, <3>3
    <2>2. m.spoc.explicit = n.spoc.explicit
      BY <2>1, ContentIsHashed DEF WorkInv
    <2>3. m.inferred = {} /\ n.inferred = {}
      BY DEF WorkInv, Explicit
    <2>4. Work(m.spoc, m.inferred) = Work(n.spoc, n.inferred)
      BY <2>2, <2>3 DEF Work
    <2>5. QED
      BY <2>4 DEF WorkInv
  <1>3. QED
    BY <1>1, <1>2, WorkStep, PTL DEF Spec

-----------------------------------------------------------------------------
(* Counting.  An argument that would go by induction takes the least       *)
(* counterexample.                                                         *)

\* Some member of a set of numbers is the least.
LEMMA Least ==
  ASSUME NEW S \in SUBSET Nat, S # {}
  PROVE  \E n \in S : \A m \in S : n <= m
<1>1. PICK n \in S : \A m \in S : <<m, n>> \notin OpToRel(<, Nat)
  BY NatLessThanWellFounded, WFMin
<1>2. ASSUME NEW m \in S, m < n
      PROVE  <<m, n>> \in OpToRel(<, Nat)
  BY <1>2 DEF OpToRel
<1>3. \A m \in S : m \in Nat /\ n \in Nat /\ ~(m < n)
  BY <1>1, <1>2
<1> QED
  BY <1>3

\* The parts of a finite set are finite, and smaller without one of their members.
LEMMA PartsAreFinite ==
  ASSUME NEW N, IsFiniteSet(N), NEW s \in SUBSET N
  PROVE  /\ IsFiniteSet(s) /\ Cardinality(s) \in Nat /\ Cardinality(s) <= Cardinality(N)
         /\ Cardinality(s) = 0 <=> s = {}
         /\ \A x \in s : s \ {x} \in SUBSET N /\ Cardinality(s \ {x}) = Cardinality(s) - 1
<1>1. IsFiniteSet(s) /\ Cardinality(s) <= Cardinality(N)
  BY FS_Subset
<1>2. Cardinality(s) \in Nat /\ (Cardinality(s) = 0 <=> s = {})
  BY <1>1, FS_CardinalityType, FS_EmptySet
<1> QED
  BY <1>1, <1>2, FS_RemoveElement

\* Of the parts that are in T, there is one without a smaller one in T.
LEMMA SmallestPart ==
  ASSUME NEW N, IsFiniteSet(N), NEW T \in SUBSET SUBSET N, T # {}
  PROVE  \E s \in T : \A x \in s : s \ {x} \in (SUBSET N) \ T
<1> DEFINE S == {Cardinality(s) : s \in T}
<1>1. S \in SUBSET Nat /\ S # {}
  BY PartsAreFinite
<1>2. PICK n \in S : \A m \in S : n <= m
  BY <1>1, Least
<1>3. PICK s \in T : n = Cardinality(s)
  BY <1>2
<1>4. ASSUME NEW x \in s, s \ {x} \in T
      PROVE  FALSE
  <2>1. Cardinality(s \ {x}) = n - 1 /\ n \in Nat
    BY <1>3, PartsAreFinite
  <2>2. Cardinality(s \ {x}) \in S
    BY <1>4
  <2> HIDE DEF S
  <2>3. n <= Cardinality(s \ {x})
    BY <1>2, <2>2
  <2> QED
    BY <2>1, <2>3
<1>5. \A x \in s : s \ {x} \in SUBSET N
  BY PartsAreFinite
<1> HIDE DEF S
<1> QED
  BY <1>4, <1>5

-----------------------------------------------------------------------------
(* Dependencies: the expansion is closed                                   *)

\* The rounds of expand_dependencies, as they are defined there.
RoundFrom(f, reg, S, n) ==
  IF n = 0 THEN {Resolve(reg, c) : c \in S} ELSE f[n - 1] \cup Required(reg, f[n - 1])
AreRounds(f, reg, S) == f = [n \in Nat |-> RoundFrom(f, reg, S, n)]
Rounds(reg, S) == CHOOSE f : AreRounds(f, reg, S)

\* The first rounds, up to n.
RoundsTo(f, reg, S, n) == f = [k \in 0 .. n |-> RoundFrom(f, reg, S, k)]

\* expand_dependencies is the round after as many as there are capabilities.
LEMMA ExpansionIsARound ==
  ASSUME NEW reg, NEW S
  PROVE  expand_dependencies(reg, S) = Rounds(reg, S)[Cardinality(DOMAIN reg.entries)]
  BY DEF expand_dependencies, Rounds, AreRounds, RoundFrom

\* Any number of rounds can be made.
LEMMA FirstRoundsExist ==
  ASSUME NEW reg, NEW S, NEW m \in Nat
  PROVE  \E f : RoundsTo(f, reg, S, m)
<1> DEFINE Bad == {n \in Nat : ~ \E f : RoundsTo(f, reg, S, n)}
<1>1. ASSUME Bad # {}
      PROVE  FALSE
  <2>1. PICK n \in Bad : \A k \in Bad : n <= k
    BY <1>1, Least
  <2>2. CASE n = 0
    <3>1. RoundsTo([k \in 0 .. 0 |-> {Resolve(reg, c) : c \in S}], reg, S, 0)
      BY DEF RoundsTo, RoundFrom
    <3> QED
      BY <2>1, <2>2, <3>1
  <2>3. CASE n # 0
    <3>1. n \in Nat /\ n - 1 \in Nat /\ n - 1 \notin Bad
      BY <2>1, <2>3
    <3>2. PICK f : RoundsTo(f, reg, S, n - 1)
      BY <3>1
    <3> DEFINE g == [k \in 0 .. n |-> RoundFrom(f, reg, S, k)]
    <3>3. \A k \in 0 .. n : k # 0 => k - 1 \in 0 .. n - 1 /\ k - 1 \in 0 .. n
      BY <3>1
    <3>4. \A k \in 0 .. n - 1 : k \in 0 .. n /\ f[k] = RoundFrom(f, reg, S, k)
      BY <3>1, <3>2 DEF RoundsTo
    <3>5. \A k \in 0 .. n - 1 : g[k] = f[k]
      BY <3>4
    <3> HIDE DEF g
    <3>6. \A k \in 0 .. n : RoundFrom(f, reg, S, k) = RoundFrom(g, reg, S, k)
      BY <3>3, <3>5 DEF RoundFrom
    <3>7. RoundsTo(g, reg, S, n)
      BY <3>6 DEF RoundsTo, g
    <3> QED
      BY <2>1, <3>7
  <2> QED
    BY <2>2, <2>3
<1> QED
  BY <1>1

\* Where two have made a round, it is the same.
LEMMA RoundsAgree ==
  ASSUME NEW reg, NEW S, NEW m \in Nat, NEW n \in Nat, NEW f, NEW g,
         RoundsTo(f, reg, S, m), RoundsTo(g, reg, S, n), NEW i \in (0 .. m) \cap (0 .. n)
  PROVE  f[i] = g[i]
<1> DEFINE Bad == {k \in Nat : k <= m /\ k <= n /\ f[k] # g[k]}
<1>0. \A k \in Nat : k <= m /\ k <= n =>
        f[k] = RoundFrom(f, reg, S, k) /\ g[k] = RoundFrom(g, reg, S, k)
  BY DEF RoundsTo
<1>1. ASSUME Bad # {}
      PROVE  FALSE
  <2>1. PICK k \in Bad : \A j \in Bad : k <= j
    BY <1>1, Least
  <2>2. k \in Nat /\ k <= m /\ k <= n /\ f[k] # g[k]
    BY <2>1
  <2>3. CASE k = 0
    BY <1>0, <2>2, <2>3 DEF RoundFrom
  <2>4. CASE k # 0
    <3>1. k - 1 \in Nat /\ k - 1 <= m /\ k - 1 <= n /\ k - 1 \notin Bad
      BY <2>1, <2>2, <2>4
    <3>2. f[k - 1] = g[k - 1]
      BY <3>1
    <3>3. RoundFrom(f, reg, S, k) = RoundFrom(g, reg, S, k)
      BY <2>4, <3>2 DEF RoundFrom
    <3> HIDE DEF Bad
    <3> QED
      BY <1>0, <2>2, <3>3
  <2> QED
    BY <2>3, <2>4
<1>2. i \in Nat /\ i <= m /\ i <= n
  OBVIOUS
<1> QED
  BY <1>1, <1>2

\* The rounds exist.
LEMMA RoundsExist ==
  ASSUME NEW reg, NEW S
  PROVE  AreRounds(Rounds(reg, S), reg, S)
<1> DEFINE P(n) == CHOOSE f : RoundsTo(f, reg, S, n)
           F == [n \in Nat |-> P(n)[n]]
<1>1. \A n \in Nat : RoundsTo(P(n), reg, S, n)
  BY FirstRoundsExist
<1> HIDE DEF P
<1>2. \A n \in Nat : F[n] = RoundFrom(P(n), reg, S, n)
  BY <1>1 DEF RoundsTo
<1>3. ASSUME NEW n \in Nat, n # 0
      PROVE  P(n)[n - 1] = F[n - 1]
  <2>1. n - 1 \in Nat /\ n - 1 \in (0 .. n) \cap (0 .. n - 1)
    BY <1>3
  <2>2. P(n)[n - 1] = P(n - 1)[n - 1]
    BY <1>1, <2>1, RoundsAgree
  <2> QED
    BY <2>1, <2>2
<1> HIDE DEF F
<1>4. \A n \in Nat : RoundFrom(P(n), reg, S, n) = RoundFrom(F, reg, S, n)
  BY <1>3 DEF RoundFrom
<1>5. AreRounds(F, reg, S)
  BY <1>2, <1>4 DEF AreRounds, F
<1> QED
  BY <1>5 DEF Rounds

\* What is required after one round for each entry has all it requires in it, and all that
\* was asked for: dependencies that form a cycle or a long chain are no exception.
THEOREM ExpansionIsClosed ==
  ASSUME NEW reg, IsFiniteSet(DOMAIN reg.entries), NEW S
  PROVE  /\ Required(reg, expand_dependencies(reg, S)) \subseteq expand_dependencies(reg, S)
         /\ \A c \in S : Resolve(reg, c) \in expand_dependencies(reg, S)
<1> DEFINE r == Rounds(reg, S)
           E == DOMAIN reg.entries
           N == Cardinality(E)
           Closed(n) == Required(reg, r[n]) \subseteq r[n]
           Fed(n) == Cardinality(r[n] \cap E) >= n + 1
<1>1. \A n \in Nat : r[n] = RoundFrom(r, reg, S, n)
  BY RoundsExist DEF AreRounds
<1> HIDE DEF r
<1>2. r[0] = {Resolve(reg, c) : c \in S}
  BY <1>1 DEF RoundFrom
<1>3. \A n \in Nat : n # 0 => r[n] = r[n - 1] \cup Required(reg, r[n - 1])
  BY <1>1 DEF RoundFrom
<1>4. \A n \in Nat : /\ Cardinality(r[n] \cap E) \in Nat /\ Cardinality(r[n] \cap E) <= N
                     /\ IsFiniteSet(r[n] \cap E) /\ N \in Nat
                     /\ Cardinality(r[n] \cap E) = 0 <=> r[n] \cap E = {}
  <2> SUFFICES ASSUME NEW n \in Nat
               PROVE  /\ Cardinality(r[n] \cap E) \in Nat /\ Cardinality(r[n] \cap E) <= N
                      /\ IsFiniteSet(r[n] \cap E) /\ N \in Nat
                      /\ Cardinality(r[n] \cap E) = 0 <=> r[n] \cap E = {}
    OBVIOUS
  <2>1. r[n] \cap E \in SUBSET E
    OBVIOUS
  <2> QED
    BY <2>1, PartsAreFinite, FS_CardinalityType
<1>5. \A X, Y : X \cap E = Y \cap E => Required(reg, X) = Required(reg, Y)
  BY DEF Required
<1> DEFINE Bad == {n \in Nat : ~(Closed(n) \/ Fed(n))}
<1>6. ASSUME Bad # {}
      PROVE  FALSE
  <2>1. PICK n \in Bad : \A k \in Bad : n <= k
    BY <1>6, Least
  <2>2. n \in Nat /\ ~Closed(n) /\ ~Fed(n)
    BY <2>1
  <2>3. CASE n = 0
    <3>1. r[0] \cap E = {}
      BY <1>4, <2>2, <2>3
    <3>2. Required(reg, r[0]) = {}
      BY <3>1 DEF Required
    <3> QED
      BY <2>2, <2>3, <3>2
  <2>4. CASE n # 0
    <3>1. n - 1 \in Nat /\ (Closed(n - 1) \/ Fed(n - 1))
      BY <2>1, <2>2, <2>4
    <3>2. r[n] = r[n - 1] \cup Required(reg, r[n - 1])
      BY <1>3, <2>2, <2>4
    <3>3. CASE Closed(n - 1)
      BY <2>2, <3>2, <3>3
    <3>4. CASE r[n] \cap E = r[n - 1] \cap E
      <4>1. Required(reg, r[n]) = Required(reg, r[n - 1])
        BY <1>5, <3>4
      <4> QED
        BY <2>2, <3>2, <4>1
    <3>5. CASE Fed(n - 1) /\ r[n] \cap E # r[n - 1] \cap E
      <4> DEFINE A == r[n - 1] \cap E
                 B == r[n] \cap E
      <4>1. A \subseteq B /\ A # B /\ IsFiniteSet(B)
        BY <1>4, <2>2, <3>2, <3>5
      <4>2. Cardinality(A) < Cardinality(B)
        <5> HIDE DEF A, B
        <5>1. Cardinality(A) <= Cardinality(B) /\ Cardinality(A) # Cardinality(B) /\ IsFiniteSet(A)
          BY <4>1, FS_Subset
        <5> QED
          BY <4>1, <5>1, FS_CardinalityType
      <4>3. /\ Cardinality(A) \in Nat /\ Cardinality(B) \in Nat
            /\ Cardinality(A) >= (n - 1) + 1 /\ ~(Cardinality(B) >= n + 1)
        BY <1>4, <2>2, <3>1, <3>5
      <4> HIDE DEF A, B
      <4> QED
        BY <2>2, <4>2, <4>3
    <3> QED
      BY <3>1, <3>3, <3>4, <3>5
  <2> QED
    BY <2>3, <2>4
<1>7. Closed(N)
  <2>1. N \in Nat /\ Cardinality(r[N] \cap E) \in Nat /\ Cardinality(r[N] \cap E) <= N
    BY <1>4, FS_CardinalityType
  <2>2. ~Fed(N)
    BY <2>1
  <2> QED
    BY <1>6, <2>1, <2>2
<1> DEFINE Lost == {n \in Nat : ~(r[0] \subseteq r[n])}
<1>8. ASSUME Lost # {}
      PROVE  FALSE
  <2>1. PICK n \in Lost : \A k \in Lost : n <= k
    BY <1>8, Least
  <2>2. n \in Nat /\ n # 0 /\ ~(r[0] \subseteq r[n])
    BY <2>1
  <2>3. n - 1 \in Nat /\ n - 1 \notin Lost
    BY <2>1, <2>2
  <2> QED
    BY <1>3, <2>2, <2>3
<1>9. r[0] \subseteq r[N]
  BY <1>8, FS_CardinalityType
<1>10. expand_dependencies(reg, S) = r[N]
  BY ExpansionIsARound DEF r
<1> QED
  BY <1>2, <1>7, <1>9, <1>10

-----------------------------------------------------------------------------
(* Scores are numbers                                                      *)

\* What MapThenSumSet computes, over all parts of the set.
SumFrom(f, e, s) ==
  IF s = {} THEN 0 ELSE e[CHOOSE x \in s : TRUE] + f[s \ {CHOOSE x \in s : TRUE}]
AreSums(f, N, e) == f = [s \in SUBSET N |-> SumFrom(f, e, s)]
Sums(N, e) == CHOOSE f : AreSums(f, N, e)

\* The sums over the parts of up to n members.
SumsTo(f, N, e, n) == f = [s \in {t \in SUBSET N : Cardinality(t) <= n} |-> SumFrom(f, e, s)]

\* The sums exist.
LEMMA SumsExist ==
  ASSUME NEW N, IsFiniteSet(N), NEW e
  PROVE  AreSums(Sums(N, e), N, e)
<1> DEFINE Bad == {n \in Nat : ~ \E f : SumsTo(f, N, e, n)}
           UpTo(n) == {t \in SUBSET N : Cardinality(t) <= n}
<1>1. ASSUME Bad # {}
      PROVE  FALSE
  <2>1. PICK n \in Bad : \A k \in Bad : n <= k
    BY <1>1, Least
  <2>2. CASE n = 0
    <3>1. \A s \in UpTo(0) : s = {}
      BY PartsAreFinite
    <3>2. SumsTo([s \in UpTo(0) |-> 0], N, e, 0)
      BY <3>1 DEF SumsTo, SumFrom
    <3> QED
      BY <2>1, <2>2, <3>2
  <2>3. CASE n # 0
    <3>1. n \in Nat /\ n - 1 \in Nat /\ n - 1 \notin Bad
      BY <2>1, <2>3
    <3>2. PICK f : SumsTo(f, N, e, n - 1)
      BY <3>1
    <3> DEFINE g == [s \in UpTo(n) |-> SumFrom(f, e, s)]
    <3>3. \A s \in UpTo(n) : \A x \in s : s \ {x} \in UpTo(n - 1)
      <4> SUFFICES ASSUME NEW s \in UpTo(n), NEW x \in s
                   PROVE  s \ {x} \in UpTo(n - 1)
        OBVIOUS
      <4>1. /\ Cardinality(s) \in Nat /\ Cardinality(s) <= n
            /\ s \ {x} \in SUBSET N /\ Cardinality(s \ {x}) = Cardinality(s) - 1
        BY PartsAreFinite
      <4>2. Cardinality(s \ {x}) <= n - 1
        BY <3>1, <4>1
      <4> QED
        BY <4>1, <4>2
    <3>4. \A s \in UpTo(n - 1) : s \in UpTo(n)
      BY <3>1, PartsAreFinite
    <3>5. \A s \in UpTo(n - 1) : f[s] = SumFrom(f, e, s) /\ g[s] = SumFrom(f, e, s)
      BY <3>2, <3>4 DEF SumsTo
    <3> HIDE DEF g
    <3>6. \A s \in UpTo(n) : SumFrom(f, e, s) = SumFrom(g, e, s)
      <4> SUFFICES ASSUME NEW s \in UpTo(n), s # {}
                   PROVE  SumFrom(f, e, s) = SumFrom(g, e, s)
        BY DEF SumFrom
      <4>1. (CHOOSE x \in s : TRUE) \in s
        OBVIOUS
      <4>2. f[s \ {CHOOSE x \in s : TRUE}] = g[s \ {CHOOSE x \in s : TRUE}]
        BY <3>3, <3>5, <4>1
      <4> QED
        BY <4>2 DEF SumFrom
    <3>7. SumsTo(g, N, e, n)
      BY <3>6 DEF SumsTo, g
    <3> QED
      BY <2>1, <3>7
  <2> QED
    BY <2>2, <2>3
<1>2. Cardinality(N) \in Nat
  BY FS_CardinalityType
<1>3. PICK f : SumsTo(f, N, e, Cardinality(N))
  BY <1>1, <1>2
<1>4. UpTo(Cardinality(N)) = SUBSET N
  BY PartsAreFinite
<1>5. AreSums(f, N, e)
  BY <1>3, <1>4 DEF AreSums, SumsTo
<1> QED
  BY <1>5 DEF Sums

\* A sum of numbers is a number.
LEMMA TotalTyped ==
  ASSUME NEW N, IsFiniteSet(N), NEW e, \A c \in N : e[c] \in Nat
  PROVE  Sums(N, e)[N] \in Nat
<1> DEFINE f == Sums(N, e)
           Odd == {s \in SUBSET N : f[s] \notin Nat}
<1>0. AreSums(f, N, e)
  BY SumsExist
<1> HIDE DEF f
<1>1. \A s \in SUBSET N : f[s] = SumFrom(f, e, s)
  BY <1>0 DEF AreSums
<1>2. ASSUME Odd # {}
      PROVE  FALSE
  <2>1. PICK s \in Odd : \A x \in s : s \ {x} \in (SUBSET N) \ Odd
    <3>1. Odd \in SUBSET SUBSET N
      OBVIOUS
    <3> HIDE DEF Odd
    <3> QED
      BY <1>2, <3>1, SmallestPart
  <2>2. s \in SUBSET N /\ f[s] \notin Nat
    BY <2>1
  <2>3. CASE s = {}
    <3>1. SumFrom(f, e, s) = 0
      BY <2>3 DEF SumFrom
    <3> QED
      BY <1>1, <2>2, <3>1
  <2>4. CASE s # {}
    <3> DEFINE x == CHOOSE y \in s : TRUE
    <3>1. x \in s
      BY <2>4
    <3>2. e[x] \in Nat /\ f[s \ {x}] \in Nat
      BY <2>1, <2>2, <3>1
    <3>3. f[s] = e[x] + f[s \ {x}]
      BY <1>1, <2>2, <2>4 DEF SumFrom
    <3> HIDE DEF x
    <3> QED
      BY <2>2, <3>2, <3>3
  <2> QED
    BY <2>3, <2>4
<1>3. f[N] \in Nat
  BY <1>2
<1> QED
  BY <1>3 DEF f

-----------------------------------------------------------------------------
(* Ranking                                                                 *)

\* Agents that can be told apart, with ranks that can be compared.
Ranked(rank) ==
  /\ IsFiniteSet(DOMAIN rank)
  /\ \A a \in DOMAIN rank : rank[a] \in Int /\ a.id \in Nat
  /\ \A a, b \in DOMAIN rank : a.id = b.id => a = b

\* The order of FirstBy.
Before(rank, a, b) == rank[a] > rank[b] \/ (rank[a] = rank[b] /\ a.id < b.id)

\* FirstBy is one of those it ranks.
LEMMA FirstIsRanked ==
  ASSUME NEW rank, Ranked(rank), DOMAIN rank # {}
  PROVE  FirstBy(rank) \in DOMAIN rank
<1> DEFINE D == DOMAIN rank
           First(a, s) == \A b \in s \ {a} : Before(rank, a, b)
           Bad == {s \in SUBSET D : s # {} /\ ~ \E a \in s : First(a, s)}
<1>1. /\ \A a \in D : rank[a] \in Int /\ a.id \in Nat
      /\ \A a, b \in D : a # b => a.id # b.id
      /\ IsFiniteSet(D)
  BY DEF Ranked
<1> HIDE DEF D
<1>2. \A a, b \in D : a # b => Before(rank, a, b) \/ Before(rank, b, a)
  BY <1>1 DEF Before
<1>3. \A a, b, c \in D : Before(rank, a, b) /\ Before(rank, b, c) => Before(rank, a, c)
  BY <1>1 DEF Before
<1>4. ASSUME Bad # {}
      PROVE  FALSE
  <2>1. PICK s \in Bad : \A x \in s : s \ {x} \in (SUBSET D) \ Bad
    <3>1. Bad \in SUBSET SUBSET D
      OBVIOUS
    <3> HIDE DEF Bad
    <3> QED
      BY <1>1, <1>4, <3>1, SmallestPart
  <2>2. s \in SUBSET D /\ s # {} /\ ~ \E a \in s : First(a, s)
    BY <2>1
  <2>3. PICK x \in s : TRUE
    BY <2>2
  <2>4. CASE s \ {x} = {}
    BY <2>2, <2>3, <2>4
  <2>5. CASE s \ {x} # {}
    <3>1. PICK y \in s \ {x} : First(y, s \ {x})
      BY <2>1, <2>3, <2>5
    <3>2. x \in D /\ y \in D /\ x # y
      BY <2>2, <2>3, <3>1
    <3>3. CASE Before(rank, y, x)
      <4>1. First(y, s)
        BY <3>1, <3>3
      <4> QED
        BY <2>2, <3>1, <4>1
    <3>4. CASE Before(rank, x, y)
      <4>1. \A b \in s \ {x} : b = y \/ (b \in D /\ Before(rank, y, b))
        BY <2>2, <3>1
      <4>2. First(x, s)
        BY <1>3, <3>2, <3>4, <4>1
      <4> QED
        BY <2>2, <2>3, <4>2
    <3> QED
      BY <1>2, <3>2, <3>3, <3>4
  <2> QED
    BY <2>4, <2>5
<1>5. \E a \in D : First(a, D)
  BY <1>4 DEF D
<1>6. FirstBy(rank) = CHOOSE a \in D : First(a, D)
  BY DEF FirstBy, Before, D
<1> HIDE DEF First
<1> QED
  BY <1>5, <1>6 DEF D

-----------------------------------------------------------------------------
(* Matching                                                                *)

\* An agent as its schema has it.
AgentTyped(a) ==
  /\ a.id \in Nat
  /\ a.minRate \in Nat \cup {Nothing}
  /\ IsFiniteSet(DOMAIN a.claims)
  /\ \A c \in DOMAIN a.claims : a.claims[c] \in Nat

\* Registries that have loaded: of an agent's claims all are known.
Loaded ==
  /\ IsFiniteSet(DOMAIN caps.entries)
  /\ IsFiniteSet(agents)
  /\ \A a \in agents : AgentTyped(a) /\ \A c \in DOMAIN a.claims : Known(caps, c)
  /\ \A a, b \in agents : a.id = b.id => a = b

\* An id finds its agent.
LEMMA AgentFound ==
  ASSUME Loaded, NEW a \in agents
  PROVE  Agent(a.id) = a
  BY DEF Loaded, Agent

\* What an agent satisfies it holds, and the other way round.
LEMMA SatisfiesIsHolds ==
  ASSUME Loaded, NEW a \in agents, NEW c
  PROVE  Satisfies(a, caps, c) <=> Holds(a, c)
  BY DEF Loaded, Satisfies, Holds, Minimum

\* The filters that look at everything but capabilities let those pass that are fit.
LEMMA FiltersAreFit ==
  ASSUME Loaded, NEW a \in agents, NEW q, RequestTyped(q)
  PROVE  /\ \A R : PassesFilters(a, q, caps, R, FALSE) <=> Fit(a, q)
         /\ \A R : PassesFilters(a, q, caps, R, TRUE) <=> Fit(a, q) /\ \A c \in R : Holds(a, c)
<1>1. a.minRate \in Nat \cup {Nothing}
  BY DEF Loaded, AgentTyped
<1>2. /\ q.budget \in Nat \cup {Nothing}
      /\ \A id \in DOMAIN q.costs : q.costs[id] \in Nat
      /\ \A id \in DOMAIN q.rates : q.rates[id] \in Nat
  BY DEF RequestTyped
<1>3. Affordable(a, q) <=>
        (q.budget # Nothing => ~(a.id \in DOMAIN q.costs /\ q.costs[a.id] > q.budget))
  BY <1>2 DEF Affordable, Lookup, Nothing
<1>4. evaluate_health(a, Lookup(q.rates, a.id)) <=>
        ~(a.id \in DOMAIN q.rates /\ q.rates[a.id] < a.minRate)
  BY <1>1, <1>2 DEF evaluate_health, Lookup, Nothing
<1>5. \A R : Covered(a, caps, R) = R <=> \A c \in R : Holds(a, c)
  BY SatisfiesIsHolds DEF Covered
<1>6. \A R, full : PassesFilters(a, q, caps, R, full) <=>
        Fit(a, q) /\ (full => Covered(a, caps, R) = R)
  BY <1>3, <1>4 DEF PassesFilters, FitToRun, Fit
<1> QED
  BY <1>5, <1>6

\* What an agent covers is finite.
LEMMA CoverIsFinite ==
  ASSUME Loaded, NEW a \in agents, NEW R
  PROVE  /\ IsFiniteSet(Covered(a, caps, R)) /\ Cardinality(Covered(a, caps, R)) \in Nat
         /\ \A c \in Covered(a, caps, R) : a.claims[c] \in Nat
<1>1. Covered(a, caps, R) \in SUBSET DOMAIN a.claims
  BY DEF Covered, Satisfies
<1>2. IsFiniteSet(DOMAIN a.claims) /\ \A c \in DOMAIN a.claims : a.claims[c] \in Nat
  BY DEF Loaded, AgentTyped
<1> QED
  BY <1>1, <1>2, FS_Subset, FS_CardinalityType

\* Numbers divide into numbers.
LEMMA Quotient ==
  ASSUME NEW m \in Int, NEW n \in Nat, n # 0
  PROVE  m \div n \in Int
  OBVIOUS

\* Every score is a number.
LEMMA ScoreTyped ==
  ASSUME Loaded, NEW a \in agents, NEW q, RequestTyped(q), NEW K, IsFiniteSet(K),
         \A c \in K : a.claims[c] \in Nat
  PROVE  Score(a, q, K) \in Int
<1> DEFINE total    == MapThenSumSet(LAMBDA c : a.claims[c], K)
           coverage == IF K = {} THEN 0 ELSE (84 * total) \div Cardinality(K)
           quality  == IF a.minRate = Nothing THEN 120 ELSE 24 * a.minRate
           tools    == IF q.tools = {} THEN 120
                       ELSE (120 * Cardinality(q.tools \cap a.tools)) \div Cardinality(q.tools)
           model    == IF a.profile THEN 120 ELSE 60
           present  == IF a.id \in q.unavailable THEN 0 ELSE 60
<1>1. coverage \in Int
  <2>0. total = Sums(K, a.claims)[K]
    BY DEF MapThenSumSet, MapThenFoldSet, Sums, AreSums, SumFrom
  <2>1. total \in Nat
    <3> HIDE DEF total
    <3> QED
      BY <2>0, TotalTyped
  <2>2. K # {} => Cardinality(K) \in Nat /\ Cardinality(K) # 0
    BY FS_CardinalityType, FS_EmptySet
  <2> HIDE DEF total
  <2>3. 84 * total \in Int
    BY <2>1
  <2> QED
    BY <2>2, <2>3, Quotient
<1>2. quality \in Int
  BY DEF Loaded, AgentTyped
<1>3. tools \in Int
  <2>1. IsFiniteSet(q.tools) /\ q.tools \cap a.tools \in SUBSET q.tools
    BY DEF RequestTyped
  <2>2. /\ Cardinality(q.tools \cap a.tools) \in Nat
        /\ q.tools # {} => Cardinality(q.tools) \in Nat /\ Cardinality(q.tools) # 0
    BY <2>1, FS_Subset, FS_CardinalityType, FS_EmptySet
  <2>3. 120 * Cardinality(q.tools \cap a.tools) \in Int
    BY <2>2
  <2> QED
    BY <2>2, <2>3, Quotient
<1>4. model \in Int /\ present \in Int
  OBVIOUS
<1>5. Efficiency(a, q) \in Int
  <2> DEFINE cost == Lookup(q.costs, a.id)
  <2>1. cost \in Nat \cup {Nothing} /\ q.budget \in Nat \cup {Nothing}
    BY DEF RequestTyped, Lookup
  <2>2. Efficiency(a, q) = IF cost = Nothing \/ q.budget \in {Nothing, 0} THEN 60
                           ELSE IF cost > q.budget THEN 0
                           ELSE 60 - (60 * cost) \div q.budget
    BY DEF Efficiency
  <2> HIDE DEF cost
  <2>3. ASSUME cost # Nothing, q.budget \notin {Nothing, 0}
        PROVE  60 - (60 * cost) \div q.budget \in Int
    <3>1. 60 * cost \in Int /\ q.budget \in Nat /\ q.budget # 0
      BY <2>1, <2>3
    <3>2. (60 * cost) \div q.budget \in Int
      BY <3>1, Quotient
    <3> QED
      BY <3>2
  <2> QED
    BY <2>2, <2>3
<1>6. Score(a, q, K) = coverage + quality + tools + model + present + Efficiency(a, q)
  BY DEF Score
<1> HIDE DEF coverage, quality, tools, model, present
<1> QED
  BY <1>1, <1>2, <1>3, <1>4, <1>5, <1>6

\* A choice between the score's agents has one of them.
LEMMA TeamOfOne ==
  ASSUME Loaded, NEW q, RequestTyped(q), NEW R,
         \E a \in agents : PassesFilters(a, q, caps, R, TRUE)
  PROVE  \E p \in agents :
           /\ Fit(p, q) /\ \A c \in R : Holds(p, c)
           /\ MatchByScore(q, agents, caps, R) =
                [required |-> R, primary |-> p.id, delegates |-> {}, unresolved |-> {}]
<1> DEFINE full == {a \in agents : PassesFilters(a, q, caps, R, TRUE)}
           rank == [a \in full |-> Score(a, q, R)]
<1>1. full \subseteq agents /\ full # {} /\ IsFiniteSet(full)
  BY FS_Subset DEF Loaded
<1>2. ASSUME NEW a \in full
      PROVE  rank[a] \in Int /\ a.id \in Nat
  <2>1. a \in agents /\ PassesFilters(a, q, caps, R, TRUE)
    BY <1>2
  <2>2. Covered(a, caps, R) = R
    BY <2>1 DEF PassesFilters
  <2>3. Score(a, q, R) \in Int
    BY <2>1, <2>2, CoverIsFinite, ScoreTyped
  <2> QED
    BY <2>1, <2>3 DEF Loaded, AgentTyped
<1>3. \A a, b \in full : a.id = b.id => a = b
  BY <1>1 DEF Loaded
<1>4. DOMAIN rank = full
  OBVIOUS
<1>5. FirstBy(rank) \in full
  <2> HIDE DEF rank, full
  <2> QED
    BY <1>1, <1>2, <1>3, <1>4, FirstIsRanked DEF Ranked
<1>6. MatchByScore(q, agents, caps, R) =
        [required |-> R, primary |-> FirstBy(rank).id, delegates |-> {}, unresolved |-> {}]
  BY DEF MatchByScore
<1> HIDE DEF rank
<1>7. FirstBy(rank) \in agents /\ PassesFilters(FirstBy(rank), q, caps, R, TRUE)
  BY <1>5
<1> QED
  BY <1>6, <1>7, FiltersAreFit

\* A composition has a primary of those who cover something, and with it nobody, or one who
\* covers some of what is left.
LEMMA TeamOfTwo ==
  ASSUME Loaded, NEW q, RequestTyped(q), NEW R
  PROVE  LET t == MatchWithDelegation(q, agents, caps, R)
         IN  \/ t = NoTeam(R, R)
             \/ \E p \in agents :
                  /\ Fit(p, q)
                  /\ t.required = R /\ t.primary = p.id
                  /\ \/ t.delegates = {} /\ t.unresolved = R \ Covered(p, caps, R)
                     \/ \E d \in agents :
                          /\ Fit(d, q) /\ t.delegates = {d.id}
                          /\ t.unresolved = (R \ Covered(p, caps, R)) \ Covered(d, caps, R)
<1> DEFINE Cov(a)   == Covered(a, caps, R)
           partial  == {a \in agents : PassesFilters(a, q, caps, R, FALSE) /\ Cov(a) # {}}
           rank     == [a \in partial |-> 10000 * Cardinality(Cov(a)) + Score(a, q, Cov(a))]
           primary  == FirstBy(rank)
           left     == R \ Cov(primary)
           helpers  == {a \in partial \ {primary} : Cov(a) \cap left # {}}
           second   == [a \in helpers |-> 1000000 * Cardinality(Cov(a) \cap left) + rank[a]]
           delegate == FirstBy(second)
           t        == MatchWithDelegation(q, agents, caps, R)
<1>1. t = IF partial = {} THEN NoTeam(R, R)
          ELSE [required   |-> R,
                primary    |-> primary.id,
                delegates  |-> IF helpers = {} THEN {} ELSE {delegate.id},
                unresolved |-> IF helpers = {} THEN left ELSE left \ Cov(delegate)]
  BY DEF MatchWithDelegation
<1> HIDE DEF t
<1>2. partial \subseteq agents /\ IsFiniteSet(partial) /\ \A a \in partial : Fit(a, q)
  <2>1. partial \subseteq agents /\ \A a \in partial : PassesFilters(a, q, caps, R, FALSE)
    OBVIOUS
  <2> HIDE DEF partial
  <2> QED
    BY <2>1, FS_Subset, FiltersAreFit DEF Loaded
<1>3. ASSUME NEW a \in partial
      PROVE  rank[a] \in Int /\ a.id \in Nat
  <2>1. a \in agents
    BY <1>2, <1>3
  <2>2. Score(a, q, Cov(a)) \in Int /\ Cardinality(Cov(a)) \in Nat
    BY <2>1, CoverIsFinite, ScoreTyped
  <2>3. rank[a] = 10000 * Cardinality(Cov(a)) + Score(a, q, Cov(a))
    BY <1>3
  <2> HIDE DEF rank, partial, Cov
  <2>4. rank[a] \in Int
    BY <2>2, <2>3
  <2> QED
    BY <2>1, <2>4 DEF Loaded, AgentTyped
<1>4. \A a, b \in partial : a.id = b.id => a = b
  BY <1>2 DEF Loaded
<1>5. DOMAIN rank = partial
  OBVIOUS
<1>6. helpers \subseteq partial
  <2> HIDE DEF partial, primary, left, Cov
  <2> QED
    OBVIOUS
<1>7. DOMAIN second = helpers /\ \A a \in helpers : second[a] = 1000000 * Cardinality(Cov(a) \cap left) + rank[a]
  <2> HIDE DEF helpers, partial, rank, left, Cov
  <2> QED
    OBVIOUS
<1>8. partial # {} => primary \in partial
  <2> HIDE DEF rank, partial
  <2> QED
    BY <1>2, <1>3, <1>4, <1>5, FirstIsRanked DEF Ranked
<1>9. helpers \subseteq partial /\ IsFiniteSet(helpers) /\ DOMAIN second = helpers
  <2> HIDE DEF helpers, second, partial
  <2> QED
    BY <1>2, <1>6, <1>7, FS_Subset
<1>10. ASSUME NEW a \in helpers
      PROVE  second[a] \in Int
  <2> HIDE DEF partial, primary, left, helpers, second, rank
  <2>1. a \in partial /\ a \in agents
    BY <1>2, <1>9, <1>10
  <2>2. IsFiniteSet(Cov(a)) /\ Cov(a) \cap left \in SUBSET Cov(a)
    BY <2>1, CoverIsFinite
  <2>3. Cardinality(Cov(a) \cap left) \in Nat
    BY <2>2, FS_Subset, FS_CardinalityType
  <2>4. rank[a] \in Int
    BY <1>3, <2>1
  <2>5. second[a] = 1000000 * Cardinality(Cov(a) \cap left) + rank[a]
    BY <1>7, <1>10
  <2> HIDE DEF Cov
  <2> QED
    BY <2>3, <2>4, <2>5
<1>11. helpers # {} => delegate \in helpers
  <2> HIDE DEF second, helpers, partial
  <2> QED
    BY <1>3, <1>4, <1>9, <1>10, FirstIsRanked DEF Ranked
<1>12. CASE partial = {}
  <2>1. t = NoTeam(R, R)
    <3> HIDE DEF partial, primary, left, helpers, delegate, Cov
    <3> QED
      BY <1>1, <1>12
  <2> HIDE DEF partial
  <2> QED
    BY <2>1 DEF t
<1>13. CASE partial # {}
  <2>1. /\ t.required = R /\ t.primary = primary.id
        /\ helpers = {} => t.delegates = {} /\ t.unresolved = left
        /\ helpers # {} => t.delegates = {delegate.id} /\ t.unresolved = left \ Cov(delegate)
    <3> HIDE DEF partial, rank, primary, left, helpers, second, delegate, Cov
    <3> QED
      BY <1>1, <1>13
  <2>2. primary \in agents /\ Fit(primary, q)
    <3> HIDE DEF partial, primary
    <3> QED
      BY <1>2, <1>8, <1>13
  <2>3. helpers # {} => delegate \in agents /\ Fit(delegate, q)
    <3> HIDE DEF partial, helpers, delegate
    <3> QED
      BY <1>2, <1>9, <1>11
  <2> HIDE DEF partial, rank, primary, helpers, second, delegate
  <2> QED
    BY <2>1, <2>2, <2>3 DEF t
<1> QED
  BY <1>12, <1>13

\* A team whose members are fit and leave nothing of a closed set uncovered is staffed.
LEMMA MatchIsStaffed ==
  ASSUME Loaded, NEW q, RequestTyped(q), match(q, agents, caps).unresolved = {}
  PROVE  Staffed(match(q, agents, caps), q)
<1> DEFINE X == {Resolve(caps, c) : c \in q.explicit}
           R == expand_dependencies(caps, X)
           t == match(q, agents, caps)
           alone == \E a \in agents : PassesFilters(a, q, caps, R, TRUE)
<1>1. t = IF alone THEN MatchByScore(q, agents, caps, R)
          ELSE MatchWithDelegation(q, agents, caps, R)
  BY DEF match
<1>2. /\ Required(caps, R) \subseteq R
      /\ \A c \in q.explicit : Resolve(caps, Resolve(caps, c)) \in R
  <2>1. Required(caps, R) \subseteq R /\ \A c \in X : Resolve(caps, c) \in R
    <3>1. IsFiniteSet(DOMAIN caps.entries)
      BY DEF Loaded
    <3> HIDE DEF X
    <3> QED
      BY <3>1, ExpansionIsClosed
  <2> HIDE DEF R
  <2> QED
    BY <2>1
<1> HIDE DEF R
<1>3. \A a \in agents : Agent(a.id) = a /\ a.id # Nothing
  BY AgentFound DEF Loaded, AgentTyped, Nothing
<1>4. \A a \in agents : \A c : c \in Covered(a, caps, R) => Holds(a, c)
  BY SatisfiesIsHolds DEF Covered
<1>5. CASE alone
  <2>1. PICK p \in agents :
          /\ Fit(p, q) /\ \A c \in R : Holds(p, c)
          /\ t = [required |-> R, primary |-> p.id, delegates |-> {}, unresolved |-> {}]
    BY <1>1, <1>5, TeamOfOne
  <2> HIDE DEF t
  <2>2. t.required = R /\ Members(t) = {p}
    <3>1. t.delegates \cup ({t.primary} \ {Nothing}) = {p.id}
      BY <1>3, <2>1
    <3> QED
      BY <1>3, <2>1, <3>1 DEF Members
  <2>3. Cardinality(Members(t)) # 2
    BY <2>2, FS_Singleton
  <2>4. Staffed(t, q)
    BY <1>2, <2>1, <2>2, <2>3 DEF Staffed
  <2> QED
    BY <2>4 DEF t
<1>6. CASE ~alone
  <2>1. ~ \E a \in agents : Fit(a, q) /\ \A c \in R : Holds(a, c)
    BY <1>6, FiltersAreFit
  <2>2. t = MatchWithDelegation(q, agents, caps, R) /\ t.unresolved = {}
    BY <1>1, <1>6
  <2> HIDE DEF t
  <2>3. \/ t = NoTeam(R, R)
        \/ \E p \in agents :
             /\ Fit(p, q)
             /\ t.required = R /\ t.primary = p.id
             /\ \/ t.delegates = {} /\ t.unresolved = R \ Covered(p, caps, R)
                \/ \E d \in agents :
                     /\ Fit(d, q) /\ t.delegates = {d.id}
                     /\ t.unresolved = (R \ Covered(p, caps, R)) \ Covered(d, caps, R)
    BY <2>2, TeamOfTwo
  <2>4. /\ t.required = R
        /\ \A c \in R : \E a \in Members(t) : Holds(a, c)
        /\ \A a \in Members(t) : Fit(a, q)
    <3>1. CASE t = NoTeam(R, R)
      <4>1. t.required = R /\ R = {} /\ t.delegates = {} /\ t.primary = Nothing
        BY <2>2, <3>1 DEF NoTeam
      <4>2. Members(t) = {}
        BY <4>1 DEF Members
      <4> QED
        BY <4>1, <4>2
    <3>2. ASSUME NEW p \in agents, Fit(p, q), t.required = R, t.primary = p.id,
                 t.delegates = {} /\ t.unresolved = R \ Covered(p, caps, R)
          PROVE  /\ t.required = R
                 /\ \A c \in R : \E a \in Members(t) : Holds(a, c)
                 /\ \A a \in Members(t) : Fit(a, q)
      <4>1. t.delegates \cup ({t.primary} \ {Nothing}) = {p.id}
        BY <1>3, <3>2
      <4>2. Members(t) = {p}
        BY <1>3, <4>1 DEF Members
      <4> QED
        BY <1>4, <2>2, <3>2, <4>2
    <3>3. ASSUME NEW p \in agents, Fit(p, q), t.required = R, t.primary = p.id,
                 NEW d \in agents, Fit(d, q), t.delegates = {d.id},
                 t.unresolved = (R \ Covered(p, caps, R)) \ Covered(d, caps, R)
          PROVE  /\ t.required = R
                 /\ \A c \in R : \E a \in Members(t) : Holds(a, c)
                 /\ \A a \in Members(t) : Fit(a, q)
      <4>1. t.delegates \cup ({t.primary} \ {Nothing}) = {d.id, p.id}
        BY <1>3, <3>3
      <4>2. Members(t) = {d, p}
        BY <1>3, <4>1 DEF Members
      <4> QED
        BY <1>4, <2>2, <3>3, <4>2
    <3> QED
      BY <2>3, <3>1, <3>2, <3>3
  <2>5. Staffed(t, q)
    BY <1>2, <2>1, <2>4 DEF Staffed
  <2> QED
    BY <2>5 DEF t
<1> QED
  BY <1>5, <1>6

-----------------------------------------------------------------------------
(* Manifests and match reports                                             *)

\* Registries load once, and stay; what was matched since is staffed.
TeamInv ==
  /\ phase = "boot" => /\ caps \in Catalogs \X AliasFiles /\ agents \in AgentFiles
  /\ phase \in {"boot", "down"} => manifests = {} /\ report = <<>>
  /\ phase \notin {"boot", "down"} => Loaded
  /\ ManifestsAreStaffed
  /\ MatchesAreStaffed

\* What a directory loads as has an entry for each id, of a valid file that has it.
LEMMA EntriesOfFiles ==
  ASSUME NEW files, IsFiniteSet(DOMAIN files), Loadable(files, Ids(files))
  PROVE  LET e == Entries(files, Ids(files))
         IN  /\ IsFiniteSet(DOMAIN e) /\ IsFiniteSet(Range(e))
             /\ \A k \in DOMAIN e : e[k].id = k /\ e[k] \in Range(files) /\ e[k].valid
<1> DEFINE keys == Ids(files)
           e == Entries(files, keys)
<1>1. keys = [i \in DOMAIN files |-> files[i].id]
  BY DEF Ids
<1>2. /\ DOMAIN e = {keys[i] : i \in DOMAIN files}
      /\ \A k \in DOMAIN e : e[k] = files[CHOOSE i \in DOMAIN files : keys[i] = k]
  BY <1>1 DEF Entries, Range
<1> HIDE DEF keys, e
<1>3. \A k \in DOMAIN e : \E i \in DOMAIN files : keys[i] = k /\ e[k] = files[i]
  BY <1>2
<1>4. \A k \in DOMAIN e : e[k].id = k /\ e[k] \in Range(files) /\ e[k].valid
  <2>1. \A i \in DOMAIN files : keys[i] = files[i].id /\ files[i].valid /\ files[i] \in Range(files)
    BY <1>1 DEF Loadable, Range, Ids
  <2> QED
    BY <1>3, <2>1
<1>5. IsFiniteSet(DOMAIN e)
  <2>1. keys \in Surjection(DOMAIN files, DOMAIN e)
    BY <1>1, <1>2 DEF Surjection
  <2> QED
    BY <2>1, FS_Surjection
<1>6. IsFiniteSet(Range(e))
  <2>1. e = [k \in DOMAIN e |-> e[k]]
    BY DEF e, Entries
  <2>2. e \in Surjection(DOMAIN e, Range(e))
    BY <2>1 DEF Surjection, Range
  <2> QED
    BY <1>5, <2>2, FS_Surjection
<1> QED
  BY <1>4, <1>5, <1>6 DEF e, keys

\* A server that starts has registries whose agents can be told apart and claim what is
\* known.
LEMMA StartupLoads ==
  ASSUME caps \in Catalogs \X AliasFiles, agents \in AgentFiles, Startup
  PROVE  phase' \notin {"boot", "down"} => Loaded'
<1> DEFINE c == load_capability_registry(caps[1], caps[2])
           a == load_agent_registry(agents, c)
<1> SUFFICES ASSUME phase' \notin {"boot", "down"}
             PROVE  Loaded'
  OBVIOUS
<1>1. c # NoRegistry /\ a # NoRegistry /\ caps' = c /\ agents' = Range(a)
  BY DEF Startup
<1>2. caps[1] \in Catalogs
  OBVIOUS
<1>3. /\ Loadable(caps[1], Ids(caps[1]))
      /\ c = [entries |-> Entries(caps[1], Ids(caps[1])), aliases |-> AliasMap(caps[1], caps[2])]
  BY <1>1 DEF load_capability_registry
<1>4. IsFiniteSet(DOMAIN c.entries)
  <2>1. IsFiniteSet(DOMAIN caps[1])
    BY <1>2, FilesAreTyped
  <2>2. IsFiniteSet(DOMAIN Entries(caps[1], Ids(caps[1])))
    BY <1>3, <2>1, EntriesOfFiles
  <2> QED
    BY <1>3, <2>2
<1> HIDE DEF c
<1>5. /\ \A f \in Range(agents) : \A x \in DOMAIN f.claims : Known(c, x)
      /\ Loadable(agents, Ids(agents)) /\ a = Entries(agents, Ids(agents))
  BY <1>1 DEF load_agent_registry, Load
<1> HIDE DEF a
<1>6. /\ IsFiniteSet(Range(a))
      /\ \A k \in DOMAIN a : a[k].id = k /\ a[k] \in Range(agents) /\ a[k].valid
  BY <1>5, FilesAreTyped, EntriesOfFiles
<1>7. \A x \in Range(a) : /\ x \in Range(agents) /\ x.valid
                          /\ x = a[x.id]
  BY <1>6 DEF Range
<1>8. \A x \in Range(a) : AgentTyped(x) /\ \A y \in DOMAIN x.claims : Known(c, y)
  <2>1. \A x \in Range(agents) : x.valid => AgentTyped(x)
    BY FilesAreTyped DEF AgentTyped
  <2> QED
    BY <1>5, <1>7, <2>1
<1>9. \A x, y \in Range(a) : x.id = y.id => x = y
  BY <1>7
<1> QED
  BY <1>1, <1>4, <1>6, <1>8, <1>9 DEF Loaded

\* While the registries stay, what is staffed stays so.
LEMMA StaysStaffed ==
  ASSUME UNCHANGED <<caps, agents>>
  PROVE  /\ Loaded' = Loaded
         /\ \A t, q : Staffed(t, q)' = Staffed(t, q)
  BY DEF Loaded, Staffed, Members, Agent, Holds, Fit

\* Every step keeps manifests and reports staffed.
LEMMA TeamStep == TeamInv /\ [Next]_vars => TeamInv'
<1> SUFFICES ASSUME TeamInv, [Next]_vars
             PROVE  TeamInv'
  OBVIOUS
<1>1. CASE Startup
  <2>1. /\ phase = "boot" /\ phase' \in {"ready", "down"} /\ manifests' = manifests /\ report' = report
    BY <1>1 DEF Startup
  <2>2. manifests' = {} /\ report' = <<>>
    BY <2>1 DEF TeamInv
  <2>3. phase' \notin {"boot", "down"} => Loaded'
    BY <1>1, <2>1, StartupLoads DEF TeamInv
  <2> QED
    BY <2>1, <2>2, <2>3 DEF TeamInv, ManifestsAreStaffed, MatchesAreStaffed
<1>2. ASSUME NEW denied \in BOOLEAN, FinishCompile(denied)
      PROVE  TeamInv'
  <2> DEFINE q == MatchRequest(job.spoc.explicit \cup job.inferred, job.spoc.class)
             t == match(q, agents, caps)
             m == Manifest(job.spoc, job.inferred, t, denied)
  <2>1. /\ UNCHANGED <<caps, agents, report>> /\ phase = "review" /\ phase' = "ready" /\ Loaded
        /\ manifests' = manifests \/ (t.unresolved = {} /\ manifests' = manifests \cup {m})
    BY <1>2 DEF FinishCompile, registries, TeamInv
  <2>2. RequestTyped(q)
    BY FS_EmptySet DEF MatchRequest, RequestTyped, Nothing
  <2>3. t.unresolved = {} => Staffed(t, q)
    <3> HIDE DEF q
    <3> QED
      BY <2>1, <2>2, MatchIsStaffed
  <2>4. m.team = t /\ MatchRequest(m.spoc.explicit \cup m.inferred, m.spoc.class) = q
    BY DEF Manifest
  <2> HIDE DEF t, q, m
  <2>5. \A n \in manifests' :
          Staffed(n.team, MatchRequest(n.spoc.explicit \cup n.inferred, n.spoc.class))
    BY <2>1, <2>3, <2>4 DEF TeamInv, ManifestsAreStaffed
  <2>6. ManifestsAreStaffed' /\ MatchesAreStaffed'
    BY <2>1, <2>5, StaysStaffed DEF TeamInv, ManifestsAreStaffed, MatchesAreStaffed
  <2> QED
    BY <2>1, <2>6, StaysStaffed DEF TeamInv
<1>3. ASSUME NEW request \in Requests, Explain(request)
      PROVE  TeamInv'
  <2>1. /\ UNCHANGED <<caps, agents, phase, manifests>> /\ phase = "ready" /\ Loaded
        /\ report' = <<request, match(request, agents, caps)>>
    BY <1>3 DEF Explain, registries, TeamInv
  <2>2. match(request, agents, caps).unresolved = {} => Staffed(match(request, agents, caps), request)
    BY <2>1, RequestsAreTyped, MatchIsStaffed
  <2>3. ManifestsAreStaffed' /\ MatchesAreStaffed'
    BY <2>1, <2>2, StaysStaffed DEF TeamInv, ManifestsAreStaffed, MatchesAreStaffed
  <2> QED
    BY <2>1, <2>3, StaysStaffed DEF TeamInv
<1>4. ASSUME UNCHANGED <<caps, agents, manifests, report>>,
             phase' = phase \/ {phase, phase'} \cap {"boot", "down"} = {}
      PROVE  TeamInv'
  <2>1. ManifestsAreStaffed' /\ MatchesAreStaffed'
    BY <1>4, StaysStaffed DEF TeamInv, ManifestsAreStaffed, MatchesAreStaffed
  <2> QED
    BY <1>4, <2>1, StaysStaffed DEF TeamInv
<1>5. ASSUME NEW spoc \in Spocs, NEW proposal \in Proposals, Compile(spoc, proposal)
      PROVE  TeamInv'
  <2>1. UNCHANGED <<caps, agents, manifests, report>> /\ phase = "ready" /\ phase' \in {"ready", "review"}
    BY <1>5 DEF Compile, registries
  <2> QED
    BY <1>4, <2>1
<1>6. CASE RequestReview \/ ReadReview
  <2>1. /\ UNCHANGED <<caps, agents, manifests, report>>
        /\ phase \in {"review", "asked"} /\ phase' \in {"ready", "review", "asked"}
    BY <1>6 DEF RequestReview, ReadReview, registries
  <2> QED
    BY <1>4, <2>1
<1>7. CASE \/ \E id \in DOMAIN approvals, approved \in BOOLEAN : ResolveApproval(id, approved)
           \/ \E d \in DOMAIN Blocks : ChangeDependency(d)
           \/ UNCHANGED vars
  <2>1. UNCHANGED <<caps, agents, manifests, report, phase>>
    BY <1>7 DEF ResolveApproval, ChangeDependency, vars, registries
  <2> QED
    BY <1>4, <2>1
<1> QED
  BY <1>1, <1>2, <1>3, <1>5, <1>6, <1>7 DEF Next

\* What is known of teams holds in every state.
LEMMA TeamHolds == Spec => []TeamInv
<1>1. Init => TeamInv
  BY DEF Init, TeamInv, ManifestsAreStaffed, MatchesAreStaffed
<1> QED
  BY <1>1, TeamStep, PTL DEF Spec

\* Every complete match is staffed: whatever the registries, with cyclic dependencies and
\* aliases of aliases, with exclusions, tools, costs and pass rates in the request
\* (capability_matcher.match).
THEOREM MatchesStaffed == Spec => []MatchesAreStaffed
<1>1. TeamInv => MatchesAreStaffed
  BY DEF TeamInv
<1> QED
  BY <1>1, TeamHolds, PTL

\* Every manifest is staffed, whatever the inference adapter proposed and humans approved
\* (spoc_compiler.compile).
THEOREM ManifestsStaffed == Spec => []ManifestsAreStaffed
<1>1. TeamInv => ManifestsAreStaffed
  BY DEF TeamInv
<1> QED
  BY <1>1, TeamHolds, PTL

=============================================================================
